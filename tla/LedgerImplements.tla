--------------------------- MODULE LedgerImplements ---------------------------
(***************************************************************************)
(* Ledger implements AppendLog.  The abstract log is the chain value at    *)
(* the tail of the file, which names every record before it; a call is     *)
(* committed from its write on.  A call that raises or whose process died  *)
(* has ended for the abstraction before its lock is dropped.               *)
(***************************************************************************)
EXTENDS Ledger

PhaseOf(label) == CASE label \in {"acquire", "tail", "probe", "write"} -> "pending"
                    [] label = "release" -> "committed"
                    [] OTHER -> "idle"

Abstract == INSTANCE AppendLog WITH
              Callers <- Writers, Records <- Bodies, None <- Void,
              log <- LastChain(file), asked <- body,
              phase <- [w \in Writers |-> PhaseOf(pc[w])]

AppendIsAtomic == Abstract!ASpec
=============================================================================
