------------------------------ MODULE AppendLog -------------------------------
(***************************************************************************)
(* What Ledger.append promises concurrent callers: one log, to which each  *)
(* call adds its record in a single step between its start and its return, *)
(* and to which a call that fails or is killed adds it at most once.       *)
(* Ledger is shown to implement it while every writer gets the lock and    *)
(* nothing else writes the file.  Source: the docstring of Ledger.append,  *)
(* src/src/arcaeon/record/ledger/__init__.py.                              *)
(***************************************************************************)
EXTENDS Sequences

CONSTANTS Callers, Records, None

VARIABLES log,   \* the records, in order
          asked, \* the record each caller's pending call carries
          phase  \* "idle", "pending", "committed"

avars == <<log, asked, phase>>

AInit == /\ log = <<>>
         /\ asked \in [Callers -> {None}]
         /\ phase = [c \in Callers |-> "idle"]

Start(c, r) == /\ phase[c] = "idle"
               /\ asked' = [asked EXCEPT ![c] = r]
               /\ phase' = [phase EXCEPT ![c] = "pending"]
               /\ UNCHANGED log

Commit(c) == /\ phase[c] = "pending"
             /\ log' = Append(log, asked[c])
             /\ phase' = [phase EXCEPT ![c] = "committed"]
             /\ UNCHANGED asked

Return(c) == /\ phase[c] = "committed"
             /\ phase' = [phase EXCEPT ![c] = "idle"]
             /\ UNCHANGED <<log, asked>>

Fail(c) == /\ phase[c] = "pending"
           /\ log' \in {log, Append(log, asked[c])}
           /\ phase' = [phase EXCEPT ![c] = "idle"]
           /\ UNCHANGED asked

ANext == \E c \in Callers : \/ \E r \in Records : Start(c, r)
                            \/ Commit(c) \/ Return(c) \/ Fail(c)

ASpec == AInit /\ [][ANext]_avars
=============================================================================
