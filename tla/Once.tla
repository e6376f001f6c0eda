--------------------------------- MODULE Once ---------------------------------
(***************************************************************************)
(* guard, done, complete, reclaim and rebuild_index as processes run them  *)
(* on one key: the ledger's once.intent and once.executed rows, the SQLite *)
(* index beside it, and the effect they stand guard over.                  *)
(* Source: src/src/arcaeon/record/once/__init__.py.                        *)
(*                                                                         *)
(* An append is one step, which is what Ledger shows of it, and so is a    *)
(* BEGIN IMMEDIATE transaction.  Everything else is a step of its own: the *)
(* receipt a decision rests on is read before the decision is carried out. *)
(***************************************************************************)
EXTENDS Integers, Sequences, FiniteSets

CONSTANTS Callers,      \* processes that call guard, each with its own pid
          Overlapping,  \* what may run beside a guard that could mind it
          MaxCalls, MaxCrashes, MaxFailures, MaxJobs   \* bounds

Nobody == "nobody"      \* a row without a lease

ASSUME NobodyIsNoCaller == Nobody \notin Callers
ASSUME OverlappingIsKnown == Overlapping \subseteq {"reclaim", "complete", "loss"}

VARIABLES ledger,  \* the key's events, in file order
          index,   \* the key's row of once_state, or NoRow
          pc,      \* where each caller is in guard and done
          flag,    \* its allow_retry_after_indeterminate
          gen,     \* the generation it read
          job,     \* what the operator is doing and what it read
          fired,   \* the effects that ran: who ran it, under which flag
          spent    \* counters: calls, crashes, failures, jobs

vars == <<ledger, index, pc, flag, gen, job, fired, spent>>

NoRow == [state |-> "none", gen |-> 0, holder |-> Nobody]
NoJob == [at |-> "idle", seen |-> "never"]

Init == /\ ledger = <<>>
        /\ index = NoRow
        /\ pc = [c \in Callers |-> "idle"]
        /\ flag = [c \in Callers |-> FALSE]
        /\ gen = [c \in Callers |-> 0]
        /\ job = NoJob
        /\ fired = <<>>
        /\ spent = [calls |-> 0, crashes |-> 0, failures |-> 0, jobs |-> 0]

Goto(c, label) == pc' = [pc EXCEPT ![c] = label]
Spend(what, most) == spent[what] < most /\ spent' = [spent EXCEPT ![what] = @ + 1]

\* receipt: the key's last event, or "never".
Receipt(log) == IF log = <<>> THEN "never" ELSE log[Len(log)]

\* reclaim has read the receipt and no guard is to write before it decides.
Deciding == job.at \in {"reclaim"} \ Overlapping

(***************************************************************************)
(* GuardContext: idle -> claim -> intend -> won, or, for a key that has a  *)
(* row already, reread -> generation -> cas -> intend | lost.              *)
(***************************************************************************)
\* _resolve_duplicate ends the call; _resolve_indeterminate ends it too, unless
\* the caller passed the flag.
Resolve(c, state, flagged) ==
  Goto(c, IF state # "executed" /\ flagged THEN "generation" ELSE "idle")

\* The key's state is derived from the ledger before the index is opened.
Enter(c, flagged) ==
  /\ pc[c] = "idle"
  /\ job.at \notin {"complete", "rebuild"} \ Overlapping
  /\ Spend("calls", MaxCalls)
  /\ flag' = [flag EXCEPT ![c] = flagged]
  /\ IF ledger = <<>> THEN Goto(c, "claim") ELSE Resolve(c, Receipt(ledger), flagged)
  /\ UNCHANGED <<ledger, index, gen, job, fired>>

\* Mutants of Claim: the effect may start before its intent is on record; a
\* live claim looks like an abandoned one.
ClaimThenFire(c) ==
  /\ pc[c] = "claim"
  /\ IF index = NoRow
     THEN /\ index' = [state |-> "claiming", gen |-> 0, holder |-> c]
          /\ Goto(c, "won")
     ELSE UNCHANGED index /\ Goto(c, "reread")
  /\ UNCHANGED <<ledger, flag, gen, job, fired, spent>>

ClaimAsIntent(c) ==
  /\ pc[c] = "claim"
  /\ IF index = NoRow
     THEN /\ index' = [state |-> "intent", gen |-> 0, holder |-> c]
          /\ Goto(c, "intend")
     ELSE UNCHANGED index /\ Goto(c, "reread")
  /\ UNCHANGED <<ledger, flag, gen, job, fired, spent>>

\* _init_index creates a missing index, and _claim inserts a row, with the
\* lease, unless there is one.
Claim(c) ==
  /\ pc[c] = "claim"
  /\ IF index = NoRow
     THEN /\ index' = [state |-> "claiming", gen |-> 0, holder |-> c]
          /\ Goto(c, "intend")
     ELSE UNCHANGED index /\ Goto(c, "reread")
  /\ UNCHANGED <<ledger, flag, gen, job, fired, spent>>

\* The loser of the claim derives the state again.
Reread(c) == /\ pc[c] = "reread"
             /\ Resolve(c, Receipt(ledger), flag[c])
             /\ UNCHANGED <<ledger, index, flag, gen, job, fired, spent>>

ReadGeneration(c) == /\ pc[c] = "generation"
                     /\ gen' = [gen EXCEPT ![c] = index.gen]
                     /\ Goto(c, "cas")
                     /\ UNCHANGED <<ledger, index, flag, job, fired, spent>>

\* _reclaim_after_indeterminate
Cas(c) ==
  /\ pc[c] = "cas"
  /\ IF index.state = "intent" /\ index.gen = gen[c]
     THEN /\ index' = [state |-> "retrying", gen |-> index.gen + 1, holder |-> c]
          /\ Goto(c, "intend")
     ELSE UNCHANGED index /\ Goto(c, "lost")
  /\ UNCHANGED <<ledger, flag, gen, job, fired, spent>>

\* The loser of the CAS raises AlreadyExecuted or Indeterminate.
Lost(c) == /\ pc[c] = "lost" /\ Goto(c, "idle")
           /\ UNCHANGED <<ledger, index, flag, gen, job, fired, spent>>

\* The once.intent row goes in before the effect runs.
Intend(c) == /\ pc[c] = "intend" /\ ~Deciding
             /\ ledger' = Append(ledger, "intent")
             /\ Goto(c, "won")
             /\ UNCHANGED <<index, flag, gen, job, fired, spent>>

\* The guarded block.
Fire(c) == /\ pc[c] = "won"
           /\ fired' = Append(fired, [by |-> c, flagged |-> flag[c]])
           /\ Goto(c, "fired")
           /\ UNCHANGED <<ledger, index, flag, gen, job, spent>>

\* done is complete: an unresolved intent is asked for first,
DoneRead(c) == /\ pc[c] = "fired"
               /\ Goto(c, IF Receipt(ledger) = "intent" THEN "execute" ELSE "idle")
               /\ UNCHANGED <<ledger, index, flag, gen, job, fired, spent>>

\* the once.executed row appended,
Execute(c) == /\ pc[c] = "execute" /\ ~Deciding
              /\ ledger' = Append(ledger, "executed")
              /\ Goto(c, "mark")
              /\ UNCHANGED <<index, flag, gen, job, fired, spent>>

\* and the index told, if it still has a row.
Marked(row) == IF row = NoRow THEN NoRow
               ELSE [row EXCEPT !.state = "executed", !.holder = Nobody]

Mark(c) == /\ pc[c] = "mark"
           /\ index' = Marked(index)
           /\ Goto(c, "idle")
           /\ UNCHANGED <<ledger, flag, gen, job, fired, spent>>

\* IndexUnavailable, an append that raises, or an exception in the block: the
\* call ends where it stands, and its process lives.
Fails(c) == /\ pc[c] \in {"claim", "generation", "cas", "intend", "won", "fired", "execute", "mark"}
            /\ Spend("failures", MaxFailures)
            /\ Goto(c, "idle")
            /\ UNCHANGED <<ledger, index, flag, gen, job, fired>>

\* The process dies, and a row may keep its lease.
Crash(c) == /\ pc[c] # "dead"
            /\ Spend("crashes", MaxCrashes)
            /\ Goto(c, "dead")
            /\ UNCHANGED <<ledger, index, flag, gen, job, fired>>

Caller(c) == \/ \E flagged \in BOOLEAN : Enter(c, flagged)
             \/ Claim(c) \/ Reread(c) \/ ReadGeneration(c) \/ Cas(c) \/ Lost(c)
             \/ Intend(c) \/ Fire(c) \/ DoneRead(c) \/ Execute(c) \/ Mark(c)
             \/ Fails(c) \/ Crash(c)

(***************************************************************************)
(* The operator.  rebuild_index requires quiescence.  The others do not.   *)
(* Unless Overlapping names them, no guard writes the ledger between the   *)
(* read and the decision of reclaim, no guard runs beside complete, and    *)
(* the index is not lost while a claim waits for its intent row.           *)
(***************************************************************************)
In(labels) == \E c \in Callers : pc[c] \in labels
Quiet == ~In({"claim", "reread", "generation", "cas", "lost", "intend",
              "won", "fired", "execute", "mark"})
Operate(new) == job' = new /\ UNCHANGED <<pc, flag, gen, fired>>
StartJob == job.at = "idle" /\ Spend("jobs", MaxJobs)

\* reclaim reads the receipt outside its transaction.
ReclaimRead == /\ StartJob
               /\ Receipt(ledger) # "executed"
               /\ Operate([at |-> "reclaim", seen |-> Receipt(ledger)])
               /\ UNCHANGED <<ledger, index>>

\* Mutant of ReclaimRow: the row is deleted whatever the receipt said.
ReclaimDeletes ==
  /\ job.at = "reclaim"
  /\ IF index.state \in {"claiming", "retrying"} /\ index.holder # Nobody /\ pc[index.holder] = "dead"
     THEN index' = NoRow
     ELSE UNCHANGED index
  /\ Operate(NoJob)
  /\ UNCHANGED <<ledger, spent>>

\* It frees the row of a holder proven dead.  It refuses one that is alive,
\* has no lease, or is no claim.
ReclaimRow ==
  /\ job.at = "reclaim"
  /\ IF index.state \in {"claiming", "retrying"} /\ index.holder # Nobody /\ pc[index.holder] = "dead"
     THEN index' = IF job.seen = "never" THEN NoRow
                   ELSE [state |-> "intent", gen |-> index.gen + 1, holder |-> Nobody]
     ELSE UNCHANGED index
  /\ Operate(NoJob)
  /\ UNCHANGED <<ledger, spent>>

\* Mutant of CompleteRead: the state of the key is not asked for.
CompleteUnread == /\ StartJob
                  /\ "complete" \in Overlapping \/ Quiet
                  /\ fired # <<>>
                  /\ Operate([at |-> "complete", seen |-> "intent"])
                  /\ UNCHANGED <<ledger, index>>

\* complete, by an operator who found that the effect did happen.
CompleteRead == /\ StartJob
                /\ "complete" \in Overlapping \/ Quiet
                /\ fired # <<>>
                /\ Receipt(ledger) = "intent"
                /\ Operate([at |-> "complete", seen |-> "intent"])
                /\ UNCHANGED <<ledger, index>>

CompleteRow == /\ job.at = "complete" /\ job.seen = "intent"
               /\ ledger' = Append(ledger, "executed")
               /\ Operate([at |-> "complete", seen |-> "executed"])
               /\ UNCHANGED <<index, spent>>

CompleteMark == /\ job.at = "complete" /\ job.seen = "executed"
                /\ index' = Marked(index)
                /\ Operate(NoJob)
                /\ UNCHANGED <<ledger, spent>>

\* rebuild_index: the file is unlinked, then the ledger replayed into a new one.
RebuildUnlink == /\ StartJob /\ Quiet
                 /\ index' = NoRow
                 /\ Operate([at |-> "rebuild", seen |-> "never"])
                 /\ UNCHANGED ledger

Replayed == IF ledger = <<>> THEN NoRow
            ELSE [state |-> Receipt(ledger), gen |-> 0, holder |-> Nobody]

RebuildReplay == /\ job.at = "rebuild"
                 /\ index' = Replayed
                 /\ Operate(NoJob)
                 /\ UNCHANGED <<ledger, spent>>

\* The operator's process ends between two steps.
OperatorDies == /\ job.at # "idle" /\ Spend("failures", MaxFailures)
                /\ Operate(NoJob)
                /\ UNCHANGED <<ledger, index>>

\* The index file is lost.
LoseIndex == /\ index # NoRow /\ Spend("jobs", MaxJobs)
             /\ "loss" \in Overlapping \/ ~In({"claim", "intend"})
             /\ index' = NoRow
             /\ UNCHANGED <<ledger, pc, flag, gen, job, fired>>

Operator == \/ ReclaimRead \/ ReclaimRow \/ CompleteRead \/ CompleteRow \/ CompleteMark
            \/ RebuildUnlink \/ RebuildReplay \/ OperatorDies \/ LoseIndex

Next == (\E c \in Callers : Caller(c)) \/ Operator

Spec == Init /\ [][Next]_vars
(***************************************************************************)
(* What must hold.                                                         *)
(***************************************************************************)
Holding == {"intend", "won", "fired", "execute", "mark"}   \* the claim is theirs
\* "At-most-once-or-flagged": an effect that ran may run again only for a
\* caller that passed allow_retry_after_indeterminate, whatever crashed, failed
\* or was lost in between.
AtMostOnceOrFlagged == \A n \in 2..Len(fired) : fired[n].flagged

\* A live claim is protected: "exactly one process wins the claim", of a fresh
\* key and of a retry, no flag lets two callers hold the key at once, and the
\* index never shows a key that a running process holds as free to take over,
\* while the index is lost only after the intent is on record.
HeldIsNotFree == \A c \in Callers :
  /\ pc[c] = "intend" => index.holder = c
  /\ pc[c] \in Holding => index.state # "intent"
  /\ \A d \in Callers : pc[c] \in Holding /\ pc[d] \in Holding => c = d

\* The receipt tells the truth about the effect: "never" is said of no effect
\* that ran, "executed" of none that did not; and the index may lag behind the
\* ledger and is never ahead of it.
ReceiptIsTrue == /\ ledger = <<>> => fired = <<>>
                 /\ Receipt(ledger) = "executed" => fired # <<>>
                 /\ index.state = "executed" => Receipt(ledger) = "executed"
                 /\ index.state \in {"intent", "retrying"} => ledger # <<>>

\* An executed key is final: "you can't complete one that's already executed",
\* and it is not claimed again.
ExecutedIsFinal == \A n \in 1..Len(ledger)-1 : ledger[n] # "executed"
=============================================================================
