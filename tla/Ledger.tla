-------------------------------- MODULE Ledger --------------------------------
(***************************************************************************)
(* Ledger.append and declare_break as processes run them on one file:      *)
(* the sidecar lock with its deadline, the read of the tail, the check of  *)
(* the last byte, the single write, and what crashes, failed writes and    *)
(* programs that do not take the lock do in between.                       *)
(* Source: src/src/arcaeon/record/ledger/__init__.py.                      *)
(***************************************************************************)
EXTENDS LedgerLog

CONSTANTS Writers,   \* processes that call append
          Patient,   \* writers that never reach the lock's deadline
          Foreign,   \* pieces another program may append
          Declarations, \* the declarations declare_break may append
          MaxCalls,  \* bound on the calls of append
          MaxMishaps \* bound on crashes, failed writes and foreign lines

Free == "free"      \* nobody holds <path>.lock

ASSUME WritersAssumption == Patient \subseteq Writers /\ Free \notin Writers
ASSUME BoundsAreNaturals == MaxCalls \in Nat /\ MaxMishaps \in Nat
ASSUME DeclarationsAreNoContent == Content \cap Declarations = {} /\ Void \notin Declarations

Bodies == Content \cup Declarations
Chains == Seq(Bodies \cup {Void})
Pieces == [kind : RowKinds \cup {"scalar", "scrap"}, body : Bodies \cup {Void}, chain : Chains]

ASSUME ForeignArePieces == Foreign \subseteq Pieces

VARIABLES file,    \* the ledger file
          lock,    \* the writer whose descriptor holds the flock, or Free
          pc,      \* where each writer is in append
          body,    \* the record each writer is appending
          prev,    \* what _last_chain returned to it
          sep,     \* whether it found the last byte to be no newline
          late,    \* whether its lock deadline has passed
          spent,   \* counters: calls, mishaps, foreign lines, unlocked entries
          returned \* the rows append returned a chain value for, in order

vars == <<file, lock, pc, body, prev, sep, late, spent, returned>>

(***************************************************************************)
(* idle -> acquire -> tail -> probe -> write -> release -> idle; a write   *)
(* that raises goes through raise, a killed process through dead.          *)
(***************************************************************************)
Init == /\ file = <<>>
        /\ lock = Free
        /\ pc = [w \in Writers |-> "idle"]
        /\ body = [w \in Writers |-> Void]
        /\ prev = [w \in Writers |-> Genesis]
        /\ sep = [w \in Writers |-> FALSE]
        /\ late = [w \in Writers |-> FALSE]
        /\ spent = [calls |-> 0, mishaps |-> 0, foreign |-> 0, unlocked |-> 0]
        /\ returned = <<>>

Goto(w, label) == pc' = [pc EXCEPT ![w] = label]

Call(w, b) == /\ pc[w] = "idle" /\ spent.calls < MaxCalls
              /\ Goto(w, "acquire")
              /\ body' = [body EXCEPT ![w] = b]
              /\ late' = [late EXCEPT ![w] = FALSE]
              /\ spent' = [spent EXCEPT !.calls = @ + 1]
              /\ UNCHANGED <<file, lock, prev, sep, returned>>

AppendRecord(w, b) == b \in Content /\ Call(w, b)

\* declare_break: the lines are read, the line pinned, the row appended.  The
\* resume point is the chain the orphan followed, or left out.
DeclareBreak(w, i, resume) ==
  /\ i \in 1..Len(file) /\ file[i] # <<>>
  /\ resume \in {Genesis, TailChain(file, i-1)}
  /\ Declaration(i, file[i], resume) \in Declarations
  /\ Call(w, Declaration(i, file[i], resume))

\* Mutant of Acquire: the lock is not exclusive.
AcquireShared(w) == /\ pc[w] = "acquire"
                    /\ lock' = w
                    /\ Goto(w, "tail")
                    /\ UNCHANGED <<file, body, prev, sep, late, spent, returned>>

\* _append_lock: the non-blocking flock succeeds.
Acquire(w) == /\ pc[w] = "acquire" /\ lock = Free
              /\ lock' = w
              /\ Goto(w, "tail")
              /\ UNCHANGED <<file, body, prev, sep, late, spent, returned>>

\* Time passes for a writer that waits for the lock.
Deadline(w) == /\ pc[w] = "acquire" /\ ~late[w] /\ w \notin Patient
               /\ late' = [late EXCEPT ![w] = TRUE]
               /\ UNCHANGED <<file, lock, pc, body, prev, sep, spent, returned>>

\* Mutant of FallThrough: a late writer still waits for the holder.
FallThroughIfFree(w) == /\ pc[w] = "acquire" /\ lock = Free /\ late[w]
                        /\ Goto(w, "tail")
                        /\ spent' = [spent EXCEPT !.unlocked = @ + 1]
                        /\ UNCHANGED <<file, lock, body, prev, sep, late, returned>>

\* A failed try after the deadline: "fall through unlocked rather than fail the
\* append".
FallThrough(w) == /\ pc[w] = "acquire" /\ lock # Free /\ late[w]
                  /\ Goto(w, "tail")
                  /\ spent' = [spent EXCEPT !.unlocked = @ + 1]
                  /\ UNCHANGED <<file, lock, body, prev, sep, late, returned>>

\* obj["chain"] = _chain(self._last_chain(), obj)
ReadTail(w) == /\ pc[w] = "tail"
               /\ prev' = [prev EXCEPT ![w] = LastChain(file)]
               /\ Goto(w, "probe")
               /\ UNCHANGED <<file, lock, body, sep, late, spent, returned>>

\* Mutant of Probe: a torn tail is not healed.
ProbeNothing(w) == /\ pc[w] = "probe"
                   /\ sep' = [sep EXCEPT ![w] = FALSE]
                   /\ Goto(w, "write")
                   /\ UNCHANGED <<file, lock, body, prev, late, spent, returned>>

\* The last byte decides on the separator.
Probe(w) == /\ pc[w] = "probe"
            /\ sep' = [sep EXCEPT ![w] = ~EndsInNewline(file)]
            /\ Goto(w, "write")
            /\ UNCHANGED <<file, lock, body, prev, late, spent, returned>>

NewRow(w) == Row(body[w], prev[w])

\* The payload lands in one write; tell confirms it.
Store(w) == /\ pc[w] = "write"
            /\ file' = Put(file, sep[w], <<NewRow(w)>>, TRUE)
            /\ Goto(w, "release")
            /\ UNCHANGED <<lock, body, prev, sep, late, spent, returned>>

Mishap == spent.mishaps < MaxMishaps /\ spent' = [spent EXCEPT !.mishaps = @ + 1]

\* The write raises (disk full, an unencodable row, an unconfirmed write) with
\* any part of the payload in the file.
StoreFails(w) == /\ pc[w] = "write" /\ Mishap
                 /\ file' \in Landings(file, sep[w], NewRow(w))
                 /\ Goto(w, "raise")
                 /\ UNCHANGED <<lock, body, prev, sep, late, returned>>

\* Mutant of Unlock: a writer that never got the lock drops another's.
UnlockAny(w) == lock' = Free
Unlock(w) == lock' = IF lock = w THEN Free ELSE lock

\* The context manager exits and append returns the row's chain.
Release(w) == /\ pc[w] = "release"
              /\ Unlock(w)
              /\ Goto(w, "idle")
              /\ returned' = Append(returned, NewRow(w))
              /\ UNCHANGED <<file, body, prev, sep, late, spent>>

\* The same exit while an OSError propagates to the caller.
Raise(w) == /\ pc[w] = "raise"
            /\ Unlock(w)
            /\ Goto(w, "idle")
            /\ UNCHANGED <<file, body, prev, sep, late, spent, returned>>

\* The process is killed, in the write with any part of the payload landed; the
\* operating system drops its flock.
Crash(w) == /\ pc[w] \notin {"idle", "dead"} /\ Mishap
            /\ IF pc[w] = "write"
               THEN file' \in Landings(file, sep[w], NewRow(w))
               ELSE UNCHANGED file
            /\ Unlock(w)
            /\ Goto(w, "dead")
            /\ UNCHANGED <<body, prev, sep, late, returned>>

Restart(w) == /\ pc[w] = "dead"
              /\ Goto(w, "idle")
              /\ UNCHANGED <<file, lock, body, prev, sep, late, spent, returned>>

\* Another program appends a line, with no lock and no healing.
ForeignAppend(piece) ==
  /\ spent.mishaps < MaxMishaps
  /\ spent' = [spent EXCEPT !.mishaps = @ + 1, !.foreign = @ + 1]
  /\ file' = Put(file, FALSE, <<piece>>, TRUE)
  /\ UNCHANGED <<lock, pc, body, prev, sep, late, returned>>

Attempt(w) == Acquire(w) \/ FallThrough(w)

Inside(w) == ReadTail(w) \/ Probe(w) \/ Store(w) \/ Release(w) \/ Raise(w)

Writer(w) == \/ \E b \in Content : AppendRecord(w, b)
             \/ \E i \in 1..Len(file) :
                  \E r \in {Genesis, TailChain(file, i-1)} : DeclareBreak(w, i, r)
             \/ Deadline(w) \/ Attempt(w) \/ Inside(w)
             \/ StoreFails(w) \/ Crash(w) \/ Restart(w)

Next == \/ \E w \in Writers : Writer(w)
        \/ \E p \in Foreign : ForeignAppend(p)

Spec == Init /\ [][Next]_vars

(***************************************************************************)
(* Fairness.  A process that runs keeps running and its clock advances, so *)
(* its steps are weakly fair; nothing obliges a process to call append,    *)
(* nothing obliges the processes outside Running to take a step at all     *)
(* (a stopped or hung holder of the lock), and flock gives no fairness     *)
(* among the waiters.                                                      *)
(***************************************************************************)
Fair(Running) == \A w \in Running : /\ WF_vars(Deadline(w))
                                    /\ WF_vars(Attempt(w))
                                    /\ WF_vars(Inside(w))
(***************************************************************************)
(* What must hold.                                                         *)
(***************************************************************************)
Section == {"tail", "probe", "write", "release", "raise"}
Counters == [calls : Nat, mishaps : Nat, foreign : Nat, unlocked : Nat]
Labels == Section \cup {"idle", "acquire", "dead"}

TypeOK == /\ file \in Seq(Seq(Pieces))
          /\ lock \in Writers \cup {Free}
          /\ pc \in [Writers -> Labels]
          /\ body \in [Writers -> Bodies \cup {Void}]
          /\ prev \in [Writers -> Chains]
          /\ sep \in [Writers -> BOOLEAN]
          /\ late \in [Writers -> BOOLEAN]
          /\ spent \in Counters
          /\ returned \in Seq(Pieces)

\* _append_lock: the whole read-then-write section is serialized across
\* processes, crashes and failed writes included, until a writer's deadline
\* makes it go in unlocked.
Serialized == spent.unlocked = 0 => \A w \in Writers : pc[w] \in Section => lock = w

\* What a writer read under the lock is still so when it writes.
Fresh == (spent.unlocked = 0 /\ spent.foreign = 0) =>
           \A w \in Writers :
             /\ pc[w] \in {"probe", "write"} => prev[w] = LastChain(file)
             /\ pc[w] = "write" => sep[w] = ~EndsInNewline(file)

\* Concurrent writers serialize instead of forking the chain: every row in the
\* file chains from the row before it, across torn lines and restarts.
NoFork == (spent.unlocked = 0 /\ spent.foreign = 0) => Linked(file)

OnItsLine(row) == \E i \in 1..Len(file) : file[i] = <<row>>

\* A row whose chain value append returned is in the file on a line of its own,
\* in the order of the returns, whoever crashes in the middle of a write before
\* or after it and whatever other programs append.
ReturnedRowsAreKept ==
  spent.unlocked = 0 =>
    \E at \in [1..Len(returned) -> 1..Len(file)] :
       /\ \A n \in 1..Len(returned) : file[at[n]] = <<returned[n]>>
       /\ \A m, n \in 1..Len(returned) : m < n => at[m] < at[n]

\* Unlocked writers can fork the chain and lose rows to a torn line, but never
\* "a lost verdict": under a green each returned row is there, once.
GreenHoldsEveryRow ==
  Ok(file, FALSE) = "True" =>
    /\ \A n \in 1..Len(returned) : OnItsLine(returned[n])
    /\ \A m, n \in 1..Len(returned) : m # n => returned[m] # returned[n]

\* A log whose every writer took the lock, and that nothing tore, is green:
\* the verdict is no false alarm.
QuietLogIsGreen ==
  (spent.unlocked = 0 /\ spent.mishaps = 0 /\ RowCount(file) > 0) => Ok(file, TRUE) = "True"

\* The verdict over a shared log is true in both directions.
VerdictIsTrue == GreenHoldsEveryRow /\ QuietLogIsGreen

\* "A stuck lock must not become a hard write outage": a running writer's call
\* ends, even when the holder of the lock is stopped forever.
CallReturns(Running) == \A w \in Running : pc[w] = "acquire" ~> pc[w] \in {"idle", "dead"}
=============================================================================
