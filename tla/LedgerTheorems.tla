---------------------------- MODULE LedgerTheorems ----------------------------
(***************************************************************************)
(* Ledger's invariants, proved for every set of writers, bodies, foreign   *)
(* pieces and every bound.  Serialized is inductive by itself.  Fresh and  *)
(* NoFork are not: what a writer read is still so only because the writer  *)
(* is alone, and a row links only because what its writer read is still    *)
(* so.  Their conjunction with TypeOK is.  The rows append returned stay   *)
(* in the ledger, in order, while no writer went in without the lock, and  *)
(* under a green verdict whoever did.                                      *)
(***************************************************************************)
EXTENDS LedgerImplements, LedgerLogTheorems

(***************************************************************************)
(* Types.                                                                  *)
(***************************************************************************)
LEMMA RowIsPiece ==
  ASSUME NEW b \in Bodies \cup {Void}, NEW chain \in Chains
  PROVE  Row(b, chain) \in Pieces
BY DEF Row, Hash, Pieces, RowKinds, Chains

LEMMA ScrapIsPiece == Scrap \in Pieces
BY DEF Scrap, Pieces, Genesis, Chains

LEMMA TailChainType ==
  ASSUME NEW f \in Seq(Seq(Pieces)), NEW n \in 0..Len(f)
  PROVE  TailChain(f, n) \in Chains
<1>1. Genesis \in Chains
  BY DEF Genesis, Chains
<1>2. ASSUME NEW i \in 1..n, LastRowIs(f, i, n)
      PROVE  TailChain(f, n) \in Chains
  <2>1. f[i] \in Seq(Pieces) /\ f[i] # <<>> /\ Len(f[i]) = 1
    BY <1>2 DEF LastRowIs, IsRow, Kind, RowKinds
  <2>2. f[i][1] \in Pieces
    BY <2>1
  <2> QED
    BY <1>2, <2>2, TailChainIs DEF Claimed, Pieces
<1>3. CASE ~ \E i \in 1..n : LastRowIs(f, i, n)
  BY <1>1, <1>3 DEF TailChain
<1> QED
  BY <1>2, <1>3

LEMMA LastChainType ==
  ASSUME NEW f \in Seq(Seq(Pieces))
  PROVE  LastChain(f) \in Chains
BY TailChainType DEF LastChain

LEMMA PutType ==
  ASSUME NEW f \in Seq(Seq(Pieces)), NEW sp \in BOOLEAN, NEW pieces \in Seq(Pieces),
         NEW newline \in BOOLEAN
  PROVE  Put(f, sp, pieces, newline) \in Seq(Seq(Pieces))
<1> DEFINE o == IF sp THEN Append(Opened(f), <<>>) ELSE Opened(f)
<1>1. o \in Seq(Seq(Pieces)) /\ Len(o) \in 1..Len(o)
  BY DEF Opened
<1> HIDE DEF o
<1>2. o[Len(o)] \o pieces \in Seq(Pieces)
  BY <1>1
<1>3. [o EXCEPT ![Len(o)] = @ \o pieces] \in Seq(Seq(Pieces))
  BY <1>1, <1>2
<1> QED
  BY <1>3 DEF Put, o

LEMMA LandingsType ==
  ASSUME NEW f \in Seq(Seq(Pieces)), NEW sp \in BOOLEAN, NEW row \in Pieces
  PROVE  Landings(f, sp, row) \subseteq Seq(Seq(Pieces))
<1>1. <<>> \in Seq(Pieces) /\ <<Scrap>> \in Seq(Pieces) /\ <<row>> \in Seq(Pieces)
  BY ScrapIsPiece
<1> QED
  BY <1>1, PutType DEF Landings

\* A counter that moves on leaves the counters in their type.
LEMMA CountersStep ==
  ASSUME NEW s \in Counters, NEW k \in Nat
  PROVE  /\ [s EXCEPT !.calls = k] \in Counters
         /\ [s EXCEPT !.mishaps = k] \in Counters
         /\ [s EXCEPT !.unlocked = k] \in Counters
         /\ [s EXCEPT !.foreign = k] \in Counters
BY DEF Counters

\* The steps there are.  append and declare_break start a call each.
LEMMA Steps ==
  [Next]_vars =>
    \/ \E w \in Writers :
         \/ \E b \in Bodies : Call(w, b)
         \/ Acquire(w) \/ Deadline(w) \/ FallThrough(w)
         \/ ReadTail(w) \/ Probe(w) \/ Store(w) \/ StoreFails(w)
         \/ Release(w) \/ Raise(w) \/ Crash(w) \/ Restart(w)
    \/ \E p \in Foreign : ForeignAppend(p)
    \/ UNCHANGED vars
<1>1. ASSUME NEW w \in Writers, NEW b \in Content, AppendRecord(w, b)
      PROVE  \E c \in Bodies : Call(w, c)
  BY <1>1 DEF AppendRecord, Bodies
<1>2. ASSUME NEW w \in Writers, NEW i \in 1..Len(file),
             NEW r \in {Genesis, TailChain(file, i-1)}, DeclareBreak(w, i, r)
      PROVE  \E c \in Bodies : Call(w, c)
  <2> DEFINE d == Declaration(i, file[i], r)
  <2>1. d \in Bodies /\ Call(w, d)
    BY <1>2 DEF DeclareBreak, Bodies
  <2> HIDE DEF d
  <2> QED
    BY <2>1
<1> QED
  BY <1>1, <1>2 DEF Next, Writer, Attempt, Inside

\* Every step of every process keeps every variable in its type.
LEMMA TypeStep == TypeOK /\ [Next]_vars => TypeOK'
<1> SUFFICES ASSUME TypeOK, [Next]_vars PROVE TypeOK'
  OBVIOUS
<1> USE DEF TypeOK, Goto, Unlock, Labels, Section
<1>0. /\ spent.calls + 1 \in Nat /\ spent.mishaps + 1 \in Nat
      /\ spent.foreign + 1 \in Nat /\ spent.unlocked + 1 \in Nat
      /\ spent \in Counters
  BY DEF Counters
<1>2. Mishap => spent' \in Counters
  <2> SUFFICES ASSUME Mishap PROVE spent' \in Counters
    OBVIOUS
  <2>1. spent' = [spent EXCEPT !.mishaps = spent.mishaps + 1]
    BY DEF Mishap
  <2> QED
    BY <1>0, <2>1, CountersStep
<1>1. \A w \in Writers : NewRow(w) \in Pieces
  BY RowIsPiece DEF NewRow
<1>3. ASSUME NEW w \in Writers, NEW b \in Bodies, Call(w, b) PROVE TypeOK'
  BY <1>0, <1>3, CountersStep DEF Call
<1>4. ASSUME NEW w \in Writers, Acquire(w) PROVE TypeOK'
  BY <1>4 DEF Acquire
<1>5. ASSUME NEW w \in Writers, Deadline(w) PROVE TypeOK'
  BY <1>5 DEF Deadline
<1>6. ASSUME NEW w \in Writers, FallThrough(w) PROVE TypeOK'
  BY <1>0, <1>6, CountersStep DEF FallThrough
<1>7. ASSUME NEW w \in Writers, ReadTail(w) PROVE TypeOK'
  BY <1>7, LastChainType DEF ReadTail
<1>8. ASSUME NEW w \in Writers, Probe(w) PROVE TypeOK'
  BY <1>8 DEF Probe, EndsInNewline
<1>9. ASSUME NEW w \in Writers, Store(w) PROVE TypeOK'
  <2>1. <<NewRow(w)>> \in Seq(Pieces)
    BY <1>1
  <2>2. file' \in Seq(Seq(Pieces))
    BY <1>9, <2>1, PutType DEF Store
  <2> QED
    BY <1>9, <2>2 DEF Store
<1>10. ASSUME NEW w \in Writers, StoreFails(w) PROVE TypeOK'
  <2>1. file' \in Seq(Seq(Pieces))
    BY <1>1, <1>10, LandingsType DEF StoreFails
  <2> QED
    BY <1>10, <1>2, <2>1 DEF StoreFails
<1>11. ASSUME NEW w \in Writers, Release(w) PROVE TypeOK'
  BY <1>1, <1>11 DEF Release
<1>12. ASSUME NEW w \in Writers, Raise(w) PROVE TypeOK'
  BY <1>12 DEF Raise
<1>13. ASSUME NEW w \in Writers, Crash(w) PROVE TypeOK'
  <2>1. file' \in Seq(Seq(Pieces))
    BY <1>1, <1>13, LandingsType DEF Crash
  <2> QED
    BY <1>13, <1>2, <2>1 DEF Crash
<1>14. ASSUME NEW w \in Writers, Restart(w) PROVE TypeOK'
  BY <1>14 DEF Restart
<1>15. ASSUME NEW p \in Foreign, ForeignAppend(p) PROVE TypeOK'
  <2>1. <<p>> \in Seq(Pieces)
    BY ForeignArePieces
  <2>0. spent' \in Counters
    <3> DEFINE m == [spent EXCEPT !.mishaps = spent.mishaps + 1]
    <3>1. m \in Counters
      BY <1>0, CountersStep
    <3>2. spent' = [m EXCEPT !.foreign = spent.foreign + 1]
      BY <1>15 DEF ForeignAppend
    <3> QED
      BY <1>0, <3>1, <3>2, CountersStep
  <2>2. file' \in Seq(Seq(Pieces))
    BY <1>15, <2>1, PutType DEF ForeignAppend
  <2> QED
    BY <1>15, <2>0, <2>2 DEF ForeignAppend
<1>16. CASE UNCHANGED vars
  BY <1>16 DEF vars
<1> QED
  BY <1>3, <1>4, <1>5, <1>6, <1>7, <1>8, <1>9, <1>10, <1>11, <1>12, <1>13,
     <1>14, <1>15, <1>16, Steps

\* The type invariant holds in every state the processes reach.
THEOREM TypeCorrect == Spec => []TypeOK
<1>1. Init => TypeOK
  BY DEF Init, TypeOK, Labels, Chains, Genesis, Counters
<1> QED
  BY <1>1, TypeStep, PTL DEF Spec

(***************************************************************************)
(* The lock.                                                               *)
(***************************************************************************)
\* No step lets a second writer into the section while every entry was locked.
LEMMA SerializedStep == TypeOK /\ Serialized /\ [Next]_vars => Serialized'
<1> SUFFICES ASSUME TypeOK, Serialized, [Next]_vars, spent'.unlocked = 0,
                    NEW v \in Writers, pc'[v] \in Section
             PROVE  lock' = v
  BY DEF Serialized
<1> USE DEF TypeOK, Goto, Unlock, Mishap, Counters
<1> DEFINE Kept == spent.unlocked = 0 /\ (pc[v] \in Section => lock = v)
<1>1. spent.unlocked = 0 => Kept
  BY DEF Serialized
<1>2. ASSUME NEW w \in Writers, NEW b \in Bodies, Call(w, b) PROVE lock' = v
  BY <1>1, <1>2 DEF Call, Section
<1>3. ASSUME NEW w \in Writers, Acquire(w) PROVE lock' = v
  BY <1>1, <1>3, WritersAssumption DEF Acquire
<1>4. ASSUME NEW w \in Writers, Deadline(w) PROVE lock' = v
  BY <1>1, <1>4 DEF Deadline
<1>5. ASSUME NEW w \in Writers, FallThrough(w) PROVE lock' = v
  BY <1>5 DEF FallThrough
<1>6. ASSUME NEW w \in Writers, ReadTail(w) PROVE lock' = v
  BY <1>1, <1>6 DEF ReadTail, Section
<1>7. ASSUME NEW w \in Writers, Probe(w) PROVE lock' = v
  BY <1>1, <1>7 DEF Probe, Section
<1>8. ASSUME NEW w \in Writers, Store(w) PROVE lock' = v
  BY <1>1, <1>8 DEF Store, Section
<1>9. ASSUME NEW w \in Writers, StoreFails(w) PROVE lock' = v
  BY <1>1, <1>9 DEF StoreFails, Section
<1>10. ASSUME NEW w \in Writers, Release(w) PROVE lock' = v
  BY <1>1, <1>10 DEF Release, Section
<1>11. ASSUME NEW w \in Writers, Raise(w) PROVE lock' = v
  BY <1>1, <1>11 DEF Raise, Section
<1>12. ASSUME NEW w \in Writers, Crash(w) PROVE lock' = v
  BY <1>1, <1>12 DEF Crash, Section
<1>13. ASSUME NEW w \in Writers, Restart(w) PROVE lock' = v
  BY <1>1, <1>13 DEF Restart, Section
<1>14. ASSUME NEW p \in Foreign, ForeignAppend(p) PROVE lock' = v
  BY <1>1, <1>14 DEF ForeignAppend
<1>15. CASE UNCHANGED vars
  BY <1>1, <1>15 DEF vars
<1> QED
  BY <1>2, <1>3, <1>4, <1>5, <1>6, <1>7, <1>8, <1>9, <1>10, <1>11, <1>12, <1>13,
     <1>14, <1>15, Steps

\* Appends serialize across processes, crashes and failed writes included,
\* until a writer's deadline makes it go in unlocked.
THEOREM LockSerializes == Spec => []Serialized
<1>1. Init => Serialized
  BY DEF Init, Serialized, Section
<1> QED
  BY <1>1, TypeCorrect, SerializedStep, PTL DEF Spec

(***************************************************************************)
(* What was read is still so, and the chain does not fork.                 *)
(***************************************************************************)
\* No step of another writer changes what a writer inside the section has read.
LEMMA FreshStep == TypeOK /\ Serialized /\ Fresh /\ [Next]_vars => Fresh'
<1> SUFFICES ASSUME TypeOK, Serialized, Fresh, [Next]_vars,
                    spent'.unlocked = 0, spent'.foreign = 0, NEW v \in Writers
             PROVE  /\ pc'[v] \in {"probe", "write"} => prev'[v] = LastChain(file')
                    /\ pc'[v] = "write" => sep'[v] = ~EndsInNewline(file')
  BY DEF Fresh
<1> USE DEF TypeOK, Goto, Mishap, Counters
<1> DEFINE Known == /\ pc[v] \in {"probe", "write"} => prev[v] = LastChain(file)
                    /\ pc[v] = "write" => sep[v] = ~EndsInNewline(file)
           Goal  == /\ pc'[v] \in {"probe", "write"} => prev'[v] = LastChain(file')
                    /\ pc'[v] = "write" => sep'[v] = ~EndsInNewline(file')
<1>1. (spent.unlocked = 0 /\ spent.foreign = 0) => Known
  BY DEF Fresh
\* A writer that is about to write is alone.
<1>2. ASSUME spent.unlocked = 0, NEW w \in Writers, pc[w] = "write", v # w
      PROVE  pc[v] \notin {"probe", "write"}
  BY <1>2 DEF Serialized, Section
<1>3. ASSUME NEW w \in Writers, NEW b \in Bodies, Call(w, b) PROVE Goal
  BY <1>1, <1>3 DEF Call
<1>4. ASSUME NEW w \in Writers, Acquire(w) PROVE Goal
  BY <1>1, <1>4 DEF Acquire
<1>5. ASSUME NEW w \in Writers, Deadline(w) PROVE Goal
  BY <1>1, <1>5 DEF Deadline
<1>6. ASSUME NEW w \in Writers, FallThrough(w) PROVE Goal
  BY <1>6 DEF FallThrough
<1>7. ASSUME NEW w \in Writers, ReadTail(w) PROVE Goal
  BY <1>1, <1>7 DEF ReadTail
<1>8. ASSUME NEW w \in Writers, Probe(w) PROVE Goal
  BY <1>1, <1>8 DEF Probe
<1>9. ASSUME NEW w \in Writers, Store(w) PROVE Goal
  <2>1. pc'[v] \notin {"probe", "write"}
    BY <1>2, <1>9 DEF Store
  <2> QED
    BY <2>1
<1>10. ASSUME NEW w \in Writers, StoreFails(w) PROVE Goal
  <2>1. pc'[v] \notin {"probe", "write"}
    BY <1>2, <1>10 DEF StoreFails
  <2> QED
    BY <2>1
<1>11. ASSUME NEW w \in Writers, Release(w) PROVE Goal
  BY <1>1, <1>11 DEF Release
<1>12. ASSUME NEW w \in Writers, Raise(w) PROVE Goal
  BY <1>1, <1>12 DEF Raise
<1>13. ASSUME NEW w \in Writers, Crash(w) PROVE Goal
  <2>1. CASE pc[w] = "write"
    <3>1. pc'[v] \notin {"probe", "write"}
      BY <1>2, <1>13, <2>1 DEF Crash
    <3> QED
      BY <3>1
  <2>2. CASE pc[w] # "write"
    BY <1>1, <1>13, <2>2 DEF Crash
  <2> QED
    BY <2>1, <2>2
<1>14. ASSUME NEW w \in Writers, Restart(w) PROVE Goal
  BY <1>1, <1>14 DEF Restart
<1>15. ASSUME NEW p \in Foreign, ForeignAppend(p) PROVE Goal
  BY <1>15 DEF ForeignAppend
<1>16. CASE UNCHANGED vars
  BY <1>1, <1>16 DEF vars
<1> QED
  BY <1>3, <1>4, <1>5, <1>6, <1>7, <1>8, <1>9, <1>10, <1>11, <1>12, <1>13,
     <1>14, <1>15, <1>16, Steps

\* A writer about to write holds the next row and the separator the tail needs.
LEMMA WriterIsReady ==
  ASSUME TypeOK, Fresh, spent.unlocked = 0, spent.foreign = 0,
         NEW w \in Writers, pc[w] = "write"
  PROVE  /\ NewRow(w) = Row(body[w], LastChain(file))
         /\ sep[w] = ~EndsInNewline(file)
         /\ NewRow(w) \in Pieces
BY RowIsPiece DEF NewRow, Fresh, TypeOK

\* A whole write links its row to the last one.
LEMMA StoreExtends ==
  ASSUME TypeOK, Fresh, spent.unlocked = 0, spent.foreign = 0, NEW w \in Writers, Store(w)
  PROVE  /\ LastChain(file') = Append(LastChain(file), body[w])
         /\ Linked(file) => Linked(file')
<1>1. /\ NewRow(w) = Row(body[w], LastChain(file))
      /\ sep[w] = ~EndsInNewline(file)
      /\ NewRow(w) \in Pieces
  BY WriterIsReady DEF Store
<1>2. file' = Put(file, ~EndsInNewline(file), <<Row(body[w], LastChain(file))>>, TRUE)
  BY <1>1 DEF Store
<1>3. /\ LastChain(file') = Hash(LastChain(file), body[w])
      /\ Linked(file) => Linked(file')
  <2>1. file \in Seq(Seq(Pieces)) /\ Row(body[w], LastChain(file)) \in Pieces
    BY <1>1 DEF TypeOK
  <2>2. PICK closes \in BOOLEAN : closes = TRUE
    OBVIOUS
  <2>3. file' = Put(file, ~EndsInNewline(file), <<Row(body[w], LastChain(file))>>, closes)
    BY <1>2, <2>2
  <2> QED
    BY <2>1, <2>3, PutExtends, ScrapIsPiece
<1> QED
  BY <1>3 DEF Hash

\* So does a torn one, if it writes a row at all.
LEMMA TornStoreExtends ==
  ASSUME TypeOK, Fresh, spent.unlocked = 0, spent.foreign = 0, NEW w \in Writers,
         pc[w] = "write", file' \in Landings(file, sep[w], NewRow(w))
  PROVE  /\ LastChain(file') \in {LastChain(file), Append(LastChain(file), body[w])}
         /\ Linked(file) => Linked(file')
<1>1. /\ NewRow(w) = Row(body[w], LastChain(file))
      /\ sep[w] = ~EndsInNewline(file)
      /\ NewRow(w) \in Pieces
  BY WriterIsReady
<1>2. file' \in Landings(file, ~EndsInNewline(file), Row(body[w], LastChain(file)))
  BY <1>1
<1>3. /\ LastChain(file') \in {LastChain(file), Hash(LastChain(file), body[w])}
      /\ Linked(file) => Linked(file')
  BY <1>1, <1>2, LandingsExtend, ScrapIsPiece DEF TypeOK
<1> QED
  BY <1>3 DEF Hash

\* No step forks the chain.
LEMMA NoForkStep == TypeOK /\ Fresh /\ NoFork /\ [Next]_vars => NoFork'
<1> SUFFICES ASSUME TypeOK, Fresh, NoFork, [Next]_vars,
                    spent'.unlocked = 0, spent'.foreign = 0
             PROVE  Linked(file')
  BY DEF NoFork
<1>1. (spent.unlocked = 0 /\ spent.foreign = 0) => Linked(file)
  BY DEF NoFork
<1>2. CASE UNCHANGED <<file, spent>>
  BY <1>1, <1>2
<1>3. ASSUME UNCHANGED file, spent'.unlocked = spent.unlocked, spent'.foreign = spent.foreign
      PROVE  Linked(file')
  BY <1>1, <1>3
<1>4. ASSUME NEW w \in Writers, NEW b \in Bodies, Call(w, b) PROVE Linked(file')
  BY <1>3, <1>4 DEF Call, TypeOK, Counters
<1>5. ASSUME NEW w \in Writers, FallThrough(w) PROVE Linked(file')
  BY <1>5 DEF FallThrough, TypeOK, Counters
<1>6. ASSUME NEW w \in Writers, Store(w) PROVE Linked(file')
  BY <1>1, <1>6, StoreExtends DEF Store
<1>7. ASSUME NEW w \in Writers, StoreFails(w) PROVE Linked(file')
  BY <1>1, <1>7, TornStoreExtends DEF StoreFails, Mishap, TypeOK, Counters
<1>8. ASSUME NEW w \in Writers, Crash(w) PROVE Linked(file')
  <2>1. spent.unlocked = 0 /\ spent.foreign = 0
    BY <1>8 DEF Crash, Mishap, TypeOK, Counters
  <2>2. CASE pc[w] = "write"
    BY <1>1, <1>8, <2>1, <2>2, TornStoreExtends DEF Crash
  <2>3. CASE pc[w] # "write"
    BY <1>1, <1>8, <2>1, <2>3 DEF Crash
  <2> QED
    BY <2>2, <2>3
<1>9. ASSUME NEW p \in Foreign, ForeignAppend(p) PROVE Linked(file')
  BY <1>9 DEF ForeignAppend, TypeOK, Counters
<1> QED
  BY <1>2, <1>4, <1>5, <1>6, <1>7, <1>8, <1>9, Steps
     DEF Acquire, Deadline, ReadTail, Probe, Release, Raise, Restart, vars

\* What a writer read under the lock is still so when it writes.
THEOREM ReadsStayFresh == Spec => []Fresh
<1>1. Init => Fresh
  BY DEF Init, Fresh
<1> QED
  BY <1>1, TypeCorrect, LockSerializes, FreshStep, PTL DEF Spec

\* Concurrent writers serialize instead of forking the chain: until a writer
\* goes in unlocked or another program writes the file, every row chains from
\* the row before it, across torn writes, crashes and restarts.
THEOREM ChainNeverForks == Spec => []NoFork
<1>1. Init => NoFork
  BY DEF Init, NoFork, Linked
<1> QED
  BY <1>1, TypeCorrect, ReadsStayFresh, NoForkStep, PTL DEF Spec

(***************************************************************************)
(* Ledger implements AppendLog, when every writer waits for the lock and   *)
(* nothing else writes the file.                                           *)
(***************************************************************************)
\* Then no writer is ever late, so none goes in unlocked.
Undisturbed == /\ spent.unlocked = 0 /\ spent.foreign = 0
               /\ \A w \in Writers : ~late[w]

LEMMA UndisturbedStep ==
  ASSUME Patient = Writers, Foreign = {}, TypeOK, Undisturbed, [Next]_vars
  PROVE  Undisturbed'
<1> USE DEF TypeOK, Counters, Undisturbed
<1>1. ASSUME NEW w \in Writers, NEW b \in Bodies, Call(w, b) PROVE Undisturbed'
  BY <1>1 DEF Call
<1>2. ASSUME NEW w \in Writers, StoreFails(w) \/ Crash(w) PROVE Undisturbed'
  BY <1>2 DEF StoreFails, Crash, Mishap
<1> QED
  BY <1>1, <1>2, Steps
     DEF Acquire, Deadline, FallThrough, ReadTail, Probe, Store, Release, Raise, Restart, vars

\* The phase the abstraction sees of each call.
Phases == [v \in Writers |-> PhaseOf(pc[v])]

\* A step of one writer moves that writer's phase and no other.
LEMMA PhaseMoves ==
  ASSUME TypeOK, NEW w \in Writers, NEW label, Goto(w, label)
  PROVE  Phases' = [Phases EXCEPT ![w] = PhaseOf(label)]
BY DEF TypeOK, Goto, Phases

LEMMA Simulation ==
  ASSUME Patient = Writers, Foreign = {}, TypeOK, Fresh, Undisturbed, [Next]_vars
  PROVE  [Abstract!ANext]_(Abstract!avars)
<1>0. \A v \in Writers : Phases[v] = PhaseOf(pc[v])
  BY DEF Phases
<1> USE DEF PhaseOf
\* A step that a caller cannot see: its phase, the bodies and the log stay.
<1>1. ASSUME NEW w \in Writers, NEW label, Goto(w, label),
             PhaseOf(label) = PhaseOf(pc[w]), UNCHANGED <<file, body>>
      PROVE  UNCHANGED Abstract!avars
  <2>1. Phases' = [Phases EXCEPT ![w] = Phases[w]]
    BY <1>0, <1>1, PhaseMoves
  <2>2. Phases' = Phases
    BY <2>1 DEF Phases
  <2> QED
    BY <1>1, <2>2 DEF Abstract!avars, Phases
<1>2. ASSUME NEW w \in Writers, NEW b \in Bodies, Call(w, b) PROVE Abstract!ANext
  <2>1. Phases' = [Phases EXCEPT ![w] = "pending"] /\ Phases[w] = "idle"
    BY <1>0, <1>2, PhaseMoves DEF Call
  <2>2. Abstract!Start(w, b)
    BY <1>2, <2>1 DEF Abstract!Start, Call, Phases
  <2> QED
    BY <2>2 DEF Abstract!ANext
<1>3. ASSUME NEW w \in Writers, Acquire(w) PROVE UNCHANGED Abstract!avars
  BY <1>1, <1>3 DEF Acquire
<1>4. ASSUME NEW w \in Writers PROVE ~Deadline(w) /\ ~FallThrough(w)
  BY DEF Deadline, FallThrough, Undisturbed
<1>5. ASSUME NEW w \in Writers, ReadTail(w) PROVE UNCHANGED Abstract!avars
  BY <1>1, <1>5 DEF ReadTail
<1>6. ASSUME NEW w \in Writers, Probe(w) PROVE UNCHANGED Abstract!avars
  BY <1>1, <1>6 DEF Probe
<1>7. ASSUME NEW w \in Writers, Store(w) PROVE Abstract!ANext
  <2>1. Phases' = [Phases EXCEPT ![w] = "committed"] /\ Phases[w] = "pending"
    BY <1>0, <1>7, PhaseMoves DEF Store
  <2>2. LastChain(file') = Append(LastChain(file), body[w])
    BY <1>7, StoreExtends DEF Undisturbed
  <2>3. Abstract!Commit(w)
    BY <1>7, <2>1, <2>2 DEF Abstract!Commit, Store, Phases
  <2> QED
    BY <2>3 DEF Abstract!ANext
\* A call that ends without its chain value: its row is there or it is not.
<1>8. ASSUME NEW w \in Writers, NEW label, Goto(w, label), PhaseOf(label) = "idle",
             PhaseOf(pc[w]) = "pending", UNCHANGED body,
             LastChain(file') \in {LastChain(file), Append(LastChain(file), body[w])}
      PROVE  Abstract!ANext
  <2>1. Phases' = [Phases EXCEPT ![w] = "idle"] /\ Phases[w] = "pending"
    BY <1>0, <1>8, PhaseMoves
  <2>2. Abstract!Fail(w)
    BY <1>8, <2>1 DEF Abstract!Fail, Phases
  <2> QED
    BY <2>2 DEF Abstract!ANext
<1>9. ASSUME NEW w \in Writers, StoreFails(w) PROVE Abstract!ANext
  <2>1. LastChain(file') \in {LastChain(file), Append(LastChain(file), body[w])}
    BY <1>9, TornStoreExtends DEF StoreFails, Undisturbed
  <2> QED
    BY <1>8, <1>9, <2>1 DEF StoreFails
\* A call that returned, or whose process dies before it can.
<1>10. ASSUME NEW w \in Writers, NEW label, Goto(w, label), PhaseOf(label) = "idle",
              pc[w] = "release", UNCHANGED <<file, body>>
       PROVE  Abstract!ANext
  <2>1. Phases' = [Phases EXCEPT ![w] = "idle"] /\ Phases[w] = "committed"
    BY <1>0, <1>10, PhaseMoves
  <2>2. Abstract!Return(w)
    BY <1>10, <2>1 DEF Abstract!Return, Phases
  <2> QED
    BY <2>2 DEF Abstract!ANext
<1>11. ASSUME NEW w \in Writers, Release(w) PROVE Abstract!ANext
  BY <1>10, <1>11 DEF Release
<1>12. ASSUME NEW w \in Writers, Raise(w) PROVE UNCHANGED Abstract!avars
  BY <1>1, <1>12 DEF Raise
<1>13. ASSUME NEW w \in Writers, Crash(w)
       PROVE  Abstract!ANext \/ UNCHANGED Abstract!avars
  <2>0. Goto(w, "dead") /\ UNCHANGED body
    BY <1>13 DEF Crash
  <2>1. CASE pc[w] = "write"
    <3>1. LastChain(file') \in {LastChain(file), Append(LastChain(file), body[w])}
      BY <1>13, <2>1, TornStoreExtends DEF Crash, Undisturbed
    <3> QED
      BY <1>8, <2>0, <2>1, <3>1
  <2>2. CASE pc[w] \in {"acquire", "tail", "probe"}
    <3>1. file' = file
      BY <1>13, <2>2 DEF Crash
    <3> QED
      BY <1>8, <2>0, <2>2, <3>1
  <2>3. CASE pc[w] = "release"
    <3>1. file' = file
      BY <1>13, <2>3 DEF Crash
    <3> QED
      BY <1>10, <2>0, <2>3, <3>1
  <2>4. CASE pc[w] = "raise"
    <3>1. file' = file
      BY <1>13, <2>4 DEF Crash
    <3> QED
      BY <1>1, <2>0, <2>4, <3>1
  <2> QED
    BY <1>13, <2>1, <2>2, <2>3, <2>4 DEF Crash, TypeOK, Labels, Section
<1>14. ASSUME NEW w \in Writers, Restart(w) PROVE UNCHANGED Abstract!avars
  BY <1>1, <1>14 DEF Restart
<1>15. CASE UNCHANGED vars
  BY <1>15 DEF vars, Abstract!avars
<1> QED
  BY <1>2, <1>3, <1>4, <1>5, <1>6, <1>7, <1>9, <1>11, <1>12, <1>13, <1>14, <1>15, Steps

\* Ledger.append is atomic: seen from the callers, each call adds its record to
\* one log in a single step between its start and its return, and a call that
\* fails or dies adds it at most once.
THEOREM AppendsAreAtomic ==
  ASSUME Patient = Writers, Foreign = {} PROVE Spec => AppendIsAtomic
<1>1. Init => Abstract!AInit
  BY DEF Init, Abstract!AInit, LastChain, TailChain, Genesis, PhaseOf
<1>2. Init => Undisturbed
  BY DEF Init, Undisturbed
<1>3. TypeOK /\ Undisturbed /\ [Next]_vars => Undisturbed'
  BY UndisturbedStep
<1>4. TypeOK /\ Fresh /\ Undisturbed /\ [Next]_vars => [Abstract!ANext]_(Abstract!avars)
  BY Simulation
<1> QED
  BY <1>1, <1>2, <1>3, <1>4, TypeCorrect, ReadsStayFresh, PTL
     DEF Spec, AppendIsAtomic, Abstract!ASpec


(***************************************************************************)
(* Lines of a file.                                                        *)
(***************************************************************************)
\* A file that ends in a newline has an empty open line at its end.
LEMMA NewlineAdds ==
  ASSUME NEW p \in Seq(Seq(Pieces))
  PROVE  /\ Len(Append(p, <<>>)) = Len(p) + 1 /\ Len(p) \in Nat
         /\ \A k \in 1..Len(p) : Append(p, <<>>)[k] = p[k]
         /\ Append(p, <<>>)[Len(Append(p, <<>>))] = <<>>
<1>0. <<>> \in Seq(Pieces)
  OBVIOUS
<1>1. PICK line \in Seq(Pieces) : line = <<>>
  BY <1>0, Zenon
<1>2. /\ Len(Append(p, line)) = Len(p) + 1 /\ Len(p) \in Nat
      /\ \A k \in 1..Len(p) : Append(p, line)[k] = p[k]
      /\ Append(p, line)[Len(p) + 1] = line
  OBVIOUS
<1> QED
  BY <1>1, <1>2

\* All lines but the open last one are in g as they are in f.
Keeps(f, g) == Len(f) <= Len(g) /\ \A k \in 1..Len(f)-1 : g[k] = f[k]

\* Whatever is written at the end of a file changes no line that was closed.
LEMMA PutKeeps ==
  ASSUME NEW f \in Seq(Seq(Pieces)), NEW sp \in BOOLEAN, NEW pieces \in Seq(Pieces),
         NEW newline \in BOOLEAN
  PROVE  Keeps(f, Put(f, sp, pieces, newline))
<1> DEFINE o == IF sp THEN Append(Opened(f), <<>>) ELSE Opened(f)
           p == [o EXCEPT ![Len(o)] = @ \o pieces]
<1>1. /\ o \in Seq(Seq(Pieces)) /\ Len(o) >= 1 /\ Len(o) >= Len(f)
      /\ \A k \in 1..Len(f)-1 : o[k] = f[k]
  BY DEF Opened
<1> HIDE DEF o
<1>2. o[Len(o)] \o pieces \in Seq(Pieces)
  BY <1>1
<1>3. p \in Seq(Seq(Pieces)) /\ Len(p) = Len(o) /\ \A k \in 1..Len(f)-1 : p[k] = f[k]
  BY <1>1, <1>2
<1> HIDE DEF p
<1>4. Put(f, sp, pieces, newline) = IF newline THEN Append(p, <<>>) ELSE p
  BY DEF Put, o, p
<1> QED
  BY <1>1, <1>3, <1>4 DEF Keeps

LEMMA LandingsKeep ==
  ASSUME NEW f \in Seq(Seq(Pieces)), NEW sp \in BOOLEAN, NEW row \in Pieces,
         NEW g \in Landings(f, sp, row)
  PROVE  Keeps(f, g)
<1>1. <<>> \in Seq(Pieces) /\ <<Scrap>> \in Seq(Pieces) /\ <<row>> \in Seq(Pieces)
  BY ScrapIsPiece
<1>2. Keeps(f, f)
  BY DEF Keeps
<1> QED
  BY <1>1, <1>2, PutKeeps DEF Landings

\* A row written whole on a line of its own is a closed line behind the others.
LEMMA PutPlaces ==
  ASSUME NEW f \in Seq(Seq(Pieces)), NEW sp \in BOOLEAN, sp \/ EndsInNewline(f),
         NEW piece \in Pieces
  PROVE  \E i \in 1..Len(Put(f, sp, <<piece>>, TRUE))-1 :
            i >= Len(f) /\ Put(f, sp, <<piece>>, TRUE)[i] = <<piece>>
<1> DEFINE o == IF sp THEN Append(Opened(f), <<>>) ELSE Opened(f)
           p == [o EXCEPT ![Len(o)] = @ \o <<piece>>]
           g == Append(p, <<>>)
<1>1. /\ o \in Seq(Seq(Pieces)) /\ Len(o) >= 1 /\ Len(o) >= Len(f)
      /\ o[Len(o)] = <<>>
  BY DEF Opened, EndsInNewline
<1>2. Put(f, sp, <<piece>>, TRUE) = g
  BY DEF Put
<1> HIDE DEF o
<1>3. o[Len(o)] \o <<piece>> = <<piece>> /\ <<piece>> \in Seq(Pieces)
  BY <1>1
<1>4. p \in Seq(Seq(Pieces)) /\ Len(p) = Len(o) /\ p[Len(o)] = <<piece>>
  BY <1>1, <1>3
<1> HIDE DEF p
<1>5. /\ Len(g) = Len(p) + 1 /\ Len(p) \in Nat
      /\ \A k \in 1..Len(p) : g[k] = p[k]
  BY <1>4, NewlineAdds
<1> HIDE DEF g
<1>6. Len(p) \in 1..Len(g)-1
  BY <1>1, <1>4, <1>5
<1>7. Len(p) >= Len(f) /\ g[Len(p)] = <<piece>>
  BY <1>1, <1>4, <1>5, <1>6, SMTT(30)
<1> QED
  BY <1>2, <1>6, <1>7

\* A file that was written to with a newline ends in one.
LEMMA PutEnds ==
  ASSUME NEW f \in Seq(Seq(Pieces)), NEW piece \in Pieces
  PROVE  EndsInNewline(Put(f, FALSE, <<piece>>, TRUE))
<1> DEFINE p == [Opened(f) EXCEPT ![Len(Opened(f))] = @ \o <<piece>>]
<1>1. Opened(f) \in Seq(Seq(Pieces)) /\ Len(Opened(f)) >= 1
  BY DEF Opened
<1>2. Opened(f)[Len(Opened(f))] \o <<piece>> \in Seq(Pieces)
  BY <1>1
<1>3. p \in Seq(Seq(Pieces))
  BY <1>1, <1>2
<1> HIDE DEF p
<1> DEFINE g == Append(p, <<>>)
<1>4. Put(f, FALSE, <<piece>>, TRUE) = g
  BY DEF Put, p
<1>5. g[Len(g)] = <<>>
  BY <1>3, NewlineAdds
<1> HIDE DEF g
<1> QED
  BY <1>4, <1>5 DEF EndsInNewline

(***************************************************************************)
(* The invariant.                                                          *)
(***************************************************************************)
\* at places the returned rows, in order, on closed lines of f.
Placing(at, f) == /\ at \in [1..Len(returned) -> 1..Len(f)-1]
                  /\ \A n \in 1..Len(returned) : f[at[n]] = <<returned[n]>>
                  /\ \A m, n \in 1..Len(returned) : m < n => at[m] < at[n]

\* The row w is about to return is on a closed line behind them.
Behind(w, at, f) == \E i \in 1..Len(f)-1 : /\ f[i] = <<NewRow(w)>>
                                           /\ \A n \in 1..Len(returned) : at[n] < i

\* A payload begins on a line of its own.
Separate == \A w \in Writers : pc[w] = "write" => sep[w] \/ EndsInNewline(file)

Placed == \E at : /\ Placing(at, file)
                  /\ \A w \in Writers : pc[w] = "release" => Behind(w, at, file)

InPlace == spent.unlocked = 0 => Separate /\ Placed

\* Rows that are placed stay where they are when closed lines are kept.
LEMMA StaysPlaced ==
  ASSUME TypeOK, NEW g \in Seq(Seq(Pieces)), Keeps(file, g), NEW at, Placing(at, file)
  PROVE  /\ Placing(at, g)
         /\ \A w \in Writers : Behind(w, at, file) => Behind(w, at, g)
<1>1. /\ Len(file) \in Nat /\ Len(g) \in Nat /\ Len(file) <= Len(g)
      /\ \A k \in 1..Len(file)-1 : k \in 1..Len(g)-1 /\ g[k] = file[k]
  BY DEF TypeOK, Keeps
<1>2. Placing(at, g)
  BY <1>1 DEF Placing
<1>3. ASSUME NEW w \in Writers, Behind(w, at, file) PROVE Behind(w, at, g)
  BY <1>1, <1>3 DEF Behind
<1> QED
  BY <1>2, <1>3

\* A step in which the file keeps its closed lines, nothing returns, and no
\* writer comes to its release, its write or another row.
LEMMA KeepsInPlace ==
  ASSUME TypeOK, TypeOK', InPlace, Keeps(file, file'), returned' = returned,
         spent'.unlocked = 0 => spent.unlocked = 0,
         \A w \in Writers : pc'[w] = "release" => /\ pc[w] = "release"
                                                 /\ body'[w] = body[w] /\ prev'[w] = prev[w],
         spent'.unlocked = 0 => Separate'
  PROVE  InPlace'
<1> SUFFICES ASSUME spent'.unlocked = 0 PROVE Placed'
  BY DEF InPlace
<1>1. PICK at : /\ Placing(at, file)
                /\ \A w \in Writers : pc[w] = "release" => Behind(w, at, file)
  BY DEF InPlace, Placed
<1>2. file' \in Seq(Seq(Pieces))
  BY DEF TypeOK
<1>3. /\ Placing(at, file')
      /\ \A w \in Writers : Behind(w, at, file) => Behind(w, at, file')
  BY <1>1, <1>2, StaysPlaced
<1>4. \A w \in Writers : pc'[w] = "release" => Behind(w, at, file')
  BY <1>1, <1>3
<1>5. Placing(at, file)'
  BY <1>3 DEF Placing
<1>6. \A w \in Writers : pc'[w] = "release" => Behind(w, at, file)'
  BY <1>4 DEF Behind, NewRow
<1> QED
  BY <1>5, <1>6 DEF Placed

\* Who is about to write or to return is alone.
LEMMA Alone ==
  ASSUME Serialized, spent.unlocked = 0, NEW w \in Writers, pc[w] \in Section,
         NEW v \in Writers, v # w
  PROVE  pc[v] \notin Section
BY DEF Serialized

\* The row that is written goes behind the returned rows.
LEMMA StoreInPlace ==
  ASSUME TypeOK, TypeOK', Serialized, InPlace, NEW w \in Writers, Store(w)
  PROVE  InPlace'
<1> SUFFICES ASSUME spent'.unlocked = 0 PROVE Separate' /\ Placed'
  BY DEF InPlace
<1>1. /\ spent.unlocked = 0 /\ pc[w] = "write" /\ returned' = returned
      /\ pc' = [pc EXCEPT ![w] = "release"] /\ body' = body /\ prev' = prev
      /\ file' = Put(file, sep[w], <<NewRow(w)>>, TRUE)
  BY DEF Store, Goto
<1>2. \A v \in Writers : v # w => pc'[v] \notin Section
  BY <1>1, Alone DEF TypeOK, Section
<1>3. pc'[w] = "release"
  BY <1>1 DEF TypeOK
<1>4. Separate'
  BY <1>2, <1>3 DEF Separate, Section
<1>5. PICK at : Placing(at, file)
  BY <1>1 DEF InPlace, Placed
<1>6. /\ file \in Seq(Seq(Pieces)) /\ file' \in Seq(Seq(Pieces)) /\ sep[w] \in BOOLEAN
      /\ NewRow(w) \in Pieces /\ <<NewRow(w)>> \in Seq(Pieces)
  <2>1. NewRow(w) \in Pieces
    BY RowIsPiece DEF TypeOK, NewRow
  <2> QED
    BY <2>1 DEF TypeOK
<1>7. sep[w] \/ EndsInNewline(file)
  BY <1>1 DEF InPlace, Separate
<1>8. Keeps(file, file')
  BY <1>1, <1>6, PutKeeps
<1>9. Placing(at, file')
  BY <1>5, <1>6, <1>8, StaysPlaced
<1>10. PICK i \in 1..Len(file')-1 : i >= Len(file) /\ file'[i] = <<NewRow(w)>>
  BY <1>1, <1>6, <1>7, PutPlaces
<1>11. \A n \in 1..Len(returned) : at[n] < i
  <2>1. Len(file) \in Nat
    BY <1>6
  <2> QED
    BY <1>5, <1>10, <2>1 DEF Placing
<1>12. Behind(w, at, file)'
  BY <1>1, <1>10, <1>11 DEF Behind, NewRow
<1>13. Placing(at, file)'
  BY <1>1, <1>9 DEF Placing
<1>14. Placed'
  BY <1>2, <1>12, <1>13 DEF Placed, Section
<1> QED
  BY <1>4, <1>14

\* The row that is returned takes the place it was written to.
LEMMA ReleaseInPlace ==
  ASSUME TypeOK, TypeOK', Serialized, InPlace, NEW w \in Writers, Release(w)
  PROVE  InPlace'
<1> SUFFICES ASSUME spent'.unlocked = 0 PROVE Separate' /\ Placed'
  BY DEF InPlace
<1>1. /\ spent.unlocked = 0 /\ pc[w] = "release" /\ file' = file /\ sep' = sep
      /\ pc' = [pc EXCEPT ![w] = "idle"] /\ returned' = Append(returned, NewRow(w))
  BY DEF Release, Goto
<1>2. \A v \in Writers : pc'[v] \notin Section
  BY <1>1, Alone DEF TypeOK, Section
<1>3. Separate'
  BY <1>2 DEF Separate, Section
<1>4. PICK at : Placing(at, file) /\ Behind(w, at, file)
  BY <1>1 DEF InPlace, Placed
<1>5. PICK i \in 1..Len(file)-1 : /\ file[i] = <<NewRow(w)>>
                                  /\ \A n \in 1..Len(returned) : at[n] < i
  BY <1>4 DEF Behind
<1>6. /\ Len(returned) \in Nat /\ Len(returned') = Len(returned) + 1
      /\ \A n \in 1..Len(returned) : returned'[n] = returned[n]
      /\ returned'[Len(returned) + 1] = NewRow(w)
  BY <1>1, RowIsPiece DEF TypeOK, NewRow
<1> DEFINE k == Len(returned)
<1>7. PICK to : to = [n \in 1..k+1 |-> IF n \in 1..k THEN at[n] ELSE i]
  OBVIOUS
<1>8. \A n \in 1..k+1 : \/ n \in 1..k /\ to[n] = at[n]
                        \/ n = k + 1 /\ to[n] = i
  <2> SUFFICES ASSUME NEW n \in 1..k+1
               PROVE  (n \in 1..k /\ to[n] = at[n]) \/ (n = k + 1 /\ to[n] = i)
    OBVIOUS
  <2>1. k \in Nat
    BY <1>6
  <2>2. to[n] = IF n \in 1..k THEN at[n] ELSE i
    BY <1>7, Zenon
  <2>3. CASE n \in 1..k
    BY <2>2, <2>3, Zenon
  <2>4. CASE n \notin 1..k
    <3>1. n = k + 1
      BY <2>1, <2>4
    <3>2. to[n] = i
      BY <2>2, <2>4, Zenon
    <3> QED
      BY <3>1, <3>2
  <2> QED
    BY <2>3, <2>4
<1>9. \A n \in 1..k : at[n] \in 1..Len(file)-1 /\ at[n] < i
  BY <1>4, <1>5 DEF Placing
<1>10. to \in [1..k+1 -> 1..Len(file)-1]
  BY <1>7, <1>8, <1>9
<1>11. \A n \in 1..k+1 : file[to[n]] = <<returned'[n]>>
  BY <1>4, <1>5, <1>6, <1>8 DEF Placing
<1>12. ASSUME NEW m \in 1..k+1, NEW n \in 1..k+1, m < n PROVE to[m] < to[n]
  <2>1. m \in 1..k /\ to[m] = at[m]
    BY <1>6, <1>8, <1>12
  <2> QED
    BY <1>4, <1>8, <1>9, <1>12, <2>1 DEF Placing
<1>13. Placing(to, file)'
  BY <1>1, <1>6, <1>10, <1>11, <1>12 DEF Placing
<1>14. Placed'
  BY <1>2, <1>13 DEF Placed, Section
<1> QED
  BY <1>3, <1>14

\* Every step keeps the returned rows in place.
LEMMA InPlaceStep == TypeOK /\ TypeOK' /\ Serialized /\ InPlace /\ [Next]_vars => InPlace'
<1> SUFFICES ASSUME TypeOK, TypeOK', Serialized, InPlace, [Next]_vars PROVE InPlace'
  OBVIOUS
<1> USE DEF Goto
\* What there is to show of a step that leaves the file as it is, but for the
\* separator of a writer that comes to its write.
<1>0. Keeps(file, file)
  BY DEF Keeps, TypeOK
<1>1. ASSUME file' = file, returned' = returned, body' = body, prev' = prev,
             spent'.unlocked = 0 => spent.unlocked = 0,
             \A v \in Writers : pc'[v] = "release" => pc[v] = "release",
             \A v \in Writers : pc'[v] = "write" =>
                \/ pc[v] = "write" /\ sep'[v] = sep[v]
                \/ sep'[v] = ~EndsInNewline(file)
      PROVE  InPlace'
  <2>1. spent'.unlocked = 0 => Separate'
    BY <1>1 DEF InPlace, Separate
  <2> QED
    BY <1>0, <1>1, <2>1, KeepsInPlace
<1>2. ASSUME NEW w \in Writers, NEW b \in Bodies, Call(w, b) PROVE InPlace'
  <2>1. /\ file' = file /\ returned' = returned /\ prev' = prev /\ sep' = sep
        /\ spent'.unlocked = spent.unlocked
        /\ \A v \in Writers : pc'[v] \in {"release", "write"} =>
                             pc'[v] = pc[v] /\ body'[v] = body[v]
    BY <1>2 DEF Call, TypeOK, Counters
  <2>2. spent'.unlocked = 0 => Separate'
    BY <2>1 DEF InPlace, Separate
  <2> QED
    BY <1>0, <2>1, <2>2, KeepsInPlace
<1>3. ASSUME NEW w \in Writers, Acquire(w) PROVE InPlace'
  BY <1>1, <1>3 DEF Acquire, TypeOK
<1>4. ASSUME NEW w \in Writers, Deadline(w) PROVE InPlace'
  BY <1>1, <1>4 DEF Deadline, TypeOK
<1>5. ASSUME NEW w \in Writers, FallThrough(w) PROVE InPlace'
  BY <1>5 DEF FallThrough, TypeOK, Counters, InPlace
<1>6. ASSUME NEW w \in Writers, ReadTail(w) PROVE InPlace'
  <2>1. /\ file' = file /\ returned' = returned /\ body' = body /\ sep' = sep
        /\ spent'.unlocked = spent.unlocked
        /\ \A v \in Writers : pc'[v] \in {"release", "write"} =>
                             pc'[v] = pc[v] /\ prev'[v] = prev[v]
    BY <1>6 DEF ReadTail, TypeOK
  <2>2. spent'.unlocked = 0 => Separate'
    BY <2>1 DEF InPlace, Separate
  <2> QED
    BY <1>0, <2>1, <2>2, KeepsInPlace
<1>7. ASSUME NEW w \in Writers, Probe(w) PROVE InPlace'
  BY <1>1, <1>7 DEF Probe, TypeOK
<1>8. ASSUME NEW w \in Writers, Store(w) PROVE InPlace'
  BY <1>8, StoreInPlace
<1>9. ASSUME NEW w \in Writers, pc[w] = "write", pc'[w] \in {"raise", "dead"},
             file' \in Landings(file, sep[w], NewRow(w)), returned' = returned,
             body' = body, prev' = prev, spent'.unlocked = spent.unlocked,
             \A v \in Writers : v # w => pc'[v] = pc[v]
      PROVE  InPlace'
  <2>1. file \in Seq(Seq(Pieces)) /\ sep[w] \in BOOLEAN /\ NewRow(w) \in Pieces
    BY RowIsPiece DEF TypeOK, NewRow
  <2>2. Keeps(file, file')
    BY <1>9, <2>1, LandingsKeep
  <2>3. spent'.unlocked = 0 => \A v \in Writers : pc'[v] # "write"
    BY <1>9, Alone DEF Section
  <2>4. spent'.unlocked = 0 => Separate'
    BY <2>3 DEF Separate
  <2>5. \A v \in Writers : pc'[v] = "release" => pc[v] = "release"
    BY <1>9
  <2> QED
    BY <1>9, <2>2, <2>4, <2>5, KeepsInPlace
<1>10. ASSUME NEW w \in Writers, StoreFails(w) PROVE InPlace'
  <2>1. pc' = [pc EXCEPT ![w] = "raise"]
    BY <1>10 DEF StoreFails
  <2>2. spent'.unlocked = spent.unlocked
    BY <1>10 DEF StoreFails, Mishap, TypeOK, Counters
  <2> QED
    BY <1>9, <1>10, <2>1, <2>2 DEF StoreFails, TypeOK
<1>11. ASSUME NEW w \in Writers, Release(w) PROVE InPlace'
  BY <1>11, ReleaseInPlace
<1>12. ASSUME NEW w \in Writers, Raise(w) PROVE InPlace'
  BY <1>1, <1>12 DEF Raise, TypeOK
<1>13. ASSUME NEW w \in Writers, Crash(w) PROVE InPlace'
  <2>1. /\ returned' = returned /\ body' = body /\ prev' = prev /\ sep' = sep
        /\ pc' = [pc EXCEPT ![w] = "dead"]
    BY <1>13 DEF Crash
  <2>2. spent'.unlocked = spent.unlocked
    BY <1>13 DEF Crash, Mishap, TypeOK, Counters
  <2>3. CASE pc[w] = "write"
    BY <1>9, <1>13, <2>1, <2>2, <2>3 DEF Crash, Section, TypeOK
  <2>4. CASE pc[w] # "write"
    <3>1. file' = file
      BY <1>13, <2>4 DEF Crash
    <3> QED
      BY <1>1, <2>1, <2>2, <3>1 DEF TypeOK
  <2> QED
    BY <2>3, <2>4
<1>14. ASSUME NEW w \in Writers, Restart(w) PROVE InPlace'
  BY <1>1, <1>14 DEF Restart, TypeOK
<1>15. ASSUME NEW p \in Foreign, ForeignAppend(p) PROVE InPlace'
  <2>1. /\ file \in Seq(Seq(Pieces)) /\ <<p>> \in Seq(Pieces) /\ p \in Pieces
        /\ file' = Put(file, FALSE, <<p>>, TRUE)
    BY <1>15, ForeignArePieces DEF ForeignAppend, TypeOK
  <2>2. Keeps(file, file')
    BY <2>1, PutKeeps
  <2>3. EndsInNewline(file')
    BY <2>1, PutEnds
  <2>4. Separate'
    BY <2>3 DEF Separate, EndsInNewline
  <2>5. spent'.unlocked = spent.unlocked
    BY <1>15 DEF ForeignAppend, TypeOK, Counters
  <2> QED
    BY <1>15, <2>2, <2>4, <2>5, KeepsInPlace DEF ForeignAppend
<1>16. CASE UNCHANGED vars
  BY <1>1, <1>16 DEF vars
<1> QED
  BY <1>2, <1>3, <1>4, <1>5, <1>6, <1>7, <1>8, <1>10, <1>11, <1>12, <1>13,
     <1>14, <1>15, <1>16, Steps

\* Until a writer goes in without the lock, every row whose append returned is
\* in the file on a line of its own, in the order of the returns, through torn
\* writes, crashes, restarts and whatever other programs append.
THEOREM ReturnedStay == Spec => []ReturnedRowsAreKept
<1>1. Init => InPlace
  <2> SUFFICES ASSUME Init PROVE InPlace
    OBVIOUS
  <2> DEFINE at == [n \in 1..0 |-> 1]
  <2>1. Placing(at, file)
    <3>1. Len(returned) = 0
      BY DEF Init
    <3> QED
      BY <3>1 DEF Placing
  <2> QED
    BY <2>1 DEF Init, InPlace, Separate, Placed
<1>2. TypeOK /\ InPlace => ReturnedRowsAreKept
  <2> SUFFICES ASSUME TypeOK, InPlace, spent.unlocked = 0,
                      NEW at, Placing(at, file)
               PROVE  /\ at \in [1..Len(returned) -> 1..Len(file)]
                      /\ \A n \in 1..Len(returned) : file[at[n]] = <<returned[n]>>
                      /\ \A m, n \in 1..Len(returned) : m < n => at[m] < at[n]
    BY DEF InPlace, Placed, ReturnedRowsAreKept
  <2>1. Len(file) \in Nat
    BY DEF TypeOK
  <2> QED
    BY <2>1 DEF Placing
<1> QED
  BY <1>1, <1>2, TypeCorrect, LockSerializes, InPlaceStep, PTL DEF Spec

(***************************************************************************)
(* Every returned row has bytes of its own in the file, whoever went in    *)
(* without the lock and whatever the bytes ran into.                       *)
(***************************************************************************)
Place == Nat \X Nat

\* The row is the piece at place p of f.
Holds(f, p, row) == /\ p[1] \in 1..Len(f)
                    /\ p[2] \in 1..Len(f[p[1]])
                    /\ f[p[1]][p[2]] = row

\* at and own place the rows returned, and those about to be, apart.
Landing(at, own, f) ==
  /\ \A n \in 1..Len(returned) : Holds(f, at[n], returned[n])
  /\ \A w \in Writers : pc[w] = "release" => Holds(f, own[w], NewRow(w))
  /\ \A m, n \in 1..Len(returned) : m # n => at[m] # at[n]
  /\ \A v, w \in Writers : (pc[v] = "release" /\ pc[w] = "release" /\ v # w) => own[v] # own[w]
  /\ \A n \in 1..Len(returned), w \in Writers : pc[w] = "release" => at[n] # own[w]

Landed == \E at \in [Nat -> Place], own \in [Writers -> Place] : Landing(at, own, file)

\* Pieces stay where they are.
Grows(f, g) == \A p \in Place : \A row : Holds(f, p, row) => Holds(g, p, row)

LEMMA PutGrows ==
  ASSUME NEW f \in Seq(Seq(Pieces)), NEW sp \in BOOLEAN, NEW pieces \in Seq(Pieces),
         NEW newline \in BOOLEAN
  PROVE  Grows(f, Put(f, sp, pieces, newline))
<1> DEFINE o == IF sp THEN Append(Opened(f), <<>>) ELSE Opened(f)
           p == [o EXCEPT ![Len(o)] = @ \o pieces]
<1>1. /\ o \in Seq(Seq(Pieces)) /\ Len(o) >= 1 /\ Len(o) >= Len(f)
      /\ \A k \in 1..Len(f) : o[k] = f[k]
  BY DEF Opened
<1> HIDE DEF o
<1>2. /\ o[Len(o)] \o pieces \in Seq(Pieces)
      /\ Len(o[Len(o)] \o pieces) >= Len(o[Len(o)])
      /\ \A k \in 1..Len(o[Len(o)]) : (o[Len(o)] \o pieces)[k] = o[Len(o)][k]
  BY <1>1
<1>3. p \in Seq(Seq(Pieces)) /\ Len(p) = Len(o)
  BY <1>1, <1>2
<1>4. \A i \in 1..Len(o) : /\ Len(p[i]) >= Len(o[i])
                           /\ \A k \in 1..Len(o[i]) : p[i][k] = o[i][k]
  <2> TAKE i \in 1..Len(o)
  <2>1. CASE i = Len(o)
    BY <1>1, <1>2, <2>1
  <2>2. CASE i # Len(o)
    <3>1. p[i] = o[i] /\ o[i] \in Seq(Pieces)
      BY <1>1, <2>2
    <3> QED
      BY <3>1
  <2> QED
    BY <2>1, <2>2
<1> HIDE DEF p
<1>5. Put(f, sp, pieces, newline) = IF newline THEN Append(p, <<>>) ELSE p
  BY DEF Put, o, p
<1> DEFINE g == Put(f, sp, pieces, newline)
<1>6. Len(g) >= Len(p) /\ Len(p) \in Nat /\ Len(g) \in Nat /\ \A k \in 1..Len(p) : g[k] = p[k]
  BY <1>3, <1>5, NewlineAdds
<1> HIDE DEF g
<1>7. ASSUME NEW q \in Place, NEW row, Holds(f, q, row)
      PROVE  Holds(g, q, row)
  <2>1. q[1] \in 1..Len(f) /\ q[2] \in 1..Len(f[q[1]]) /\ f[q[1]][q[2]] = row
    BY <1>7 DEF Holds
  <2>2. PICK i \in 1..Len(f) : i = q[1]
    BY <2>1
  <2>3. i \in 1..Len(o) /\ o[i] = f[i]
    BY <1>1
  <2>4. i \in 1..Len(g) /\ g[i] = p[i]
    BY <1>3, <1>6, <2>3
  <2>5. o[i] \in Seq(Pieces) /\ Len(p[i]) \in Nat
    BY <1>1, <1>3, <2>3
  <2>6. PICK k \in 1..Len(o[i]) : k = q[2] /\ o[i][k] = row
    BY <2>1, <2>2, <2>3
  <2>7. k \in 1..Len(g[i]) /\ g[i][k] = row
    BY <1>4, <2>3, <2>4, <2>5, <2>6, SMTT(30)
  <2> QED
    BY <2>2, <2>4, <2>6, <2>7 DEF Holds
<1> QED
  BY <1>7 DEF Grows, g

LEMMA LandingsGrow ==
  ASSUME NEW f \in Seq(Seq(Pieces)), NEW sp \in BOOLEAN, NEW row \in Pieces,
         NEW g \in Landings(f, sp, row)
  PROVE  Grows(f, g)
<1>1. <<>> \in Seq(Pieces) /\ <<Scrap>> \in Seq(Pieces) /\ <<row>> \in Seq(Pieces)
  BY ScrapIsPiece
<1>2. Grows(f, f)
  BY DEF Grows
<1> QED
  BY <1>1, <1>2, PutGrows DEF Landings

\* A row that is put to a file is a new piece.
LEMMA PutLands ==
  ASSUME NEW f \in Seq(Seq(Pieces)), NEW sp \in BOOLEAN, NEW row \in Pieces
  PROVE  \E p \in Place : /\ Holds(Put(f, sp, <<row>>, TRUE), p, row)
                          /\ \A other : ~Holds(f, p, other)
<1> DEFINE o == IF sp THEN Append(Opened(f), <<>>) ELSE Opened(f)
           line == o[Len(o)]
           h == [o EXCEPT ![Len(o)] = @ \o <<row>>]
           g == Append(h, <<>>)
           p == <<Len(o), Len(line) + 1>>
<1>1. /\ o \in Seq(Seq(Pieces)) /\ Len(o) \in Nat \ {0}
      /\ Len(o) \in 1..Len(f) => o[Len(o)] = f[Len(o)]
  BY DEF Opened
<1>2. Put(f, sp, <<row>>, TRUE) = g
  BY DEF Put
<1> HIDE DEF o
<1>3. /\ line \in Seq(Pieces) /\ Len(line) \in Nat /\ line \o <<row>> \in Seq(Pieces)
      /\ Len(line \o <<row>>) = Len(line) + 1 /\ (line \o <<row>>)[Len(line) + 1] = row
  BY <1>1
<1>4. h \in Seq(Seq(Pieces)) /\ Len(h) = Len(o) /\ h[Len(o)] = line \o <<row>>
  BY <1>1, <1>3
<1> HIDE DEF h, line
<1>5. Len(g) = Len(h) + 1 /\ g[Len(o)] = h[Len(o)]
  <2>1. Len(g) = Len(h) + 1 /\ \A k \in 1..Len(h) : g[k] = h[k]
    BY <1>4, NewlineAdds
  <2>2. Len(o) \in 1..Len(h)
    BY <1>1, <1>4
  <2> HIDE DEF g
  <2> QED
    BY <2>1, <2>2
<1> HIDE DEF g
<1>6. p \in Place /\ Holds(g, p, row)
  BY <1>1, <1>3, <1>4, <1>5 DEF Holds, Place
<1>7. \A other : ~Holds(f, p, other)
  BY <1>1, <1>3 DEF Holds, line
<1> QED
  BY <1>2, <1>6, <1>7

\* A step that returns nothing and brings no writer to its return.
LEMMA KeepsLanded ==
  ASSUME TypeOK, Landed, Grows(file, file'), returned' = returned,
         \A w \in Writers : pc'[w] = "release" =>
           pc[w] = "release" /\ body'[w] = body[w] /\ prev'[w] = prev[w]
  PROVE  Landed'
<1>1. PICK at \in [Nat -> Place], own \in [Writers -> Place] : Landing(at, own, file)
  BY DEF Landed
<1>2. \A w \in Writers : pc'[w] = "release" => pc[w] = "release" /\ NewRow(w)' = NewRow(w)
  BY DEF NewRow
<1>3. Len(returned) \in Nat
  BY DEF TypeOK
<1>4. \A n \in 1..Len(returned) : Holds(file', at[n], returned[n])
  BY <1>1, <1>3 DEF Landing, Grows
<1>5. \A w \in Writers : pc'[w] = "release" => Holds(file', own[w], NewRow(w)')
  BY <1>1, <1>2 DEF Landing, Grows
<1>6. /\ \A m, n \in 1..Len(returned) : m # n => at[m] # at[n]
      /\ \A v, w \in Writers : pc'[v] = "release" /\ pc'[w] = "release" /\ v # w => own[v] # own[w]
      /\ \A n \in 1..Len(returned), w \in Writers : pc'[w] = "release" => at[n] # own[w]
  BY <1>1, <1>2 DEF Landing
<1>7. Landing(at, own, file)'
  BY <1>4, <1>5, <1>6 DEF Landing
<1> QED
  BY <1>7 DEF Landed

\* A whole write places its row apart from the others.
LEMMA StoreLands ==
  ASSUME TypeOK, Landed, NEW w \in Writers, Store(w)
  PROVE  Landed'
<1> DEFINE row == NewRow(w)
<1>1. PICK at \in [Nat -> Place], own \in [Writers -> Place] : Landing(at, own, file)
  BY DEF Landed
<1>2. /\ file \in Seq(Seq(Pieces)) /\ sep[w] \in BOOLEAN /\ row \in Pieces
      /\ file' = Put(file, sep[w], <<row>>, TRUE)
      /\ <<row>> \in Seq(Pieces)
      /\ returned' = returned /\ Len(returned) \in Nat
      /\ \A v \in Writers : NewRow(v)' = NewRow(v)
      /\ pc' = [pc EXCEPT ![w] = "release"] /\ pc \in [Writers -> Labels]
  <2>1. row \in Pieces
    BY RowIsPiece DEF TypeOK, NewRow
  <2>2. <<row>> \in Seq(Pieces)
    BY <2>1
  <2>3. \A v \in Writers : NewRow(v)' = NewRow(v)
    BY DEF NewRow, Store
  <2> HIDE DEF row
  <2>4. /\ file \in Seq(Seq(Pieces)) /\ sep[w] \in BOOLEAN
        /\ returned' = returned /\ Len(returned) \in Nat
        /\ pc' = [pc EXCEPT ![w] = "release"] /\ pc \in [Writers -> Labels]
    BY DEF TypeOK, Store, Goto
  <2>5. file' = Put(file, sep[w], <<row>>, TRUE)
    BY DEF Store, row
  <2> QED
    BY <2>1, <2>2, <2>3, <2>4, <2>5
<1> HIDE DEF row
<1>3. Grows(file, file')
  BY <1>2, PutGrows
<1>4. PICK p \in Place : Holds(file', p, row) /\ \A other : ~Holds(file, p, other)
  BY <1>2, PutLands
<1> DEFINE own2 == [own EXCEPT ![w] = p]
<1>5. /\ own2 \in [Writers -> Place] /\ own2[w] = p
      /\ \A v \in Writers : v # w => own2[v] = own[v]
  OBVIOUS
<1> HIDE DEF own2
<1>6. /\ pc'[w] = "release"
      /\ \A v \in Writers : v # w => pc'[v] = pc[v]
  BY <1>2
<1>7. ASSUME NEW n \in 1..Len(returned)
      PROVE  Holds(file', at[n], returned[n]) /\ at[n] # p
  <2>1. at[n] \in Place /\ Holds(file, at[n], returned[n])
    BY <1>1, <1>2 DEF Landing
  <2> QED
    BY <1>3, <1>4, <2>1 DEF Grows
<1>8. \A v \in Writers : (v # w /\ pc[v] = "release") =>
                           Holds(file', own[v], NewRow(v)) /\ own[v] # p
  BY <1>1, <1>3, <1>4 DEF Landing, Grows
<1>9. /\ \A m, n \in 1..Len(returned) : m # n => at[m] # at[n]
      /\ \A v, u \in Writers : pc[v] = "release" /\ pc[u] = "release" /\ v # u => own[v] # own[u]
      /\ \A n \in 1..Len(returned), v \in Writers : pc[v] = "release" => at[n] # own[v]
  BY <1>1 DEF Landing
<1>10. \A v \in Writers : pc'[v] = "release" => Holds(file', own2[v], NewRow(v)')
  BY <1>2, <1>4, <1>5, <1>6, <1>8 DEF row
<1>11. \A v, u \in Writers : pc'[v] = "release" /\ pc'[u] = "release" /\ v # u => own2[v] # own2[u]
  BY <1>5, <1>6, <1>8, <1>9
<1>12. \A n \in 1..Len(returned), v \in Writers : pc'[v] = "release" => at[n] # own2[v]
  BY <1>5, <1>6, <1>7, <1>9
<1>13. Landing(at, own2, file)'
  BY <1>2, <1>7, <1>9, <1>10, <1>11, <1>12 DEF Landing
<1> QED
  BY <1>5, <1>13 DEF Landed

\* The row a writer returns is where it was about to return it from.
LEMMA ReleaseLands ==
  ASSUME TypeOK, Landed, NEW w \in Writers, Release(w)
  PROVE  Landed'
<1> DEFINE row == NewRow(w)
           k == Len(returned)
<1>1. PICK at \in [Nat -> Place], own \in [Writers -> Place] : Landing(at, own, file)
  BY DEF Landed
<1>2. /\ row \in Pieces /\ returned \in Seq(Pieces) /\ k \in Nat
      /\ returned' = Append(returned, row) /\ file' = file
      /\ \A v \in Writers : NewRow(v)' = NewRow(v)
      /\ pc[w] = "release"
      /\ pc' = [pc EXCEPT ![w] = "idle"] /\ pc \in [Writers -> Labels]
  <2>1. row \in Pieces
    BY RowIsPiece DEF TypeOK, NewRow
  <2>2. \A v \in Writers : NewRow(v)' = NewRow(v)
    BY DEF NewRow, Release
  <2>3. returned' = Append(returned, row)
    BY DEF Release
  <2> HIDE DEF row
  <2>4. /\ returned \in Seq(Pieces) /\ k \in Nat /\ file' = file
        /\ pc[w] = "release"
        /\ pc' = [pc EXCEPT ![w] = "idle"] /\ pc \in [Writers -> Labels]
    BY DEF TypeOK, Release, Goto
  <2> QED
    BY <2>1, <2>2, <2>3, <2>4
<1> HIDE DEF row
<1>3. /\ Len(returned') = k + 1 /\ returned'[k + 1] = row
      /\ \A n \in 1..k : returned'[n] = returned[n]
  BY <1>2
<1> HIDE DEF k
<1>4. PICK at2 \in [Nat -> Place] : at2[k + 1] = own[w] /\ \A n \in 1..k : at2[n] = at[n]
  <2> DEFINE next == [at EXCEPT ![k + 1] = own[w]]
  <2>1. next \in [Nat -> Place] /\ next[k + 1] = own[w] /\ \A n \in 1..k : next[n] = at[n]
    BY <1>2
  <2> HIDE DEF next
  <2> QED
    BY <2>1
<1>5. \A v \in Writers : pc'[v] = "release" => v # w /\ pc[v] = "release"
  BY <1>2
<1>6. /\ \A n \in 1..k : Holds(file, at[n], returned[n])
      /\ \A v \in Writers : pc[v] = "release" => Holds(file, own[v], NewRow(v))
      /\ \A m, n \in 1..k : m # n => at[m] # at[n]
      /\ \A v, u \in Writers : pc[v] = "release" /\ pc[u] = "release" /\ v # u => own[v] # own[u]
      /\ \A n \in 1..k, v \in Writers : pc[v] = "release" => at[n] # own[v]
  BY <1>1 DEF Landing, k
<1>7. \A n \in 1..k+1 : n \in 1..k \/ n = k + 1
  BY <1>2
<1>8. \A n \in 1..Len(returned') : Holds(file', at2[n], returned'[n])
  BY <1>2, <1>3, <1>4, <1>6, <1>7 DEF row
<1>9. \A m, n \in 1..Len(returned') : m # n => at2[m] # at2[n]
  BY <1>2, <1>3, <1>4, <1>6, <1>7
<1>10. \A n \in 1..Len(returned'), v \in Writers : pc'[v] = "release" => at2[n] # own[v]
  BY <1>2, <1>3, <1>4, <1>5, <1>6, <1>7
<1>11. \A v \in Writers : pc'[v] = "release" => Holds(file', own[v], NewRow(v)')
  BY <1>2, <1>5, <1>6
<1>12. \A v, u \in Writers : pc'[v] = "release" /\ pc'[u] = "release" /\ v # u => own[v] # own[u]
  BY <1>5, <1>6
<1>13. Landing(at2, own, file)'
  BY <1>8, <1>9, <1>10, <1>11, <1>12 DEF Landing
<1> QED
  BY <1>4, <1>13 DEF Landed

LEMMA LandedStep == TypeOK /\ Landed /\ [Next]_vars => Landed'
<1> SUFFICES ASSUME TypeOK, Landed, [Next]_vars PROVE Landed'
  OBVIOUS
<1> USE DEF Goto
<1>0. Grows(file, file)
  BY DEF Grows
<1>1. ASSUME file' = file, returned' = returned,
             \A v \in Writers : pc'[v] = "release" =>
               pc[v] = "release" /\ body'[v] = body[v] /\ prev'[v] = prev[v]
      PROVE  Landed'
  BY <1>0, <1>1, KeepsLanded
<1>2. ASSUME NEW w \in Writers, NEW b \in Bodies, Call(w, b) PROVE Landed'
  BY <1>1, <1>2 DEF Call, TypeOK
<1>3. ASSUME NEW w \in Writers, Acquire(w) PROVE Landed'
  BY <1>1, <1>3 DEF Acquire, TypeOK
<1>4. ASSUME NEW w \in Writers, Deadline(w) PROVE Landed'
  BY <1>1, <1>4 DEF Deadline, TypeOK
<1>5. ASSUME NEW w \in Writers, FallThrough(w) PROVE Landed'
  BY <1>1, <1>5 DEF FallThrough, TypeOK
<1>6. ASSUME NEW w \in Writers, ReadTail(w) PROVE Landed'
  BY <1>1, <1>6 DEF ReadTail, TypeOK
<1>7. ASSUME NEW w \in Writers, Probe(w) PROVE Landed'
  BY <1>1, <1>7 DEF Probe, TypeOK
<1>8. ASSUME NEW w \in Writers, Store(w) PROVE Landed'
  BY <1>8, StoreLands
<1>9. ASSUME NEW w \in Writers, file' \in Landings(file, sep[w], NewRow(w)),
             returned' = returned, body' = body, prev' = prev,
             \A v \in Writers : pc'[v] = "release" => pc[v] = "release"
      PROVE  Landed'
  <2>1. file \in Seq(Seq(Pieces)) /\ sep[w] \in BOOLEAN /\ NewRow(w) \in Pieces
    BY RowIsPiece DEF TypeOK, NewRow
  <2>2. Grows(file, file')
    BY <1>9, <2>1, LandingsGrow
  <2> QED
    BY <1>9, <2>2, KeepsLanded
<1>10. ASSUME NEW w \in Writers, StoreFails(w) PROVE Landed'
  BY <1>9, <1>10 DEF StoreFails, TypeOK
<1>11. ASSUME NEW w \in Writers, Release(w) PROVE Landed'
  BY <1>11, ReleaseLands
<1>12. ASSUME NEW w \in Writers, Raise(w) PROVE Landed'
  BY <1>1, <1>12 DEF Raise, TypeOK
<1>13. ASSUME NEW w \in Writers, Crash(w) PROVE Landed'
  <2>1. CASE pc[w] = "write"
    BY <1>9, <1>13, <2>1 DEF Crash, TypeOK
  <2>2. CASE pc[w] # "write"
    BY <1>1, <1>13, <2>2 DEF Crash, TypeOK
  <2> QED
    BY <2>1, <2>2
<1>14. ASSUME NEW w \in Writers, Restart(w) PROVE Landed'
  BY <1>1, <1>14 DEF Restart, TypeOK
<1>15. ASSUME NEW p \in Foreign, ForeignAppend(p) PROVE Landed'
  <2>1. /\ file \in Seq(Seq(Pieces)) /\ <<p>> \in Seq(Pieces)
        /\ file' = Put(file, FALSE, <<p>>, TRUE)
    BY <1>15, ForeignArePieces DEF ForeignAppend, TypeOK
  <2>2. Grows(file, file')
    BY <2>1, PutGrows
  <2> QED
    BY <1>15, <2>2, KeepsLanded DEF ForeignAppend
<1>16. CASE UNCHANGED vars
  BY <1>1, <1>16 DEF vars
<1> QED
  BY <1>2, <1>3, <1>4, <1>5, <1>6, <1>7, <1>8, <1>10, <1>11, <1>12, <1>13,
     <1>14, <1>15, <1>16, Steps

LEMMA PiecesAre == Pieces = PiecesOver(Bodies \cup {Void}, Chains)
BY DEF Pieces, PiecesOver, PieceKinds

\* Under a green, bytes of one's own are a line of one's own, and two lines
\* hold two rows.
LEMMA GreenHolds == TypeOK /\ Landed => GreenHoldsEveryRow
<1> SUFFICES ASSUME TypeOK, Landed, Ok(file, FALSE) = "True"
             PROVE  /\ \A n \in 1..Len(returned) : OnItsLine(returned[n])
                    /\ \A m, n \in 1..Len(returned) : m # n => returned[m] # returned[n]
  BY DEF GreenHoldsEveryRow
<1>1. /\ file \in Seq(Seq(PiecesOver(Bodies \cup {Void}, Chains))) /\ Len(file) \in Nat
      /\ Len(returned) \in Nat
  BY PiecesAre DEF TypeOK
<1>2. Clean(file) /\ Linked(file)
  BY <1>1, GreenIsClean
<1>3. PICK at \in [Nat -> Place], own \in [Writers -> Place] : Landing(at, own, file)
  BY DEF Landed
<1>4. ASSUME NEW n \in 1..Len(returned)
      PROVE  /\ at[n] \in Place /\ at[n][1] \in 1..Len(file) /\ at[n][2] = 1
             /\ file[at[n][1]] = <<returned[n]>>
             /\ Kind(file[at[n][1]]) = "link"
  <2>1. at[n] \in Place /\ Holds(file, at[n], returned[n])
    BY <1>1, <1>3 DEF Landing
  <2>2. PICK i \in 1..Len(file) : i = at[n][1]
    BY <2>1 DEF Holds
  <2>3. /\ file[i] \in Seq(PiecesOver(Bodies \cup {Void}, Chains))
        /\ at[n][2] \in 1..Len(file[i]) /\ file[i][at[n][2]] = returned[n]
    BY <1>1, <2>1, <2>2 DEF Holds
  <2>4. file[i] # <<>> /\ file[i][1].kind \in PieceKinds
    <3> DEFINE P == PiecesOver(Bodies \cup {Void}, Chains)
    <3>1. \A q \in P : q.kind \in PieceKinds
      BY DEF PiecesOver
    <3> HIDE DEF P
    <3>2. file[i] \in Seq(P) /\ Len(file[i]) >= 1
      BY <2>3 DEF P
    <3>3. file[i] # <<>> /\ file[i][1] \in P
      BY <3>2
    <3> QED
      BY <3>1, <3>3
  <2>5. Kind(file[i]) = "link" /\ Len(file[i]) = 1
    BY <1>2, <2>4 DEF Clean, Kind, PieceKinds, RowKinds
  <2>6. at[n][2] = 1 /\ file[i] = <<returned[n]>>
    BY <2>3, <2>5
  <2> QED
    BY <2>1, <2>2, <2>5, <2>6
<1>5. \A n \in 1..Len(returned) : OnItsLine(returned[n])
  BY <1>4 DEF OnItsLine
\* The chain of a row is as long as its number.
<1>6. ASSUME NEW i \in 1..Len(file), NEW j \in 1..Len(file), i < j,
             Kind(file[i]) = "link", Kind(file[j]) = "link"
      PROVE  Claimed(file, i) # Claimed(file, j)
  <2>1. IsRow(file, i) /\ IsRow(file, j)
    BY <1>6 DEF IsRow, RowKinds
  <2>2. Claimed(file, i) = TailChain(file, i) /\ Claimed(file, j) = TailChain(file, j)
    BY <2>1, TailChainTakes
  <2>3. Len(TailChain(file, i)) = RowNumber(file, i) /\ Len(TailChain(file, j)) = RowNumber(file, j)
    <3>1. i \in 0..Len(file) /\ j \in 0..Len(file)
      OBVIOUS
    <3> QED
      BY <1>1, <1>2, <3>1, ChainSpells
  <2>4. RowNumber(file, i) < RowNumber(file, j) /\ RowNumber(file, i) \in Nat
    BY <1>6, <2>1, RowNumbersDiffer, RowNumberSteps
  <2> QED
    BY <2>2, <2>3, <2>4
<1>7. ASSUME NEW m \in 1..Len(returned), NEW n \in 1..Len(returned), m # n
      PROVE  returned[m] # returned[n]
  <2>1. at[m] # at[n]
    BY <1>3, <1>7 DEF Landing
  <2>2. at[m][2] = 1 /\ at[n][2] = 1 /\ at[m] \in Nat \X Nat /\ at[n] \in Nat \X Nat
    BY <1>4 DEF Place
  <2>3. PICK i \in 1..Len(file) : /\ i = at[m][1] /\ file[i] = <<returned[m]>>
                                  /\ Kind(file[i]) = "link"
    BY <1>4
  <2>4. PICK j \in 1..Len(file) : /\ j = at[n][1] /\ file[j] = <<returned[n]>>
                                  /\ Kind(file[j]) = "link"
    BY <1>4
  <2>5. i # j
    BY <2>1, <2>2, <2>3, <2>4
  <2>6. i \in Nat /\ j \in Nat /\ (i < j \/ j < i)
    BY <2>5
  <2>7. Claimed(file, i) # Claimed(file, j)
    BY <1>6, <2>3, <2>4, <2>6
  <2> QED
    BY <2>3, <2>4, <2>7 DEF Claimed
<1> QED
  BY <1>5, <1>7

(***************************************************************************)
(* The verdict over an undisturbed log.                                    *)
(***************************************************************************)
\* Nothing tore the file, so it holds links and nothing else.
Untorn == spent.mishaps = 0 => /\ spent.foreign = 0
                               /\ spent.unlocked = 0 => Clean(file)

LEMMA StoreStaysClean ==
  ASSUME TypeOK, Fresh, spent.unlocked = 0, spent.foreign = 0, Clean(file),
         NEW w \in Writers, Store(w)
  PROVE  Clean(file')
<1> DEFINE row == NewRow(w)
           o == Healed(file)
           g == Filled(o, <<row>>, TRUE)
<1>1. row.kind = "link" /\ <<row>> \in Seq(Pieces) /\ file \in Seq(Seq(Pieces))
  <2>1. row \in Pieces
    BY RowIsPiece DEF TypeOK, NewRow
  <2>2. row.kind = "link"
    BY DEF NewRow, Row
  <2> HIDE DEF row
  <2> QED
    BY <2>1, <2>2 DEF TypeOK
<1> HIDE DEF row
<1>2. file' = g
  <2>1. file' = Put(file, ~EndsInNewline(file), <<row>>, TRUE)
    BY WriterIsReady DEF Store, row
  <2> QED
    BY <1>1, <2>1, PutHeals
<1>3. o \in Seq(Seq(Pieces)) /\ Len(o) \in Nat \ {0} /\ o[Len(o)] = <<>>
  BY <1>1, HealedIs
<1>4. \A i \in 1..Len(o) : Kind(o[i]) \in {"blank", "link"}
  <2>1. \A i \in 1..Len(o) : o[i] = <<>> \/ (i \in 1..Len(file) /\ o[i] = file[i])
    BY <1>1 DEF Healed, Opened
  <2> QED
    BY <2>1 DEF Clean, Kind
<1> HIDE DEF o
<1> DEFINE p == [o EXCEPT ![Len(o)] = <<row>>]
<1>5. /\ p \in Seq(Seq(Pieces)) /\ Len(p) = Len(o) /\ p[Len(o)] = <<row>>
      /\ \A i \in 1..Len(o)-1 : p[i] = o[i]
  BY <1>1, <1>3
<1>6. g = Append(p, <<>>)
  BY DEF Filled
<1> HIDE DEF p, g
<1>7. /\ Len(g) = Len(p) + 1 /\ g[Len(g)] = <<>>
      /\ \A i \in 1..Len(p) : g[i] = p[i]
  BY <1>5, <1>6, NewlineAdds
<1>8. Kind(<<row>>) = "link" /\ Kind(<<>>) = "blank"
  BY <1>1 DEF Kind
<1>9. ASSUME NEW i \in 1..Len(g)
      PROVE  Kind(g[i]) \in {"blank", "link"}
  <2>1. CASE i = Len(g)
    BY <1>7, <1>8, <2>1
  <2>2. CASE i = Len(o)
    <3>1. i \in 1..Len(p)
      BY <1>3, <1>5, <2>2
    <3>2. g[i] = <<row>>
      BY <1>5, <1>7, <2>2, <3>1
    <3> QED
      BY <1>8, <3>2
  <2>3. CASE i \in 1..Len(o)-1
    <3>1. i \in 1..Len(p) /\ i \in 1..Len(o)
      BY <1>3, <1>5, <2>3
    <3>2. g[i] = o[i]
      BY <1>5, <1>7, <2>3, <3>1
    <3> QED
      BY <1>4, <3>1, <3>2
  <2>4. Len(o) \in Nat /\ Len(g) = Len(o) + 1
    BY <1>3, <1>5, <1>7
  <2> QED
    BY <2>1, <2>2, <2>3, <2>4
<1> QED
  BY <1>2, <1>9 DEF Clean

LEMMA UntornStep == TypeOK /\ Fresh /\ Untorn /\ [Next]_vars => Untorn'
<1> SUFFICES ASSUME TypeOK, Fresh, Untorn, [Next]_vars, spent'.mishaps = 0
             PROVE  spent'.foreign = 0 /\ (spent'.unlocked = 0 => Clean(file'))
  BY DEF Untorn
<1> DEFINE Goal == spent'.foreign = 0 /\ (spent'.unlocked = 0 => Clean(file'))
<1>1. ASSUME file' = file, spent'.mishaps = spent.mishaps, spent'.foreign = spent.foreign,
             spent'.unlocked = 0 => spent.unlocked = 0
      PROVE  Goal
  BY <1>1 DEF Untorn
<1>2. ASSUME NEW w \in Writers, NEW b \in Bodies, Call(w, b) PROVE Goal
  BY <1>1, <1>2 DEF Call, TypeOK, Counters
<1>3. ASSUME NEW w \in Writers, FallThrough(w) PROVE Goal
  BY <1>1, <1>3 DEF FallThrough, TypeOK, Counters
<1>4. ASSUME NEW w \in Writers, Store(w) PROVE Goal
  BY <1>4, StoreStaysClean DEF Store, Untorn
<1>5. ASSUME Mishap PROVE FALSE
  BY <1>5 DEF Mishap, TypeOK, Counters
<1>6. ASSUME NEW p \in Foreign, ForeignAppend(p) PROVE FALSE
  BY <1>6 DEF ForeignAppend, TypeOK, Counters
<1>7. CASE UNCHANGED <<file, spent>>
  BY <1>1, <1>7
<1> QED
  BY <1>2, <1>3, <1>4, <1>5, <1>6, <1>7, Steps
     DEF Acquire, Deadline, ReadTail, Probe, StoreFails, Release, Raise, Crash, Restart, vars

\* The verdict over a shared log is true in both directions.  Green: every row
\* append returned is there once, on a line of its own, whoever forked the
\* chain or tore a line before.  Not green: something did happen, for a log
\* whose writers all took the lock and which nothing tore verifies strictly.
THEOREM VerdictStays == Spec => []VerdictIsTrue
<1>1. Init => Landed /\ Untorn
  <2> SUFFICES ASSUME Init PROVE Landed /\ Untorn
    OBVIOUS
  <2> DEFINE at == [n \in Nat |-> <<0, 0>>]
             own == [w \in Writers |-> <<0, 0>>]
  <2>1. at \in [Nat -> Place] /\ own \in [Writers -> Place]
    BY DEF Place
  <2>2. Len(returned) = 0 /\ \A w \in Writers : pc[w] # "release"
    BY DEF Init
  <2>3. 1..0 = {}
    OBVIOUS
  <2> HIDE DEF at, own
  <2>4. Landing(at, own, file)
    BY <2>2, <2>3 DEF Landing
  <2>5. Untorn
    BY DEF Init, Untorn, Clean
  <2> QED
    BY <2>1, <2>4, <2>5 DEF Landed
<1>2. TypeOK /\ NoFork /\ Untorn => QuietLogIsGreen
  <2> SUFFICES ASSUME TypeOK, NoFork, Untorn, spent.unlocked = 0, spent.mishaps = 0,
                      RowCount(file) > 0
               PROVE  Ok(file, TRUE) = "True"
    BY DEF QuietLogIsGreen
  <2>1. Len(file) \in Nat
    BY DEF TypeOK
  <2>2. Clean(file) /\ Linked(file)
    BY DEF NoFork, Untorn
  <2> QED
    BY <2>1, <2>2, CleanIsGreen
<1>3. TypeOK /\ NoFork /\ Untorn /\ Landed => VerdictIsTrue
  BY <1>2, GreenHolds DEF VerdictIsTrue
<1> QED
  BY <1>1, <1>3, TypeCorrect, ReadsStayFresh, ChainNeverForks, LandedStep, UntornStep, PTL
     DEF Spec
===============================================================================
