---------------------------- MODULE GuardTheorems ----------------------------
(***************************************************************************)
(* Theorems about the two modules in which a process holds something that  *)
(* others want, may die with it, and may be told to go on without it: the  *)
(* claim of a key in Once, and the lock file of the keys in Roster; and    *)
(* about the verdict of Reconcile.  The modules share no state.            *)
(***************************************************************************)
EXTENDS Once, Roster, Reconcile, FiniteSetTheorems, SequenceTheorems, WellFoundedInduction,
        TLAPS

(***************************************************************************)
(* Once: at most once or flagged, proved for any callers and any bounds,   *)
(* of an operator whose jobs overlap with no guard that could mind them.   *)
(***************************************************************************)
Events == {"intent", "executed"}
Jobs == {"idle", "reclaim", "complete", "rebuild"}
Labels == Holding \cup {"idle", "dead", "claim", "reread", "generation", "cas", "lost"}

Typed == /\ ledger \in Seq(Events)
         /\ index \in [state : Events \cup {"none", "claiming", "retrying"}, gen : Nat,
                       holder : Callers \cup {Nobody}]
         /\ index.state = "none" => index = NoRow
         /\ pc \in [Callers -> Labels]
         /\ flag \in [Callers -> BOOLEAN]
         /\ job \in [at : Jobs, seen : Events \cup {"never"}]
         /\ fired \in Seq([by : Callers, flagged : BOOLEAN])

(***************************************************************************)
(* The invariant.                                                          *)
(***************************************************************************)
\* One caller at most holds the key; the index shows its claim, or was lost when
\* its intent was on record; and who still wants to claim finds a row once there
\* is an intent.
Owned == /\ \A c \in Callers : pc[c] \in Holding =>
              \/ index.state \in {"claiming", "retrying"} /\ index.holder = c
              \/ index.state = "none" /\ pc[c] # "intend"
         /\ \A c, d \in Callers : pc[c] \in Holding /\ pc[d] \in Holding => c = d
         /\ \A c \in Callers : pc[c] = "claim" /\ ledger # <<>> => index.state # "none"

\* What is on record while a caller holds the key, and that a flag led to a retry.
OnRecord == \A c \in Callers :
  /\ pc[c] = "intend" => Receipt(ledger) # "executed"
  /\ pc[c] \in {"won", "fired", "execute"} => Receipt(ledger) = "intent"
  /\ pc[c] = "mark" => Receipt(ledger) = "executed"
  /\ pc[c] \in {"fired", "execute", "mark"} => fired # <<>>
  /\ pc[c] \in {"generation", "cas"} => flag[c]
  /\ pc[c] \in {"intend", "won"} => flag[c] \/ fired = <<>>

\* The operator's reading is still true, and no guard runs beside complete and
\* rebuild_index.
ReadingHolds == /\ job.at = "reclaim" => job.seen = Receipt(ledger) /\ job.seen # "executed"
                /\ job.at = "complete" => Quiet /\ fired # <<>> /\ job.seen = Receipt(ledger)
                /\ job.at = "rebuild" => Quiet

\* A caller about to take over an unresolved key finds none that was executed.
NothingLeft == Receipt(ledger) = "executed" /\ index.state = "intent" =>
                 \A c \in Callers : pc[c] \notin {"generation", "cas"}

Inv == /\ Typed /\ Owned /\ OnRecord /\ ReadingHolds /\ NothingLeft
       /\ ReceiptIsTrue /\ ExecutedIsFinal /\ AtMostOnceOrFlagged
\* The actions Next is made of.
LEMMA Actions ==
  ASSUME Next
  PROVE  \/ \E c \in Callers, flagged \in BOOLEAN : Enter(c, flagged)
         \/ \E c \in Callers :
              \/ Claim(c) \/ Reread(c) \/ ReadGeneration(c) \/ Cas(c) \/ Lost(c) \/ Intend(c)
              \/ Fire(c) \/ DoneRead(c) \/ Execute(c) \/ Mark(c) \/ Fails(c) \/ Crash(c)
         \/ ReclaimRead \/ ReclaimRow \/ CompleteRead \/ CompleteRow \/ CompleteMark
         \/ RebuildUnlink \/ RebuildReplay \/ OperatorDies \/ LoseIndex
BY DEF Next, Caller, Operator

\* What an appended event makes of the receipt.
LEMMA Appended ==
  ASSUME NEW log \in Seq(Events), NEW e \in Events
  PROVE  /\ Append(log, e) \in Seq(Events) /\ Append(log, e) # <<>>
         /\ Receipt(Append(log, e)) = e
BY DEF Receipt

(***************************************************************************)
(* Every step keeps each part of the invariant.                            *)
(***************************************************************************)
\* The types.
LEMMA TypedStep ==
  ASSUME Overlapping = {}, Inv, [Next]_vars PROVE Typed'
<1> USE DEF Inv, Holding, Labels, Typed, Events, NoRow, NoJob, Jobs, Receipt
<1>1. ASSUME NEW c \in Callers, NEW flagged \in BOOLEAN, Enter(c, flagged) PROVE Typed'
  BY <1>1 DEF Enter, Resolve, Goto
<1>2. ASSUME NEW c \in Callers, Claim(c) PROVE Typed'
  BY <1>2 DEF Claim, Goto
<1>3. ASSUME NEW c \in Callers, Reread(c) PROVE Typed'
  BY <1>3 DEF Reread, Resolve, Goto
<1>4. ASSUME NEW c \in Callers, ReadGeneration(c) PROVE Typed'
  BY <1>4 DEF ReadGeneration, Goto
<1>5. ASSUME NEW c \in Callers, Cas(c) PROVE Typed'
  BY <1>5, SMTT(30) DEF Cas, Goto
<1>6. ASSUME NEW c \in Callers, Lost(c) PROVE Typed'
  BY <1>6 DEF Lost, Goto
<1>7. ASSUME NEW c \in Callers, Intend(c) PROVE Typed'
  BY <1>7, Appended DEF Intend, Deciding, Goto
<1>8. ASSUME NEW c \in Callers, Fire(c) PROVE Typed'
  BY <1>8, Appended DEF Fire, Goto
<1>9. ASSUME NEW c \in Callers, DoneRead(c) PROVE Typed'
  BY <1>9 DEF DoneRead, Goto
<1>10. ASSUME NEW c \in Callers, Execute(c) PROVE Typed'
  BY <1>10, Appended DEF Execute, Deciding, Goto
<1>11. ASSUME NEW c \in Callers, Mark(c) PROVE Typed'
  BY <1>11 DEF Mark, Marked, Goto
<1>12. ASSUME NEW c \in Callers, Fails(c) PROVE Typed'
  BY <1>12 DEF Fails, Goto
<1>13. ASSUME NEW c \in Callers, Crash(c) PROVE Typed'
  BY <1>13 DEF Crash, Goto
<1>14. CASE ReclaimRead
  BY <1>14 DEF ReclaimRead, StartJob, Operate
<1>15. CASE ReclaimRow
  BY <1>15 DEF ReclaimRow, Operate
<1>16. CASE CompleteRead
  BY <1>16 DEF CompleteRead, StartJob, Operate
<1>17. CASE CompleteRow
  BY <1>17, Appended DEF CompleteRow, Operate
<1>18. CASE CompleteMark
  BY <1>18 DEF CompleteMark, Operate, Marked
<1>19. CASE RebuildUnlink
  BY <1>19 DEF RebuildUnlink, StartJob, Operate
<1>20. CASE RebuildReplay
  BY <1>20 DEF RebuildReplay, Operate, Replayed
<1>21. CASE OperatorDies
  BY <1>21 DEF OperatorDies, Operate
<1>22. CASE LoseIndex
  BY <1>22 DEF LoseIndex, In
<1>23. CASE UNCHANGED vars
  BY <1>23 DEF vars
<1> QED
  BY Actions, <1>1, <1>2, <1>3, <1>4, <1>5, <1>6, <1>7, <1>8, <1>9, <1>10, <1>11, <1>12,
     <1>13, <1>14, <1>15, <1>16, <1>17, <1>18, <1>19, <1>20, <1>21, <1>22, <1>23

\* Whoever claims finds no row and so no holder, a row freed for a retry has none,
\* and a row that is taken from its holder is of a dead one.
LEMMA OwnedStep ==
  ASSUME Overlapping = {}, Inv, [Next]_vars PROVE Owned'
<1> USE DEF Inv, Holding, Labels, Typed, Events, Owned, NoRow, NoJob, OnRecord,
            ReadingHolds, ReceiptIsTrue, Quiet, In
<1>1. ASSUME NEW c \in Callers, NEW flagged \in BOOLEAN, Enter(c, flagged) PROVE Owned'
  BY <1>1 DEF Enter, Resolve, Goto
<1>2. ASSUME NEW c \in Callers, Claim(c) PROVE Owned'
  <2>1. CASE index = NoRow
    <3>1. \A d \in Callers : pc[d] \notin Holding
      BY <1>2, <2>1 DEF Claim, Receipt
    <3>2. /\ index'.state = "claiming" /\ index'.holder = c
          /\ ledger' = ledger /\ pc' = [pc EXCEPT ![c] = "intend"]
      BY <1>2, <2>1 DEF Claim, Goto
    <3> QED
      BY <3>1, <3>2
  <2>2. CASE index # NoRow
    <3>1. index' = index /\ ledger' = ledger /\ pc' = [pc EXCEPT ![c] = "reread"]
      BY <1>2, <2>2 DEF Claim, Goto
    <3> QED
      BY <3>1
  <2> QED
    BY <2>1, <2>2
<1>3. ASSUME NEW c \in Callers, Reread(c) PROVE Owned'
  BY <1>3 DEF Reread, Resolve, Goto
<1>4. ASSUME NEW c \in Callers, ReadGeneration(c) PROVE Owned'
  BY <1>4 DEF ReadGeneration, Goto
<1>5. ASSUME NEW c \in Callers, Cas(c) PROVE Owned'
  BY <1>5 DEF Cas, Goto
<1>6. ASSUME NEW c \in Callers, Lost(c) PROVE Owned'
  BY <1>6 DEF Lost, Goto
<1>7. ASSUME NEW c \in Callers, Intend(c) PROVE Owned'
  BY <1>7, Appended DEF Intend, Deciding, Goto
<1>8. ASSUME NEW c \in Callers, Fire(c) PROVE Owned'
  BY <1>8, Appended DEF Fire, Goto
<1>9. ASSUME NEW c \in Callers, DoneRead(c) PROVE Owned'
  BY <1>9 DEF DoneRead, Goto
<1>10. ASSUME NEW c \in Callers, Execute(c) PROVE Owned'
  BY <1>10, Appended DEF Execute, Deciding, Goto
<1>11. ASSUME NEW c \in Callers, Mark(c) PROVE Owned'
  BY <1>11 DEF Mark, Marked, Goto
<1>12. ASSUME NEW c \in Callers, Fails(c) PROVE Owned'
  BY <1>12 DEF Fails, Goto
<1>13. ASSUME NEW c \in Callers, Crash(c) PROVE Owned'
  BY <1>13 DEF Crash, Goto
<1>14. CASE ReclaimRead
  BY <1>14 DEF ReclaimRead, StartJob, Operate
<1>15. CASE ReclaimRow
  <2>1. CASE /\ index.state \in {"claiming", "retrying"} /\ index.holder # Nobody
             /\ pc[index.holder] = "dead"
    <3>1. \A d \in Callers : pc[d] \notin Holding
      BY <2>1
    <3>2. index' = NoRow => ledger = <<>>
      BY <1>15, <2>1 DEF ReclaimRow, Receipt
    <3>3. index'.state = IF index' = NoRow THEN "none" ELSE "intent"
      BY <1>15, <2>1 DEF ReclaimRow
    <3> QED
      BY <1>15, <3>1, <3>2, <3>3 DEF ReclaimRow, Operate
  <2>2. CASE UNCHANGED index
    BY <1>15, <2>2 DEF ReclaimRow, Operate
  <2> QED
    BY <1>15, <2>1, <2>2 DEF ReclaimRow
<1>16. CASE CompleteRead
  BY <1>16 DEF CompleteRead, StartJob, Operate
<1>17. CASE CompleteRow
  BY <1>17, Appended DEF CompleteRow, Operate
<1>18. CASE CompleteMark
  BY <1>18 DEF CompleteMark, Operate, Marked
<1>19. CASE RebuildUnlink
  BY <1>19 DEF RebuildUnlink, StartJob, Operate
<1>20. CASE RebuildReplay
  BY <1>20 DEF RebuildReplay, Operate, Replayed
<1>21. CASE OperatorDies
  BY <1>21 DEF OperatorDies, Operate
<1>22. CASE LoseIndex
  BY <1>22 DEF LoseIndex, In
<1>23. CASE UNCHANGED vars
  BY <1>23 DEF vars
<1> QED
  BY Actions, <1>1, <1>2, <1>3, <1>4, <1>5, <1>6, <1>7, <1>8, <1>9, <1>10, <1>11, <1>12,
     <1>13, <1>14, <1>15, <1>16, <1>17, <1>18, <1>19, <1>20, <1>21, <1>22, <1>23

\* Nobody writes the ledger beside a holder of the key but the holder.
LEMMA OnRecordStep ==
  ASSUME Overlapping = {}, Inv, [Next]_vars PROVE OnRecord'
<1> USE DEF Inv, Holding, Labels, Typed, Events, OnRecord, Owned, ReadingHolds,
            NothingLeft, ReceiptIsTrue, Quiet, In, NoRow, NoJob
<1>1. ASSUME NEW c \in Callers, NEW flagged \in BOOLEAN, Enter(c, flagged) PROVE OnRecord'
  BY <1>1 DEF Enter, Resolve, Goto
<1>2. ASSUME NEW c \in Callers, Claim(c) PROVE OnRecord'
  BY <1>2 DEF Claim, Goto
<1>3. ASSUME NEW c \in Callers, Reread(c) PROVE OnRecord'
  BY <1>3 DEF Reread, Resolve, Goto
<1>4. ASSUME NEW c \in Callers, ReadGeneration(c) PROVE OnRecord'
  BY <1>4 DEF ReadGeneration, Goto
<1>5. ASSUME NEW c \in Callers, Cas(c) PROVE OnRecord'
  BY <1>5 DEF Cas, Goto
<1>6. ASSUME NEW c \in Callers, Lost(c) PROVE OnRecord'
  BY <1>6 DEF Lost, Goto
<1>7. ASSUME NEW c \in Callers, Intend(c) PROVE OnRecord'
  BY <1>7, Appended DEF Intend, Deciding, Goto
<1>8. ASSUME NEW c \in Callers, Fire(c) PROVE OnRecord'
  BY <1>8, Appended, SMTT(30) DEF Fire, Goto
<1>9. ASSUME NEW c \in Callers, DoneRead(c) PROVE OnRecord'
  BY <1>9 DEF DoneRead, Goto
<1>10. ASSUME NEW c \in Callers, Execute(c) PROVE OnRecord'
  BY <1>10, Appended DEF Execute, Deciding, Goto
<1>11. ASSUME NEW c \in Callers, Mark(c) PROVE OnRecord'
  BY <1>11 DEF Mark, Marked, Goto
<1>12. ASSUME NEW c \in Callers, Fails(c) PROVE OnRecord'
  BY <1>12 DEF Fails, Goto
<1>13. ASSUME NEW c \in Callers, Crash(c) PROVE OnRecord'
  BY <1>13 DEF Crash, Goto
<1>14. CASE ReclaimRead
  BY <1>14 DEF ReclaimRead, StartJob, Operate
<1>15. CASE ReclaimRow
  BY <1>15 DEF ReclaimRow, Operate
<1>16. CASE CompleteRead
  BY <1>16 DEF CompleteRead, StartJob, Operate
<1>17. CASE CompleteRow
  BY <1>17, Appended DEF CompleteRow, Operate
<1>18. CASE CompleteMark
  BY <1>18 DEF CompleteMark, Operate, Marked
<1>19. CASE RebuildUnlink
  BY <1>19 DEF RebuildUnlink, StartJob, Operate
<1>20. CASE RebuildReplay
  BY <1>20 DEF RebuildReplay, Operate, Replayed
<1>21. CASE OperatorDies
  BY <1>21 DEF OperatorDies, Operate
<1>22. CASE LoseIndex
  BY <1>22 DEF LoseIndex, In
<1>23. CASE UNCHANGED vars
  BY <1>23 DEF vars
<1> QED
  BY Actions, <1>1, <1>2, <1>3, <1>4, <1>5, <1>6, <1>7, <1>8, <1>9, <1>10, <1>11, <1>12,
     <1>13, <1>14, <1>15, <1>16, <1>17, <1>18, <1>19, <1>20, <1>21, <1>22, <1>23

\* What the operator read stays true until it decides.
LEMMA ReadingStep ==
  ASSUME Overlapping = {}, Inv, [Next]_vars PROVE ReadingHolds'
<1> USE DEF Inv, Holding, Labels, Typed, Events, OnRecord, ReadingHolds, Quiet, In, NoJob
<1>1. ASSUME NEW c \in Callers, NEW flagged \in BOOLEAN, Enter(c, flagged) PROVE ReadingHolds'
  BY <1>1 DEF Enter, Resolve, Goto
<1>2. ASSUME NEW c \in Callers, Claim(c) PROVE ReadingHolds'
  BY <1>2 DEF Claim, Goto
<1>3. ASSUME NEW c \in Callers, Reread(c) PROVE ReadingHolds'
  BY <1>3 DEF Reread, Resolve, Goto
<1>4. ASSUME NEW c \in Callers, ReadGeneration(c) PROVE ReadingHolds'
  BY <1>4 DEF ReadGeneration, Goto
<1>5. ASSUME NEW c \in Callers, Cas(c) PROVE ReadingHolds'
  BY <1>5 DEF Cas, Goto
<1>6. ASSUME NEW c \in Callers, Lost(c) PROVE ReadingHolds'
  BY <1>6 DEF Lost, Goto
<1>7. ASSUME NEW c \in Callers, Intend(c) PROVE ReadingHolds'
  BY <1>7, Appended DEF Intend, Deciding, Goto
<1>8. ASSUME NEW c \in Callers, Fire(c) PROVE ReadingHolds'
  BY <1>8, Appended DEF Fire, Goto
<1>9. ASSUME NEW c \in Callers, DoneRead(c) PROVE ReadingHolds'
  BY <1>9 DEF DoneRead, Goto
<1>10. ASSUME NEW c \in Callers, Execute(c) PROVE ReadingHolds'
  BY <1>10, Appended DEF Execute, Deciding, Goto
<1>11. ASSUME NEW c \in Callers, Mark(c) PROVE ReadingHolds'
  BY <1>11 DEF Mark, Marked, Goto
<1>12. ASSUME NEW c \in Callers, Fails(c) PROVE ReadingHolds'
  BY <1>12 DEF Fails, Goto
<1>13. ASSUME NEW c \in Callers, Crash(c) PROVE ReadingHolds'
  BY <1>13 DEF Crash, Goto
<1>14. CASE ReclaimRead
  BY <1>14 DEF ReclaimRead, StartJob, Operate
<1>15. CASE ReclaimRow
  BY <1>15 DEF ReclaimRow, Operate
<1>16. CASE CompleteRead
  BY <1>16 DEF CompleteRead, StartJob, Operate
<1>17. CASE CompleteRow
  BY <1>17, Appended DEF CompleteRow, Operate
<1>18. CASE CompleteMark
  BY <1>18 DEF CompleteMark, Operate, Marked
<1>19. CASE RebuildUnlink
  BY <1>19 DEF RebuildUnlink, StartJob, Operate
<1>20. CASE RebuildReplay
  BY <1>20 DEF RebuildReplay, Operate, Replayed
<1>21. CASE OperatorDies
  BY <1>21 DEF OperatorDies, Operate
<1>22. CASE LoseIndex
  BY <1>22 DEF LoseIndex, In
<1>23. CASE UNCHANGED vars
  BY <1>23 DEF vars
<1> QED
  BY Actions, <1>1, <1>2, <1>3, <1>4, <1>5, <1>6, <1>7, <1>8, <1>9, <1>10, <1>11, <1>12,
     <1>13, <1>14, <1>15, <1>16, <1>17, <1>18, <1>19, <1>20, <1>21, <1>22, <1>23

\* A key is executed by its holder or by a complete that runs alone.
LEMMA NothingStep ==
  ASSUME Overlapping = {}, Inv, [Next]_vars PROVE NothingLeft'
<1> USE DEF Inv, Holding, Labels, Typed, Events, OnRecord, Owned, ReadingHolds,
            NothingLeft, Quiet, In, NoRow, NoJob
<1>1. ASSUME NEW c \in Callers, NEW flagged \in BOOLEAN, Enter(c, flagged) PROVE NothingLeft'
  BY <1>1 DEF Enter, Resolve, Goto
<1>2. ASSUME NEW c \in Callers, Claim(c) PROVE NothingLeft'
  BY <1>2 DEF Claim, Goto
<1>3. ASSUME NEW c \in Callers, Reread(c) PROVE NothingLeft'
  BY <1>3 DEF Reread, Resolve, Goto
<1>4. ASSUME NEW c \in Callers, ReadGeneration(c) PROVE NothingLeft'
  BY <1>4 DEF ReadGeneration, Goto
<1>5. ASSUME NEW c \in Callers, Cas(c) PROVE NothingLeft'
  BY <1>5 DEF Cas, Goto
<1>6. ASSUME NEW c \in Callers, Lost(c) PROVE NothingLeft'
  BY <1>6 DEF Lost, Goto
<1>7. ASSUME NEW c \in Callers, Intend(c) PROVE NothingLeft'
  BY <1>7, Appended DEF Intend, Deciding, Goto
<1>8. ASSUME NEW c \in Callers, Fire(c) PROVE NothingLeft'
  BY <1>8, Appended DEF Fire, Goto
<1>9. ASSUME NEW c \in Callers, DoneRead(c) PROVE NothingLeft'
  BY <1>9 DEF DoneRead, Goto
<1>10. ASSUME NEW c \in Callers, Execute(c) PROVE NothingLeft'
  BY <1>10, Appended DEF Execute, Deciding, Goto
<1>11. ASSUME NEW c \in Callers, Mark(c) PROVE NothingLeft'
  BY <1>11 DEF Mark, Marked, Goto
<1>12. ASSUME NEW c \in Callers, Fails(c) PROVE NothingLeft'
  BY <1>12 DEF Fails, Goto
<1>13. ASSUME NEW c \in Callers, Crash(c) PROVE NothingLeft'
  BY <1>13 DEF Crash, Goto
<1>14. CASE ReclaimRead
  BY <1>14 DEF ReclaimRead, StartJob, Operate
<1>15. CASE ReclaimRow
  BY <1>15 DEF ReclaimRow, Operate
<1>16. CASE CompleteRead
  BY <1>16 DEF CompleteRead, StartJob, Operate
<1>17. CASE CompleteRow
  BY <1>17, Appended DEF CompleteRow, Operate
<1>18. CASE CompleteMark
  BY <1>18 DEF CompleteMark, Operate, Marked
<1>19. CASE RebuildUnlink
  BY <1>19 DEF RebuildUnlink, StartJob, Operate
<1>20. CASE RebuildReplay
  BY <1>20 DEF RebuildReplay, Operate, Replayed
<1>21. CASE OperatorDies
  BY <1>21 DEF OperatorDies, Operate
<1>22. CASE LoseIndex
  BY <1>22 DEF LoseIndex, In
<1>23. CASE UNCHANGED vars
  BY <1>23 DEF vars
<1> QED
  BY Actions, <1>1, <1>2, <1>3, <1>4, <1>5, <1>6, <1>7, <1>8, <1>9, <1>10, <1>11, <1>12,
     <1>13, <1>14, <1>15, <1>16, <1>17, <1>18, <1>19, <1>20, <1>21, <1>22, <1>23

\* The effect runs with its intent on record, and is marked executed after it ran.
LEMMA ReceiptStep ==
  ASSUME Overlapping = {}, Inv, [Next]_vars PROVE ReceiptIsTrue'
<1> USE DEF Inv, Holding, Labels, Typed, Events, OnRecord, Owned, ReadingHolds,
            ReceiptIsTrue, Quiet, In, NoRow, NoJob
<1>1. ASSUME NEW c \in Callers, Claim(c) PROVE ReceiptIsTrue'
  BY <1>1 DEF Claim, Goto
<1>2. ASSUME NEW c \in Callers, Cas(c) PROVE ReceiptIsTrue'
  BY <1>2 DEF Cas, Goto
<1>3. ASSUME NEW c \in Callers, Intend(c) PROVE ReceiptIsTrue'
  BY <1>3, Appended DEF Intend, Deciding, Goto
<1>4. ASSUME NEW c \in Callers, Fire(c) PROVE ReceiptIsTrue'
  <2>1. ledger # <<>>
    BY <1>4 DEF Fire, Receipt
  <2>2. fired' # <<>>
    <3>1. fired' \in Seq([by : Callers, flagged : BOOLEAN]) /\ Len(fired') = Len(fired) + 1
      BY <1>4, AppendProperties DEF Fire
    <3> QED
      BY <3>1
  <2> QED
    BY <1>4, <2>1, <2>2 DEF Fire
<1>5. ASSUME NEW c \in Callers, Execute(c) PROVE ReceiptIsTrue'
  BY <1>5, Appended DEF Execute, Deciding, Goto
<1>6. ASSUME NEW c \in Callers, Mark(c) PROVE ReceiptIsTrue'
  BY <1>6 DEF Mark, Marked, Goto
<1>7. CASE ReclaimRow
  <2>1. job.seen # "never" => ledger # <<>>
    BY <1>7 DEF ReclaimRow, Receipt
  <2>2. index'.state # "executed"
    BY <1>7 DEF ReclaimRow
  <2>3. index'.state = "intent" => job.seen # "never" \/ index' = index
    BY <1>7 DEF ReclaimRow
  <2>4. index'.state = "retrying" => index' = index
    BY <1>7 DEF ReclaimRow
  <2>5. ledger' = ledger /\ fired' = fired
    BY <1>7 DEF ReclaimRow, Operate
  <2> QED
    BY <2>1, <2>2, <2>3, <2>4, <2>5
<1>8. CASE CompleteRow
  BY <1>8, Appended DEF CompleteRow, Operate
<1>9. CASE CompleteMark
  BY <1>9 DEF CompleteMark, Operate, Marked
<1>10. CASE RebuildUnlink
  BY <1>10 DEF RebuildUnlink, StartJob, Operate
<1>11. CASE RebuildReplay
  BY <1>11 DEF RebuildReplay, Operate, Replayed
<1>12. CASE LoseIndex
  BY <1>12 DEF LoseIndex, In
<1>13. CASE UNCHANGED <<ledger, index, fired>>
  BY <1>13
<1>14. CASE UNCHANGED vars
  BY <1>13, <1>14 DEF vars
<1> QED
  BY Actions, <1>1, <1>2, <1>3, <1>4, <1>5, <1>6, <1>7, <1>8, <1>9, <1>10, <1>11, <1>12,
     <1>13, <1>14
     DEF Enter, Reread, ReadGeneration, Lost, DoneRead, Fails, Crash, ReclaimRead,
         CompleteRead, OperatorDies, Operate, StartJob

\* An event after one that is not "executed" leaves no executed one behind it.
LEMMA StillFinal ==
  ASSUME ledger \in Seq(Events), ExecutedIsFinal, Receipt(ledger) # "executed",
         NEW e \in Events, ledger' = Append(ledger, e)
  PROVE  ExecutedIsFinal'
<1>1. Len(ledger') = Len(ledger) + 1 /\ \A n \in 1..Len(ledger) : ledger'[n] = ledger[n]
  BY AppendProperties
<1>2. Len(ledger) \in Nat /\ (Len(ledger) # 0 => ledger # <<>>)
  OBVIOUS
<1>3. Len(ledger) # 0 => ledger[Len(ledger)] # "executed"
  BY <1>2 DEF Receipt
<1> QED
  BY <1>1, <1>2, <1>3 DEF ExecutedIsFinal

\* Only an intent is executed, and an executed key gets no intent.
LEMMA FinalStep ==
  ASSUME Overlapping = {}, Inv, [Next]_vars PROVE ExecutedIsFinal'
<1> USE DEF Inv, Holding, Labels, Typed, Events, OnRecord, ReadingHolds, ExecutedIsFinal
<1>1. ASSUME NEW c \in Callers, Intend(c) PROVE ExecutedIsFinal'
  <2>1. Receipt(ledger) # "executed" /\ \E e \in Events : ledger' = Append(ledger, e)
    BY <1>1 DEF Intend
  <2> QED
    BY <2>1, StillFinal
<1>2. ASSUME NEW c \in Callers, Execute(c) PROVE ExecutedIsFinal'
  <2>1. Receipt(ledger) # "executed" /\ \E e \in Events : ledger' = Append(ledger, e)
    BY <1>2 DEF Execute
  <2> QED
    BY <2>1, StillFinal
<1>3. CASE CompleteRow
  <2>1. Receipt(ledger) # "executed" /\ \E e \in Events : ledger' = Append(ledger, e)
    BY <1>3 DEF CompleteRow
  <2> QED
    BY <2>1, StillFinal
<1>4. CASE UNCHANGED ledger
  BY <1>4
<1>5. CASE UNCHANGED vars
  BY <1>4, <1>5 DEF vars
<1> QED
  BY Actions, <1>1, <1>2, <1>3, <1>4, <1>5
     DEF Enter, Claim, Reread, ReadGeneration, Cas, Lost, Fire, DoneRead, Mark, Fails,
         Crash, ReclaimRead, ReclaimRow, CompleteRead, CompleteMark, RebuildUnlink,
         RebuildReplay, OperatorDies, LoseIndex, Operate, StartJob

\* The first effect needs no flag, and whoever runs another has one.
LEMMA FlaggedStep ==
  ASSUME Overlapping = {}, Inv, [Next]_vars PROVE AtMostOnceOrFlagged'
<1> USE DEF Inv, Holding, Labels, Typed, Events, OnRecord, AtMostOnceOrFlagged
<1>1. ASSUME NEW c \in Callers, Fire(c) PROVE AtMostOnceOrFlagged'
  BY <1>1, Appended DEF Fire, Goto
<1>2. CASE UNCHANGED fired
  BY <1>2
<1>3. CASE UNCHANGED vars
  BY <1>2, <1>3 DEF vars
<1> QED
  BY Actions, <1>1, <1>2, <1>3
     DEF Enter, Claim, Reread, ReadGeneration, Cas, Lost, Intend, DoneRead, Execute, Mark,
         Fails, Crash, ReclaimRead, ReclaimRow, CompleteRead, CompleteRow, CompleteMark,
         RebuildUnlink, RebuildReplay, OperatorDies, LoseIndex, Operate, StartJob

(***************************************************************************)
(* The theorems.                                                           *)
(***************************************************************************)
LEMMA InvInit == Init => Inv
BY DEF Init, Inv, Typed, Owned, OnRecord, ReadingHolds, NothingLeft, ReceiptIsTrue,
       ExecutedIsFinal, AtMostOnceOrFlagged, Holding, Labels, Jobs, Events, NoRow, NoJob, Receipt

LEMMA InvHolds == ASSUME Overlapping = {} PROVE Spec => []Inv
<1>1. Inv /\ [Next]_vars => Inv'
  BY TypedStep, OwnedStep, OnRecordStep, ReadingStep, NothingStep, ReceiptStep, FinalStep,
     FlaggedStep DEF Inv
<1> QED
  BY InvInit, <1>1, PTL DEF Spec

\* An effect runs a second time for a caller only that passed the flag, however
\* many callers, crashes, failures and operator jobs there are, while no job runs
\* beside a guard that could mind it.
THEOREM AtMostOnce == ASSUME Overlapping = {} PROVE Spec => []AtMostOnceOrFlagged
<1>1. Inv => AtMostOnceOrFlagged
  BY DEF Inv
<1> QED
  BY <1>1, InvHolds, PTL

\* A live claim is protected: one caller holds the key, and the index shows a key
\* that is held as held.
THEOREM ClaimIsProtected == ASSUME Overlapping = {} PROVE Spec => []HeldIsNotFree
<1>1. Inv => HeldIsNotFree
  BY DEF Inv, Owned, HeldIsNotFree, Holding
<1> QED
  BY <1>1, InvHolds, PTL

\* The receipt says of the effect what is so, and the index is never ahead of it.
THEOREM ReceiptTells == ASSUME Overlapping = {} PROVE Spec => []ReceiptIsTrue
<1>1. Inv => ReceiptIsTrue
  BY DEF Inv
<1> QED
  BY <1>1, InvHolds, PTL

\* No event follows once.executed, of whatever guard, complete or retry.
THEOREM ExecutedStays == ASSUME Overlapping = {} PROVE Spec => []ExecutedIsFinal
<1>1. Inv => ExecutedIsFinal
  BY DEF Inv
<1> QED
  BY <1>1, InvHolds, PTL

(***************************************************************************)
(* Roster's safety, proved for every set of processes, keys and calls and  *)
(* for every bound.  That the lock file excludes is not inductive: it      *)
(* rests on what a process that is about to break a lock file judged.      *)
(* That what was reported is kept rests on exclusion, on documents that    *)
(* are current when they are saved, and on secrets that are new.           *)
(*                                                                         *)
(* The inductive invariant is the conjunction of TypeOK, Exclusive and the *)
(* definitions below.                                                      *)
(***************************************************************************)
\* A lock file grows old only after its owner died, and nobody else's is about
\* to be broken.
OldIsDead == tally.stalls = 0 /\ old => lock \in Admins /\ at[lock] = "dead"
JudgedIsDead == tally.stalls = 0 =>
  \A p \in Admins : at[p] = "break" => judged[p] \in Admins /\ at[judged[p]] = "dead"

\* A process at work knows what it was called for.
HasWork == \A p \in Admins : at[p] \in Waiting \cup Section => op[p] \in Operations

\* The document about to be saved is the keys file, and has the key to revoke.
DocIsCurrent == Orderly =>
  \A p \in Admins : at[p] = "save" =>
    doc[p] = roster /\ (op[p].verb = "revoke" => roster[op[p].key] # "absent")

\* Until its add is saved, a secret is nowhere else: not in the keys file, and
\* not in another process.
Unsaved == Waiting \cup {"load", "save"}
AddIsNew == Orderly =>
  \A p \in Admins : (at[p] \in Unsaved /\ op[p].verb = "add") => roster[op[p].key] = "absent"
AddsDiffer == \A p, q \in Admins : (op[p].verb = "add" /\ op[p] = op[q]) => p = q

\* A saved operation, whether it was reported yet or not.
Holds(o) == /\ roster[o.key] # "absent"
            /\ o.verb = "revoke" => roster[o.key] = "revoked"
SavedIsKept == Orderly => \A p \in Admins : at[p] = "unlock" => Holds(op[p])
ToldIsKept == Orderly => \A o \in told : Holds(o)

\* What is true of the keys file and of the documents while Orderly.
Current == DocIsCurrent /\ AddIsNew /\ SavedIsKept /\ ToldIsKept

(***************************************************************************)
(* Types.                                                                  *)
(***************************************************************************)
\* The actions RosterNext is made of.
LEMMA RosterActions ==
  ASSUME RosterNext
  PROVE  \/ Age
         \/ \E p \in Admins :
              \/ \E o \in Operations : Call(p, o)
              \/ Open(p) \/ OpenFails(p) \/ TimeOut(p) \/ Stat(p) \/ Break(p) \/ Load(p)
              \/ Save(p) \/ Unlock(p) \/ Deadline(p) \/ LoadOrSaveFails(p) \/ Die(p)
BY CallsAssumption DEF RosterNext, Admin, Try, Probe, Work

\* A process at work has an operation, so what it saves is a roster.
LEMMA TypesStep == TypeOK /\ HasWork /\ [RosterNext]_rosterVars => TypeOK' /\ HasWork'
<1> SUFFICES ASSUME TypeOK, HasWork, [RosterNext]_rosterVars PROVE TypeOK' /\ HasWork'
  OBVIOUS
<1> USE DEF TypeOK, HasWork, GoTo, Waiting, Section
<1>1. ASSUME NEW p \in Admins, NEW o \in Operations, Call(p, o) PROVE TypeOK' /\ HasWork'
  BY <1>1 DEF Call
<1>2. ASSUME NEW p \in Admins, Open(p) PROVE TypeOK' /\ HasWork'
  BY <1>2 DEF Open
<1>3. ASSUME NEW p \in Admins, OpenFails(p) PROVE TypeOK' /\ HasWork'
  BY <1>3 DEF OpenFails
<1>4. ASSUME NEW p \in Admins, TimeOut(p) PROVE TypeOK' /\ HasWork'
  BY <1>4 DEF TimeOut, Leave, Idle, Rosters, Nothing, Standing
<1>5. ASSUME NEW p \in Admins, Stat(p) PROVE TypeOK' /\ HasWork'
  BY <1>5 DEF Stat
<1>6. ASSUME NEW p \in Admins, Break(p) PROVE TypeOK' /\ HasWork'
  BY <1>6 DEF Break
<1>7. ASSUME NEW p \in Admins, Load(p) PROVE TypeOK' /\ HasWork'
  BY <1>7 DEF Load
<1>8. ASSUME NEW p \in Admins, Save(p) PROVE TypeOK' /\ HasWork'
  BY <1>8 DEF Save, Changed, Rosters, Standing, Operations
<1>9. ASSUME NEW p \in Admins, Unlock(p) PROVE TypeOK' /\ HasWork'
  BY <1>9 DEF Unlock, Leave, Rosters, Nothing, Standing
<1>10. ASSUME NEW p \in Admins, Deadline(p) PROVE TypeOK' /\ HasWork'
  BY <1>10 DEF Deadline
<1>11. ASSUME NEW p \in Admins, LoadOrSaveFails(p) PROVE TypeOK' /\ HasWork'
  BY <1>11 DEF LoadOrSaveFails
<1>12. ASSUME NEW p \in Admins, Die(p) PROVE TypeOK' /\ HasWork'
  <2>1. tally' \in [deaths : 0..MaxDeaths, stalls : 0..MaxStalls, stolen : {0, 1}]
    BY <1>12, StoppingsAreNaturals DEF Die
  <2> QED
    BY <1>12, <2>1 DEF Die, Leave, Rosters, Nothing, Standing
<1>13. CASE Age
  BY <1>13, StoppingsAreNaturals DEF Age
<1>14. CASE UNCHANGED rosterVars
  BY <1>14 DEF rosterVars
<1> QED
  BY RosterActions, <1>1, <1>2, <1>3, <1>4, <1>5, <1>6, <1>7, <1>8, <1>9, <1>10, <1>11, <1>12, <1>13, <1>14

\* Both hold at the start.
LEMMA TypesInit == RosterInit => TypeOK /\ HasWork
<1> SUFFICES ASSUME RosterInit PROVE TypeOK /\ HasWork
  OBVIOUS
<1>1. roster \in Rosters /\ doc \in [Admins -> Rosters]
  BY DEF RosterInit, Rosters, Standing, Nothing
<1>2. tally \in [deaths : 0..MaxDeaths, stalls : 0..MaxStalls, stolen : {0, 1}]
  BY StoppingsAreNaturals DEF RosterInit
<1> QED
  BY <1>1, <1>2 DEF RosterInit, TypeOK, HasWork, Waiting, Section

\* Every variable of Roster keeps its type.
THEOREM RosterTypes == RosterSpec => []TypeOK
BY TypesInit, TypesStep, PTL DEF RosterSpec

(***************************************************************************)
(* Exclusion.                                                              *)
(***************************************************************************)
\* An owner that died stays dead, and a new lock file is not old.
LEMMA DeadStep == TypeOK /\ OldIsDead /\ JudgedIsDead /\ [RosterNext]_rosterVars => OldIsDead' /\ JudgedIsDead'
<1> SUFFICES ASSUME TypeOK, OldIsDead, JudgedIsDead, [RosterNext]_rosterVars PROVE OldIsDead' /\ JudgedIsDead'
  OBVIOUS
<1> USE DEF TypeOK, OldIsDead, JudgedIsDead, GoTo, Waiting, Section
<1>1. ASSUME NEW p \in Admins, NEW o \in Operations, Call(p, o) PROVE OldIsDead' /\ JudgedIsDead'
  BY <1>1 DEF Call
<1>2. ASSUME NEW p \in Admins, Open(p) PROVE OldIsDead' /\ JudgedIsDead'
  BY <1>2 DEF Open
<1>3. ASSUME NEW p \in Admins, OpenFails(p) PROVE OldIsDead' /\ JudgedIsDead'
  BY <1>3 DEF OpenFails
<1>4. ASSUME NEW p \in Admins, TimeOut(p) PROVE OldIsDead' /\ JudgedIsDead'
  BY <1>4 DEF TimeOut, Leave
<1>5. ASSUME NEW p \in Admins, Stat(p) PROVE OldIsDead' /\ JudgedIsDead'
  BY <1>5 DEF Stat
<1>6. ASSUME NEW p \in Admins, Break(p) PROVE OldIsDead' /\ JudgedIsDead'
  BY <1>6 DEF Break
<1>7. ASSUME NEW p \in Admins, Load(p) PROVE OldIsDead' /\ JudgedIsDead'
  BY <1>7 DEF Load
<1>8. ASSUME NEW p \in Admins, Save(p) PROVE OldIsDead' /\ JudgedIsDead'
  BY <1>8 DEF Save
<1>9. ASSUME NEW p \in Admins, Unlock(p) PROVE OldIsDead' /\ JudgedIsDead'
  BY <1>9 DEF Unlock, Leave
<1>10. ASSUME NEW p \in Admins, Deadline(p) PROVE OldIsDead' /\ JudgedIsDead'
  BY <1>10 DEF Deadline
<1>11. ASSUME NEW p \in Admins, LoadOrSaveFails(p) PROVE OldIsDead' /\ JudgedIsDead'
  BY <1>11 DEF LoadOrSaveFails
<1>12. ASSUME NEW p \in Admins, Die(p) PROVE OldIsDead' /\ JudgedIsDead'
  BY <1>12 DEF Die, Leave
<1>13. CASE Age
  BY <1>13 DEF Age, Abandoned
<1>14. CASE UNCHANGED rosterVars
  BY <1>14 DEF rosterVars
<1> QED
  BY RosterActions, <1>1, <1>2, <1>3, <1>4, <1>5, <1>6, <1>7, <1>8, <1>9, <1>10, <1>11, <1>12, <1>13, <1>14

\* A lock file that is broken under Orderly is that of a dead process, which is
\* nowhere in the section; any other break ends Orderly.
LEMMA ExclusiveStep == TypeOK /\ OldIsDead /\ JudgedIsDead /\ Exclusive /\ [RosterNext]_rosterVars => Exclusive'
<1> SUFFICES ASSUME TypeOK, OldIsDead, JudgedIsDead, Exclusive, [RosterNext]_rosterVars PROVE Exclusive'
  OBVIOUS
<1> USE DEF TypeOK, JudgedIsDead, Exclusive, Orderly, GoTo, Waiting, Section
<1>1. ASSUME NEW p \in Admins, NEW o \in Operations, Call(p, o) PROVE Exclusive'
  BY <1>1 DEF Call
<1>2. ASSUME NEW p \in Admins, Open(p) PROVE Exclusive'
  BY <1>2, AdminsAssumption DEF Open
<1>3. ASSUME NEW p \in Admins, OpenFails(p) PROVE Exclusive'
  BY <1>3 DEF OpenFails
<1>4. ASSUME NEW p \in Admins, TimeOut(p) PROVE Exclusive'
  BY <1>4 DEF TimeOut, Leave
<1>5. ASSUME NEW p \in Admins, Stat(p) PROVE Exclusive'
  BY <1>5 DEF Stat
<1>6. ASSUME NEW p \in Admins, Break(p) PROVE Exclusive'
  BY <1>6 DEF Break
<1>7. ASSUME NEW p \in Admins, Load(p) PROVE Exclusive'
  BY <1>7 DEF Load
<1>8. ASSUME NEW p \in Admins, Save(p) PROVE Exclusive'
  BY <1>8 DEF Save
<1>9. ASSUME NEW p \in Admins, Unlock(p) PROVE Exclusive'
  BY <1>9 DEF Unlock, Leave
<1>10. ASSUME NEW p \in Admins, Deadline(p) PROVE Exclusive'
  BY <1>10 DEF Deadline
<1>11. ASSUME NEW p \in Admins, LoadOrSaveFails(p) PROVE Exclusive'
  BY <1>11 DEF LoadOrSaveFails
<1>12. ASSUME NEW p \in Admins, Die(p) PROVE Exclusive'
  BY <1>12 DEF Die, Leave
<1>13. CASE Age
  BY <1>13 DEF Age, Abandoned
<1>14. CASE UNCHANGED rosterVars
  BY <1>14 DEF rosterVars
<1> QED
  BY RosterActions, <1>1, <1>2, <1>3, <1>4, <1>5, <1>6, <1>7, <1>8, <1>9, <1>10, <1>11, <1>12, <1>13, <1>14

\* The lock file excludes: while only the lock files of dead processes were
\* broken, a process that loads, saves or unlocks owns the lock file.
THEOREM LockFileExcludes == RosterSpec => []Exclusive
<1>1. RosterInit => OldIsDead /\ JudgedIsDead /\ Exclusive
  BY DEF RosterInit, OldIsDead, JudgedIsDead, Exclusive, Section
<1> QED
  BY <1>1, RosterTypes, DeadStep, ExclusiveStep, PTL DEF RosterSpec

(***************************************************************************)
(* What was reported is kept.                                              *)
(***************************************************************************)
\* A secret is fresh when an add begins.
LEMMA AddsDifferStep == TypeOK /\ AddsDiffer /\ [RosterNext]_rosterVars => AddsDiffer'
<1> SUFFICES ASSUME TypeOK, AddsDiffer, [RosterNext]_rosterVars PROVE AddsDiffer'
  OBVIOUS
<1> USE DEF TypeOK, AddsDiffer, GoTo, Waiting, Section
<1>1. ASSUME NEW p \in Admins, NEW o \in Operations, Call(p, o) PROVE AddsDiffer'
  BY <1>1 DEF Call, Fresh, Operations
<1>2. ASSUME NEW p \in Admins, Open(p) PROVE AddsDiffer'
  BY <1>2 DEF Open
<1>3. ASSUME NEW p \in Admins, OpenFails(p) PROVE AddsDiffer'
  BY <1>3 DEF OpenFails
<1>4. ASSUME NEW p \in Admins, TimeOut(p) PROVE AddsDiffer'
  BY <1>4 DEF TimeOut, Leave, Idle
<1>5. ASSUME NEW p \in Admins, Stat(p) PROVE AddsDiffer'
  BY <1>5 DEF Stat
<1>6. ASSUME NEW p \in Admins, Break(p) PROVE AddsDiffer'
  BY <1>6 DEF Break
<1>7. ASSUME NEW p \in Admins, Load(p) PROVE AddsDiffer'
  BY <1>7 DEF Load
<1>8. ASSUME NEW p \in Admins, Save(p) PROVE AddsDiffer'
  BY <1>8 DEF Save
<1>9. ASSUME NEW p \in Admins, Unlock(p) PROVE AddsDiffer'
  BY <1>9 DEF Unlock, Leave, Idle
<1>10. ASSUME NEW p \in Admins, Deadline(p) PROVE AddsDiffer'
  BY <1>10 DEF Deadline
<1>11. ASSUME NEW p \in Admins, LoadOrSaveFails(p) PROVE AddsDiffer'
  BY <1>11 DEF LoadOrSaveFails
<1>12. ASSUME NEW p \in Admins, Die(p) PROVE AddsDiffer'
  BY <1>12 DEF Die, Leave, Idle
<1>13. CASE Age
  BY <1>13 DEF Age
<1>14. CASE UNCHANGED rosterVars
  BY <1>14 DEF rosterVars
<1> QED
  BY RosterActions, <1>1, <1>2, <1>3, <1>4, <1>5, <1>6, <1>7, <1>8, <1>9, <1>10, <1>11, <1>12, <1>13, <1>14

\* The save of the only process in the section, with a current document.
LEMMA SaveKeeps ==
  ASSUME TypeOK, HasWork, Exclusive, AddsDiffer, Current, Orderly, NEW p \in Admins, Save(p)
  PROVE  Current'
<1> USE DEF Orderly, Exclusive
<1>1. op[p] \in Operations /\ roster \in [Keys -> Standing] /\ at[p] = "save"
  BY DEF Save, HasWork, Section, TypeOK, Rosters
<1>2. \A q \in Admins : at[q] \in Section => q = p
  BY DEF Save, Section
<1>3. doc[p] = roster /\ (op[p].verb = "revoke" => roster[op[p].key] # "absent")
  BY <1>1 DEF Current, DocIsCurrent
<1>4. op[p].verb = "add" => roster[op[p].key] = "absent"
  BY <1>1 DEF Current, AddIsNew, Unsaved
<1>5. op[p].verb \in {"add", "revoke"} /\ op[p].key \in Keys
  BY <1>1 DEF Operations
<1>6. roster' = [roster EXCEPT ![op[p].key] = IF op[p].verb = "add" THEN "active" ELSE "revoked"]
  BY <1>3 DEF Save, Changed
<1>7. \A q \in Admins : at'[q] = IF q = p THEN "unlock" ELSE at[q]
  BY DEF Save, GoTo, TypeOK
<1>8. op' = op /\ told' = told /\ doc' = doc /\ tally' = tally
  BY DEF Save
<1>9. DocIsCurrent'
  BY <1>2, <1>7 DEF DocIsCurrent, Section
<1>10. AddIsNew'
  <2> SUFFICES ASSUME NEW q \in Admins, at'[q] \in Unsaved, op[q].verb = "add"
               PROVE  roster'[op[q].key] = "absent"
    BY <1>8 DEF AddIsNew
  <2>1. q # p /\ at[q] \in Unsaved
    BY <1>7 DEF Unsaved, Waiting
  <2>2. roster[op[q].key] = "absent" /\ op[q] \in Operations
    BY <2>1 DEF Current, AddIsNew, HasWork, Unsaved, Section
  <2>3. CASE op[q].key = op[p].key
    <3>1. op[p].verb = "add"
      BY <1>3, <1>5, <2>2, <2>3
    <3>2. op[p] = op[q]
      BY <1>1, <2>2, <2>3, <3>1 DEF Operations
    <3> QED
      BY <2>1, <3>1, <3>2 DEF AddsDiffer
  <2>4. CASE op[q].key # op[p].key
    BY <1>1, <1>6, <2>2, <2>4 DEF Operations
  <2> QED
    BY <2>3, <2>4
<1>11. SavedIsKept'
  <2> SUFFICES ASSUME NEW q \in Admins, at'[q] = "unlock" PROVE Holds(op[q])'
    BY DEF SavedIsKept
  <2>1. q = p
    BY <1>2, <1>7 DEF Section
  <2> QED
    BY <1>1, <1>5, <1>6, <1>8, <2>1 DEF Holds
<1>12. ToldIsKept'
  <2> SUFFICES ASSUME NEW o \in told PROVE Holds(o)'
    BY <1>8 DEF ToldIsKept
  <2>1. o \in Operations /\ Holds(o)
    BY DEF TypeOK, Current, ToldIsKept
  <2>2. CASE o.key = op[p].key
    BY <1>1, <1>4, <1>5, <1>6, <2>1, <2>2 DEF Holds
  <2>3. CASE o.key # op[p].key
    BY <1>1, <1>6, <2>1, <2>3 DEF Holds, Operations
  <2> QED
    BY <2>2, <2>3
<1> QED
  BY <1>9, <1>10, <1>11, <1>12 DEF Current

\* No other action changes the keys file.
LEMMA CurrentStep == TypeOK /\ HasWork /\ Exclusive /\ AddsDiffer /\ Current /\ [RosterNext]_rosterVars => Current'
<1> SUFFICES ASSUME TypeOK, HasWork, Exclusive, AddsDiffer, Current, [RosterNext]_rosterVars PROVE Current'
  OBVIOUS
<1> USE DEF GoTo, Waiting, Section, Holds, Orderly, Current, DocIsCurrent, AddIsNew, SavedIsKept, ToldIsKept, Unsaved, TypeOK, HasWork
<1>1. ASSUME NEW p \in Admins, NEW o \in Operations, Call(p, o) PROVE Current'
  BY <1>1 DEF Call, Fresh
<1>2. ASSUME NEW p \in Admins, Open(p) PROVE Current'
  BY <1>2 DEF Open
<1>3. ASSUME NEW p \in Admins, OpenFails(p) PROVE Current'
  BY <1>3 DEF OpenFails
<1>4. ASSUME NEW p \in Admins, TimeOut(p) PROVE Current'
  BY <1>4 DEF TimeOut, Leave
<1>5. ASSUME NEW p \in Admins, Stat(p) PROVE Current'
  BY <1>5 DEF Stat
<1>6. ASSUME NEW p \in Admins, Break(p) PROVE Current'
  BY <1>6 DEF Break
<1>7. ASSUME NEW p \in Admins, Load(p) PROVE Current'
  BY <1>7 DEF Load
<1>8. ASSUME NEW p \in Admins, Save(p) PROVE Current'
  <2>1. CASE Orderly
    BY <1>8, <2>1, SaveKeeps
  <2>2. CASE ~Orderly
    <3>1. ~Orderly'
      BY <1>8, <2>2 DEF Save
    <3> QED
      BY <3>1
  <2> QED
    BY <2>1, <2>2
<1>9. ASSUME NEW p \in Admins, Unlock(p) PROVE Current'
  BY <1>9 DEF Unlock, Leave
<1>10. ASSUME NEW p \in Admins, Deadline(p) PROVE Current'
  BY <1>10 DEF Deadline
<1>11. ASSUME NEW p \in Admins, LoadOrSaveFails(p) PROVE Current'
  BY <1>11 DEF LoadOrSaveFails
<1>12. ASSUME NEW p \in Admins, Die(p) PROVE Current'
  BY <1>12 DEF Die, Leave
<1>13. CASE Age
  BY <1>13 DEF Age, Abandoned
<1>14. CASE UNCHANGED rosterVars
  BY <1>14 DEF rosterVars
<1> QED
  BY RosterActions, <1>1, <1>2, <1>3, <1>4, <1>5, <1>6, <1>7, <1>8, <1>9, <1>10, <1>11, <1>12, <1>13, <1>14

\* The inductive invariant holds.
LEMMA CurrentHolds == RosterSpec => [](TypeOK /\ HasWork /\ Current)
<1>1. RosterInit => AddsDiffer /\ Current
  BY DEF RosterInit, Idle, AddsDiffer, Current, DocIsCurrent, AddIsNew, SavedIsKept, ToldIsKept,
         Unsaved, Waiting
<1> QED
  BY <1>1, TypesInit, TypesStep, LockFileExcludes, AddsDifferStep, CurrentStep, PTL DEF RosterSpec

\* A reported change of the keys file stays: whatever other processes loaded,
\* changed and saved since, and whoever died, while only dead locks were broken.
THEOREM ReportedStays == RosterSpec => []ReportedIsKept
<1>1. Current => ReportedIsKept
  BY DEF Current, ToldIsKept, ReportedIsKept, Kept, Holds
<1> QED
  BY <1>1, CurrentHolds, PTL

\* Only a save changes the keys file, and it adds no key that is there.
LEMMA RevokedStep ==
  ASSUME TypeOK, HasWork, Current, [RosterNext]_rosterVars, Orderly, NEW k \in Keys, roster[k] = "revoked"
  PROVE  roster'[k] = "revoked"
<1>1. ASSUME NEW p \in Admins, Save(p) PROVE roster'[k] = "revoked"
  <2>1. op[p] \in Operations /\ roster \in [Keys -> Standing] /\ at[p] = "save"
    BY <1>1 DEF Save, HasWork, Section, TypeOK, Rosters
  <2>2. doc[p] = roster /\ (op[p].verb = "add" => roster[op[p].key] = "absent")
    BY <2>1 DEF Current, DocIsCurrent, AddIsNew, Unsaved
  <2> QED
    BY <1>1, <2>1, <2>2 DEF Save, Changed, Operations
<1>2. CASE roster' = roster
  BY <1>2
<1>3. CASE UNCHANGED rosterVars
  BY <1>2, <1>3 DEF rosterVars
<1> QED
  BY <1>1, <1>2, <1>3, RosterActions
     DEF Age, Call, Open, OpenFails, TimeOut, Stat, Break, Load, Unlock, Deadline,
         LoadOrSaveFails, Die

\* Revocation has no way back: while only dead locks were broken, no step of any
\* process makes a revoked key anything else.
THEOREM RevocationHolds == RosterSpec => RevocationIsFinal
<1>1. TypeOK /\ HasWork /\ Current /\ [RosterNext]_rosterVars
        => [Orderly => \A k \in Keys : roster[k] = "revoked" => roster'[k] = "revoked"]_rosterVars
  BY RevokedStep
<1>2. RosterSpec => [](TypeOK /\ HasWork /\ Current)
  BY CurrentHolds
<1> QED
  BY <1>1, <1>2, PTL DEF RosterSpec, RevocationIsFinal

(***************************************************************************)
(* Reconcile: MATCHED is only said of two whole tapes of the same calls,   *)
(* proved for any requests, answers, lengths and mishaps.  Each walk of    *)
(* the verdict is a recursive function over the rows; its lemma says that  *)
(* the function exists, what every state of the walk is, and what a walk   *)
(* that ends with nothing to say has met.                                  *)
(***************************************************************************)
\* A set of numbers that is not empty has a least member.
LEMMA LeastOf ==
  ASSUME NEW T \in SUBSET Nat, T # {}
  PROVE  \E x \in T : \A y \in T : x <= y
<1> DEFINE R == OpToRel(<, Nat)
<1>1. IsWellFoundedOn(R, Nat)
  BY NatLessThanWellFounded
<1>2. \A x, y \in Nat : <<y, x>> \in R <=> y < x
  BY Zenon DEF OpToRel
<1> HIDE DEF R
<1>3. PICK x \in T : \A y \in T : <<y, x>> \notin R
  BY <1>1, WFMin
<1>4. ASSUME NEW y \in T PROVE x <= y
  <2>1. x \in Nat /\ y \in Nat
    OBVIOUS
  <2>2. ~(y < x)
    BY <1>2, <1>3, <2>1
  <2> QED
    BY <2>1, <2>2
<1> QED
  BY <1>4

\* A function over 0..n that is defined by its value before exists.
Recursion(g, V, n, a, h) ==
  g \in [0..n -> V] /\ g[0] = a /\ \A i \in 1..n : g[i] = h[i][g[i-1]]

\* Such a function exists: a walk over a list is one.
LEMMA RecursionExists ==
  ASSUME NEW V, NEW a \in V, NEW n \in Nat, NEW h \in [1..n -> [V -> V]]
  PROVE  \E g : Recursion(g, V, n, a, h)
<1> DEFINE Good(m) == \E e \in [0..m -> V] :
                        e[0] = a /\ \A i \in 1..m : e[i] = h[i][e[i-1]]
           T == {m \in 0..n : ~Good(m)}
<1>1. T = {}
  <2> SUFFICES ASSUME T # {} PROVE FALSE
    OBVIOUS
  <2>1. T \in SUBSET Nat
    OBVIOUS
  <2>2. PICK m \in T : \A k \in T : m <= k
    BY <2>1, LeastOf, Zenon
  <2>3. m \in 0..n /\ ~Good(m)
    BY <2>2
  <2>4. CASE m = 0
    <3> DEFINE k == [i \in 0..0 |-> a]
    <3>1. k \in [0..0 -> V] /\ k[0] = a
      OBVIOUS
    <3> HIDE DEF k
    <3>2. Good(0)
      BY <3>1
    <3> QED
      BY <2>3, <2>4, <3>2
  <2>5. CASE m # 0
    <3>1. Good(m-1) /\ m-1 \in 0..n
      <4> HIDE DEF Good
      <4> QED
        BY <2>2, <2>3, <2>5
    <3>2. PICK g \in [0..m-1 -> V] :
                 g[0] = a /\ \A i \in 1..m-1 : g[i] = h[i][g[i-1]]
      BY <3>1
    <3> DEFINE k == [i \in 0..m |-> IF i = m THEN h[m][g[m-1]] ELSE g[i]]
    <3>3. h[m][g[m-1]] \in V
      BY <2>3, <2>5
    <3>4. k \in [0..m -> V] /\ k[0] = a
      BY <2>3, <2>5, <3>2, <3>3
    <3>5. ASSUME NEW i \in 1..m
          PROVE  k[i] = h[i][k[i-1]]
      <4>1. CASE i = m
        <5>1. k[i-1] = g[m-1]
          BY <2>3, <2>5, <4>1
        <5> QED
          BY <2>5, <4>1, <5>1
      <4>2. CASE i # m
        <5>1. i \in 1..m-1 /\ i-1 \in 0..m /\ i-1 # m
          BY <2>3, <4>2
        <5> QED
          BY <3>2, <4>2, <5>1
      <4> QED
        BY <4>1, <4>2
    <3> HIDE DEF k
    <3>6. \E e \in [0..m -> V] : e[0] = a /\ \A i \in 1..m : e[i] = h[i][e[i-1]]
      BY <3>4, <3>5, Zenon
    <3> QED
      BY <2>3, <3>6
  <2> QED
    BY <2>4, <2>5
<1> QED
  BY <1>1, SMTT(30) DEF Recursion

\* What holds at 0 and is kept from each number to the next holds up to n.
LEMMA StepByStep ==
  ASSUME NEW n \in Nat, NEW S, 0 \in S, \A i \in 1..n : i-1 \in S => i \in S
  PROVE  \A i \in 0..n : i \in S
<1> DEFINE T == {i \in 0..n : i \notin S}
<1> SUFFICES ASSUME T # {} PROVE FALSE
  OBVIOUS
<1>1. T \in SUBSET Nat
  OBVIOUS
<1>2. PICK i \in T : \A k \in T : i <= k
  BY <1>1, LeastOf, Zenon
<1>3. i \in 1..n
  BY <1>2
<1>4. i-1 \in 0..n /\ i-1 \notin T
  BY <1>2, <1>3
<1> QED
  BY <1>2, <1>3, <1>4

\* The least member of a set of numbers.
LEMMA MinIs ==
  ASSUME NEW T \in SUBSET Nat, T # {}
  PROVE  Min(T) \in T
<1>1. \E x \in T : \A y \in T : x <= y
  BY LeastOf
<1> QED
  BY <1>1 DEF Min

(***************************************************************************)
(* The types of the verdict.                                               *)
(***************************************************************************)
\* A row, a finding, a walk over a tape, and a tape as it was read.
Rows == [idx : Nat, req : Requests \cup {Garbled}, resp : Answers \cup {Null}]
Findings == [verdict : {"ALTERED", "MISSING"}, at : Nat, side : Sides \cup {Null}]
Walks == [calls : Seq(Rows), expect : Nat, found : Seq(Findings)]
Tapes == [file : Sides, side : Sides \cup {Null}, ns : Sides \cup {Null}, rows : Seq(Rows),
          broken : BOOLEAN, refused : BOOLEAN, found : Seq(Findings)]

\* What Finding makes is a finding.
LEMMA FindingIs ==
  ASSUME NEW v \in {"ALTERED", "MISSING"}, NEW k \in Nat, NEW s \in Sides \cup {Null}
  PROVE  Finding(v, k, s) \in Findings
BY DEF Finding, Findings

(***************************************************************************)
(* The walk over one tape.                                                 *)
(***************************************************************************)
WalkStart == [calls |-> <<>>, expect |-> 1, found |-> <<>>]

\* A row adds no finding only when it is the next call.
LEMMA MetIs ==
  ASSUME NEW w \in Walks, NEW r \in Rows, NEW s \in Sides \cup {Null}
  PROVE  /\ Met(w, r, s) \in Walks
         /\ Met(w, r, s).found = <<>> =>
              /\ w.found = <<>> /\ r.idx = w.expect /\ Met(w, r, s).expect = w.expect + 1
              /\ Met(w, r, s).calls = Append(w.calls, r)
<1>1. /\ w.calls \in Seq(Rows) /\ w.expect \in Nat /\ w.found \in Seq(Findings)
      /\ r.idx \in Nat
  BY DEF Walks, Rows
<1>2. CASE r.idx = w.expect
  <2>1. Met(w, r, s) = [w EXCEPT !.calls = Append(@, r), !.expect = @ + 1]
    BY <1>1, <1>2 DEF Met
  <2>2. Append(w.calls, r) \in Seq(Rows) /\ w.expect + 1 \in Nat
    BY <1>1
  <2>3. Met(w, r, s) = [calls |-> Append(w.calls, r), expect |-> w.expect + 1, found |-> w.found]
    BY <2>1 DEF Walks
  <2>4. Met(w, r, s) \in Walks
    BY <1>1, <2>2, <2>3 DEF Walks
  <2> QED
    BY <1>2, <2>3, <2>4
<1>3. CASE r.idx > w.expect
  <2>1. Met(w, r, s) = [w EXCEPT !.calls = Append(@, r), !.expect = r.idx + 1,
                                 !.found = Append(@, Finding("MISSING", w.expect, s))]
    BY <1>1, <1>3 DEF Met
  <2>2. /\ Append(w.found, Finding("MISSING", w.expect, s)) \in Seq(Findings) \ {<<>>}
        /\ Append(w.calls, r) \in Seq(Rows) /\ r.idx + 1 \in Nat
    BY <1>1, FindingIs
  <2>3. Met(w, r, s) = [calls |-> Append(w.calls, r), expect |-> r.idx + 1,
                        found |-> Append(w.found, Finding("MISSING", w.expect, s))]
    BY <2>1 DEF Walks
  <2>4. Met(w, r, s) \in Walks
    BY <2>2, <2>3 DEF Walks
  <2> QED
    BY <2>2, <2>3, <2>4
<1>4. CASE r.idx < w.expect
  <2>1. Met(w, r, s) = [w EXCEPT !.found = Append(@, Finding("ALTERED", r.idx, s))]
    BY <1>1, <1>4 DEF Met
  <2>2. Append(w.found, Finding("ALTERED", r.idx, s)) \in Seq(Findings) \ {<<>>}
    BY <1>1, FindingIs
  <2> QED
    BY <1>1, <2>1, <2>2 DEF Walks
<1> QED
  BY <1>1, <1>2, <1>3, <1>4

\* _walk_index, row by row.
LEMMA WalkRuns ==
  ASSUME NEW t \in Tapes
  PROVE  \E w \in [0..Len(t.rows) -> Walks] :
           /\ w[0] = WalkStart /\ WalkIndex(t) = w[Len(t.rows)]
           /\ \A k \in 1..Len(t.rows) : w[k] = Met(w[k-1], t.rows[k], t.side)
<1>1. t.rows \in Seq(Rows) /\ t.side \in Sides \cup {Null}
  BY DEF Tapes
<1> PICK N \in Nat : N = Len(t.rows)
  BY <1>1
<1> DEFINE After(k, w) == Met(w, t.rows[k], t.side)
           h == [k \in 1..N |-> [w \in Walks |-> After(k, w)]]
           Is(w) == w = [k \in 0..N |-> IF k = 0 THEN WalkStart ELSE After(k, w[k-1])]
<1>2. WalkStart \in Walks
  BY DEF WalkStart, Walks
<1>3. ASSUME NEW k \in 1..N, NEW w \in Walks PROVE After(k, w) \in Walks
  <2>1. t.rows[k] \in Rows
    BY <1>1
  <2> QED
    BY <1>1, <2>1, MetIs
<1>4. \E w : Is(w)
  <2> HIDE DEF After
  <2>1. h \in [1..N -> [Walks -> Walks]]
    BY <1>3
  <2>2. \A k \in 1..N, w \in Walks : h[k][w] = After(k, w)
    OBVIOUS
  <2> HIDE DEF h
  <2>3. \E w : Recursion(w, Walks, N, WalkStart, h)
    BY <1>2, <2>1, RecursionExists
  <2>4. PICK w \in [0..N -> Walks] : w[0] = WalkStart /\ \A k \in 1..N : w[k] = h[k][w[k-1]]
    BY <2>3 DEF Recursion
  <2>5. \A k \in 0..N : w[k] = IF k = 0 THEN WalkStart ELSE After(k, w[k-1])
    BY <2>2, <2>4
  <2>6. Is(w)
    BY <2>4, <2>5
  <2> QED
    BY <2>6
<1>5. PICK w : Is(w) /\ WalkIndex(t) = w[N]
  <2> DEFINE c == CHOOSE w : Is(w)
  <2>1. Is(c)
    BY <1>4, Zenon
  <2>2. WalkIndex(t) = c[N]
    BY DEF WalkIndex, WalkStart
  <2> HIDE DEF c
  <2> QED
    BY <2>1, <2>2
<1>6. w[0] = WalkStart /\ \A k \in 1..N : w[k] = After(k, w[k-1])
  <2> HIDE DEF After
  <2> QED
    BY <1>5
<1> DEFINE S == {k \in 0..N : w[k] \in Walks}
<1>7. \A k \in 0..N : k \in S
  <2> HIDE DEF After
  <2>1. 0 \in S
    BY <1>2, <1>6
  <2>2. \A k \in 1..N : k-1 \in S => k \in S
    BY <1>3, <1>6
  <2> HIDE DEF S
  <2> QED
    BY <2>1, <2>2, StepByStep
<1>8. w \in [0..N -> Walks]
  <2> HIDE DEF After
  <2> QED
    BY <1>5, <1>7
<1> QED
  BY <1>5, <1>6, <1>8

\* A walk that finds nothing takes every row, and they are call 1, 2, 3 ...
LEMMA WalkIs ==
  ASSUME NEW t \in Tapes
  PROVE  /\ WalkIndex(t) \in Walks
         /\ WalkIndex(t).found = <<>> =>
              WalkIndex(t).calls = t.rows /\ \A k \in DOMAIN t.rows : t.rows[k].idx = k
<1>1. t.rows \in Seq(Rows) /\ t.side \in Sides \cup {Null}
  BY DEF Tapes
<1>a. PICK N \in Nat : N = Len(t.rows)
  BY <1>1
<1>2. PICK w \in [0..N -> Walks] :
           /\ w[0] = WalkStart /\ WalkIndex(t) = w[N]
           /\ \A k \in 1..N : w[k] = Met(w[k-1], t.rows[k], t.side)
  BY <1>a, WalkRuns
<1> DEFINE Good(k) == w[k].found = <<>> =>
                        /\ w[k].calls = SubSeq(t.rows, 1, k) /\ w[k].expect = k + 1
                        /\ \A i \in 1..k : t.rows[i].idx = i
           S == {k \in 0..N : Good(k)}
<1>3. 0 \in S
  <2>1. SubSeq(t.rows, 1, 0) = <<>>
    BY <1>1
  <2>2. w[0].calls = <<>> /\ w[0].expect = 1 /\ w[0].found = <<>>
    BY <1>2 DEF WalkStart
  <2>3. Good(0)
    BY <2>1, <2>2
  <2> QED
    BY <2>3
<1>4. ASSUME NEW k \in 1..N, k-1 \in S PROVE k \in S
  <2>1. PICK v \in Walks : v = w[k-1]
    BY <1>2
  <2>2. PICK r \in Rows : r = t.rows[k]
    BY <1>a, <1>1
  <2>3. w[k] = Met(v, r, t.side)
    BY <1>2, <2>1, <2>2
  <2>4. SUFFICES ASSUME w[k].found = <<>> PROVE Good(k)
    OBVIOUS
  <2>5. /\ v.found = <<>> /\ r.idx = v.expect /\ w[k].expect = v.expect + 1
        /\ w[k].calls = Append(v.calls, r)
    BY <1>1, <2>3, <2>4, MetIs
  <2>6. /\ v.calls = SubSeq(t.rows, 1, k-1) /\ v.expect = k
        /\ \A i \in 1..k-1 : t.rows[i].idx = i
    BY <1>4, <2>1, <2>5
  <2>7. w[k].calls = SubSeq(t.rows, 1, k)
    <3>1. SubSeq(t.rows, 1, k) = Append(SubSeq(t.rows, 1, k-1), t.rows[k])
      BY <1>a, <1>1
    <3> QED
      BY <2>2, <2>5, <2>6, <3>1
  <2>8. w[k].expect = k + 1 /\ \A i \in 1..k : t.rows[i].idx = i
    BY <2>2, <2>5, <2>6
  <2> QED
    BY <2>7, <2>8
<1>5. N \in S
  <2> HIDE DEF S
  <2>1. \A k \in 0..N : k \in S
    BY <1>3, <1>4, StepByStep
  <2> QED
    BY <2>1
<1>6. WalkIndex(t) \in Walks
  BY <1>2
<1>7. SubSeq(t.rows, 1, N) = t.rows /\ DOMAIN t.rows = 1..N
  BY <1>a, <1>1
<1> QED
  BY <1>2, <1>5, <1>6, <1>7

(***************************************************************************)
(* The walk over two tapes.                                                *)
(***************************************************************************)
Turns(A, T) == [i : 1..Len(A)+1, j : 1..Len(T)+1, found : Seq(Findings),
                onlyA : Seq(Rows), onlyT : Seq(Rows)]
\* Two rows of one call.
Alike(a, t) == a.req = t.req /\ a.resp = t.resp
\* Nothing to say and nothing passed over.
Empty(w) == w.found = <<>> /\ w.onlyA = <<>> /\ w.onlyT = <<>>

\* Two lists make an empty one only when both are empty.
LEMMA JoinedIs ==
  ASSUME NEW X, NEW s \in Seq(X), NEW u \in Seq(X)
  PROVE  s \o u \in Seq(X) /\ (s \o u = <<>> => s = <<>> /\ u = <<>>)
<1>1. s \o u \in Seq(X) /\ Len(s \o u) = Len(s) + Len(u)
  OBVIOUS
<1> QED
  BY <1>1

\* Rows of one request without a finding have one answer.
LEMMA CompareIs ==
  ASSUME NEW a \in Rows, NEW t \in Rows
  PROVE  /\ Compare(a, t) \in Seq(Findings)
         /\ Compare(a, t) = <<>> => a.resp = t.resp
<1>1. a.idx \in Nat
  BY DEF Rows
<1>2. /\ Finding("MISSING", a.idx, "agent") \in Findings /\ Finding("MISSING", a.idx, "tool") \in Findings
      /\ Finding("ALTERED", a.idx, Null) \in Findings
  BY <1>1, FindingIs DEF Sides
<1>3. CASE a.resp = t.resp
  <2>1. Compare(a, t) = <<>>
    BY <1>3 DEF Compare
  <2> QED
    BY <1>3, <2>1
<1>4. CASE a.resp # t.resp
  <2>1. \E f \in Findings : Compare(a, t) = <<f>>
    BY <1>2, <1>4, Zenon DEF Compare
  <2> QED
    BY <2>1
<1> QED
  BY <1>3, <1>4

\* Two rows that are walked together.
LEMMA BothIs ==
  ASSUME NEW A, NEW T, Len(A) \in Nat, Len(T) \in Nat,
         NEW w \in Turns(A, T), w.i <= Len(A), w.j <= Len(T), NEW f \in Seq(Findings)
  PROVE  /\ Both(w, f) \in Turns(A, T)
         /\ Both(w, f).i = w.i + 1 /\ Both(w, f).j = w.j + 1
         /\ Empty(Both(w, f)) => Empty(w) /\ f = <<>>
<1>a. PICK N \in Nat, M \in Nat : N = Len(A) /\ M = Len(T)
  OBVIOUS
<1>1. /\ w.i \in 1..N /\ w.j \in 1..M /\ w.found \in Seq(Findings)
      /\ w.onlyA \in Seq(Rows) /\ w.onlyT \in Seq(Rows)
  BY <1>a DEF Turns
<1>2. Both(w, f) = [i |-> w.i + 1, j |-> w.j + 1, found |-> w.found \o f,
                    onlyA |-> w.onlyA, onlyT |-> w.onlyT]
  <2>1. Both(w, f) = [w EXCEPT !.i = @ + 1, !.j = @ + 1, !.found = @ \o f]
    BY DEF Both
  <2>2. w = [i |-> w.i, j |-> w.j, found |-> w.found, onlyA |-> w.onlyA, onlyT |-> w.onlyT]
    BY DEF Turns
  <2> QED
    BY <2>1, <2>2
<1>3. w.found \o f \in Seq(Findings) /\ (w.found \o f = <<>> => w.found = <<>> /\ f = <<>>)
  BY <1>1, JoinedIs
<1>4. w.i + 1 \in 1..Len(A)+1 /\ w.j + 1 \in 1..Len(T)+1
  BY <1>a, <1>1, SMTT(30)
<1>5. Both(w, f) \in Turns(A, T)
  BY <1>1, <1>2, <1>3, <1>4 DEF Turns
<1> QED
  BY <1>2, <1>3, <1>5 DEF Empty

\* A request that is found further on leaves rows behind.
LEMMA AheadIs ==
  ASSUME NEW S \in Seq(Rows), NEW n \in 1..Len(S), NEW req, Ahead(S, n, req) # {}
  PROVE  LET m == Min(Ahead(S, n, req))
         IN  /\ n + m \in 1..Len(S)+1
             /\ SubSeq(S, n, n + m - 1) \in Seq(Rows) /\ SubSeq(S, n, n + m - 1) # <<>>
<1>1. Ahead(S, n, req) \in SUBSET Nat /\ Ahead(S, n, req) \subseteq 1..Len(S)-n
  BY DEF Ahead
<1>2. PICK m \in 1..Len(S)-n : m = Min(Ahead(S, n, req))
  BY <1>1, MinIs
<1>3. /\ n + m \in 1..Len(S)+1
      /\ SubSeq(S, n, n + m - 1) \in Seq(Rows) /\ Len(SubSeq(S, n, n + m - 1)) = m
  <2>1. n \in Nat /\ m \in Nat /\ n + m - 1 \in 1..Len(S) /\ n <= n + m - 1 /\ 1 <= n
    OBVIOUS
  <2> QED
    BY <2>1
<1> QED
  BY <1>2, <1>3

\* A turn of the walk that leaves nothing to say met two calls alike.
LEMMA TurnIs ==
  ASSUME NEW A \in Seq(Rows), NEW T \in Seq(Rows), NEW w \in Turns(A, T)
  PROVE  /\ Turn(A, T, w) \in Turns(A, T)
         /\ Empty(Turn(A, T, w)) =>
              /\ Empty(w)
              /\ \/ Turn(A, T, w) = w
                 \/ /\ w.i <= Len(A) /\ w.j <= Len(T) /\ Alike(A[w.i], T[w.j])
                    /\ Turn(A, T, w).i = w.i + 1 /\ Turn(A, T, w).j = w.j + 1
<1>1. /\ w.i \in 1..Len(A)+1 /\ w.j \in 1..Len(T)+1 /\ w.found \in Seq(Findings)
      /\ w.onlyA \in Seq(Rows) /\ w.onlyT \in Seq(Rows) /\ Len(A) \in Nat /\ Len(T) \in Nat
  BY DEF Turns
<1>2. CASE w.i > Len(A) \/ w.j > Len(T)
  <2>1. Turn(A, T, w) = w
    BY <1>2 DEF Turn
  <2> QED
    BY <2>1
<1>3. CASE ~(w.i > Len(A) \/ w.j > Len(T))
  <2>1. w.i \in 1..Len(A) /\ w.j \in 1..Len(T) /\ w.i <= Len(A) /\ w.j <= Len(T)
    BY <1>1, <1>3
  <2>2. PICK a \in Rows, t \in Rows : a = A[w.i] /\ t = T[w.j]
    BY <2>1
  <2>3. PICK da, dt : da = Ahead(A, w.i, t.req) /\ dt = Ahead(T, w.j, a.req)
    OBVIOUS
  <2> DEFINE v == Turn(A, T, w)
  <2>4. v = CASE a.req = t.req -> Both(w, Compare(a, t))
              [] a.req # t.req /\ da = {} /\ dt = {} -> Both(w, Lone(a))
              [] a.req # t.req /\ da # {} /\ (dt = {} \/ Min(da) <= Min(dt)) ->
                  [w EXCEPT !.onlyA = @ \o SubSeq(A, w.i, w.i + Min(da) - 1), !.i = @ + Min(da)]
              [] OTHER ->
                  [w EXCEPT !.onlyT = @ \o SubSeq(T, w.j, w.j + Min(dt) - 1), !.j = @ + Min(dt)]
    BY <1>3, <2>2, <2>3 DEF Turn
  <2> HIDE DEF v
  <2>5. CASE a.req = t.req
    <3>1. v = Both(w, Compare(a, t))
      BY <2>4, <2>5
    <3>2. Compare(a, t) \in Seq(Findings) /\ (Compare(a, t) = <<>> => a.resp = t.resp)
      BY CompareIs
    <3>3. /\ v \in Turns(A, T) /\ v.i = w.i + 1 /\ v.j = w.j + 1
          /\ Empty(v) => Empty(w) /\ Compare(a, t) = <<>>
      BY <1>1, <2>1, <3>1, <3>2, BothIs
    <3>4. Empty(v) => Alike(A[w.i], T[w.j])
      BY <2>2, <2>5, <3>2, <3>3 DEF Alike
    <3> QED
      BY <2>1, <3>3, <3>4 DEF v
  <2>6. CASE a.req # t.req /\ da = {} /\ dt = {}
    <3>1. v = Both(w, Lone(a))
      BY <2>4, <2>6
    <3>2. Lone(a) \in Seq(Findings) /\ Lone(a) # <<>>
      <4>1. a.idx \in Nat
        BY DEF Rows
      <4>2. Finding("ALTERED", a.idx, Null) \in Findings
        BY <4>1, FindingIs
      <4> QED
        BY <4>2 DEF Lone
    <3>3. v \in Turns(A, T) /\ ~Empty(v)
      BY <1>1, <2>1, <3>1, <3>2, BothIs
    <3> QED
      BY <3>3 DEF v
  <2>7. CASE a.req # t.req /\ da # {} /\ (dt = {} \/ Min(da) <= Min(dt))
    <3>1. PICK m : m = Min(da)
      OBVIOUS
    <3>2. PICK s : s = SubSeq(A, w.i, w.i + m - 1)
      OBVIOUS
    <3>3. v = [w EXCEPT !.onlyA = @ \o s, !.i = @ + m]
      BY <2>4, <2>7, <3>1, <3>2
    <3>4. w.i + m \in 1..Len(A)+1 /\ s \in Seq(Rows) /\ s # <<>>
      BY <2>1, <2>3, <2>7, <3>1, <3>2, AheadIs
    <3>5. w.onlyA \o s \in Seq(Rows) /\ w.onlyA \o s # <<>>
      BY <1>1, <3>4, JoinedIs
    <3>6. v = [i |-> w.i + m, j |-> w.j, found |-> w.found, onlyA |-> w.onlyA \o s, onlyT |-> w.onlyT]
      BY <3>3 DEF Turns
    <3>7. v \in Turns(A, T) /\ ~Empty(v)
      BY <1>1, <3>4, <3>5, <3>6 DEF Turns, Empty
    <3> QED
      BY <3>7 DEF v
  <2>8. CASE a.req # t.req /\ ~(da = {} /\ dt = {}) /\ ~(da # {} /\ (dt = {} \/ Min(da) <= Min(dt)))
    <3>1. PICK m : m = Min(dt)
      OBVIOUS
    <3>2. PICK s : s = SubSeq(T, w.j, w.j + m - 1)
      OBVIOUS
    <3>3. v = [w EXCEPT !.onlyT = @ \o s, !.j = @ + m]
      BY <2>4, <2>8, <3>1, <3>2
    <3>4. w.j + m \in 1..Len(T)+1 /\ s \in Seq(Rows) /\ s # <<>>
      BY <2>1, <2>3, <2>8, <3>1, <3>2, AheadIs
    <3>5. w.onlyT \o s \in Seq(Rows) /\ w.onlyT \o s # <<>>
      BY <1>1, <3>4, JoinedIs
    <3>6. v = [i |-> w.i, j |-> w.j + m, found |-> w.found, onlyA |-> w.onlyA, onlyT |-> w.onlyT \o s]
      BY <3>3 DEF Turns
    <3>7. v \in Turns(A, T) /\ ~Empty(v)
      BY <1>1, <3>4, <3>5, <3>6 DEF Turns, Empty
    <3> QED
      BY <3>7 DEF v
  <2> QED
    BY <2>5, <2>6, <2>7, <2>8
<1> QED
  BY <1>2, <1>3

\* What a walk leaves, and what moving rows makes of it.
Moves == [i : Nat, j : Nat, found : Seq(Findings), onlyA : Seq(Rows), onlyT : Seq(Rows)]

\* The walk before the first turn.
TurnStart == [i |-> 1, j |-> 1, found |-> <<>>, onlyA |-> <<>>, onlyT |-> <<>>]

\* The walk of two lists, turn by turn.
LEMMA TurnsRun ==
  ASSUME NEW A \in Seq(Rows), NEW T \in Seq(Rows)
  PROVE  \E N \in Nat : \E w \in [0..N -> Turns(A, T)] :
           /\ w[0] = TurnStart
           /\ \A k \in 1..N : w[k] = Turn(A, T, w[k-1])
           /\ Pair(A, T) = [w[N] EXCEPT !.onlyA = @ \o SubSeq(A, w[N].i, Len(A)),
                                        !.onlyT = @ \o SubSeq(T, w[N].j, Len(T))]
<1> PICK N \in Nat : N = Len(A) + Len(T)
  OBVIOUS
<1> DEFINE V == Turns(A, T)
           After(w) == Turn(A, T, w)
           h == [k \in 1..N |-> [w \in V |-> After(w)]]
           Is(w) == w = [k \in 0..N |-> IF k = 0 THEN TurnStart ELSE After(w[k-1])]
<1>2. TurnStart \in V
  <2>1. 1 \in 1..Len(A)+1 /\ 1 \in 1..Len(T)+1
    OBVIOUS
  <2> QED
    BY <2>1 DEF TurnStart, Turns
<1>3. \A w \in V : After(w) \in V
  BY TurnIs
<1>4. \E w : Is(w)
  <2> HIDE DEF After, V
  <2>1. h \in [1..N -> [V -> V]]
    BY <1>3
  <2>2. \A k \in 1..N, w \in V : h[k][w] = After(w)
    OBVIOUS
  <2> HIDE DEF h
  <2>3. \E w : Recursion(w, V, N, TurnStart, h)
    BY <1>2, <2>1, RecursionExists
  <2>4. PICK w \in [0..N -> V] : w[0] = TurnStart /\ \A k \in 1..N : w[k] = h[k][w[k-1]]
    BY <2>3 DEF Recursion
  <2>5. \A k \in 0..N : w[k] = IF k = 0 THEN TurnStart ELSE After(w[k-1])
    BY <2>2, <2>4, SMTT(30)
  <2>6. Is(w)
    BY <2>4, <2>5
  <2> QED
    BY <2>6
<1>5. PICK w : Is(w) /\ Pair(A, T) = [w[N] EXCEPT !.onlyA = @ \o SubSeq(A, w[N].i, Len(A)),
                                                  !.onlyT = @ \o SubSeq(T, w[N].j, Len(T))]
  <2> DEFINE c == CHOOSE w : Is(w)
  <2>1. Is(c)
    BY <1>4, Zenon
  <2>2. Pair(A, T) = [c[N] EXCEPT !.onlyA = @ \o SubSeq(A, c[N].i, Len(A)),
                                  !.onlyT = @ \o SubSeq(T, c[N].j, Len(T))]
    BY DEF Pair, TurnStart
  <2> HIDE DEF c
  <2> QED
    BY <2>1, <2>2
<1>6. w[0] = TurnStart /\ \A k \in 1..N : w[k] = After(w[k-1])
  <2> HIDE DEF After
  <2>1. Is(w)
    BY <1>5
  <2> QED
    BY <2>1, SMTT(30)
<1> DEFINE S == {k \in 0..N : w[k] \in V}
<1>7. \A k \in 0..N : k \in S
  <2> HIDE DEF After, V
  <2>1. 0 \in S
    BY <1>2, <1>6
  <2>2. \A k \in 1..N : k-1 \in S => k \in S
    BY <1>3, <1>6
  <2> HIDE DEF S
  <2> QED
    BY <2>1, <2>2, StepByStep
<1>8. w \in [0..N -> V]
  <2> HIDE DEF After, V
  <2> QED
    BY <1>5, <1>7
<1> HIDE DEF V
<1>9. w \in [0..N -> Turns(A, T)] /\ \A k \in 1..N : w[k] = Turn(A, T, w[k-1])
  BY <1>6, <1>8 DEF V
<1> QED
  BY <1>5, <1>6, <1>9

\* What is paired without a finding or a row left over is alike, row by row.
LEMMA PairIs ==
  ASSUME NEW A \in Seq(Rows), NEW T \in Seq(Rows)
  PROVE  /\ Pair(A, T) \in Moves
         /\ Empty(Pair(A, T)) => Len(A) = Len(T) /\ \A k \in 1..Len(A) : Alike(A[k], T[k])
<1>1. PICK N \in Nat : \E w \in [0..N -> Turns(A, T)] :
           /\ w[0] = TurnStart
           /\ \A k \in 1..N : w[k] = Turn(A, T, w[k-1])
           /\ Pair(A, T) = [w[N] EXCEPT !.onlyA = @ \o SubSeq(A, w[N].i, Len(A)),
                                        !.onlyT = @ \o SubSeq(T, w[N].j, Len(T))]
  BY TurnsRun
<1>2. PICK w \in [0..N -> Turns(A, T)] :
           /\ w[0] = TurnStart
           /\ \A k \in 1..N : w[k] = Turn(A, T, w[k-1])
           /\ Pair(A, T) = [w[N] EXCEPT !.onlyA = @ \o SubSeq(A, w[N].i, Len(A)),
                                        !.onlyT = @ \o SubSeq(T, w[N].j, Len(T))]
  BY <1>1
<1> DEFINE Good(k) == Empty(w[k]) => w[k].i = w[k].j /\ \A m \in 1..w[k].i-1 : Alike(A[m], T[m])
           S == {k \in 0..N : Good(k)}
<1>3. 0 \in S
  <2>1. w[0].i = 1 /\ w[0].j = 1
    BY <1>2 DEF TurnStart
  <2>2. Good(0)
    BY <2>1
  <2> QED
    BY <2>2
<1>4. ASSUME NEW k \in 1..N, k-1 \in S PROVE k \in S
  <2>1. PICK v \in Turns(A, T) : v = w[k-1]
    BY <1>2
  <2>2. w[k] = Turn(A, T, v)
    BY <1>2, <2>1
  <2>3. SUFFICES ASSUME Empty(w[k]) PROVE Good(k)
    OBVIOUS
  <2>4. /\ Empty(v)
        /\ \/ w[k] = v
           \/ /\ Alike(A[v.i], T[v.j])
              /\ w[k].i = v.i + 1 /\ w[k].j = v.j + 1
    BY <2>2, <2>3, TurnIs
  <2>5. v.i = v.j /\ \A m \in 1..v.i-1 : Alike(A[m], T[m])
    BY <1>4, <2>1, <2>4
  <2>6. v.i \in Nat /\ v.i >= 1
    BY DEF Turns
  <2>7. CASE w[k] = v
    BY <2>5, <2>7
  <2>8. CASE Alike(A[v.i], T[v.j]) /\ w[k].i = v.i + 1 /\ w[k].j = v.j + 1
    <3>1. \A m \in 1..v.i : Alike(A[m], T[m])
      BY <2>5, <2>6, <2>8
    <3>2. w[k].i - 1 = v.i /\ w[k].i = w[k].j
      BY <2>5, <2>6, <2>8
    <3> QED
      BY <3>1, <3>2
  <2> QED
    BY <2>4, <2>7, <2>8
<1>5. N \in S
  <2> HIDE DEF S
  <2>1. \A k \in 0..N : k \in S
    BY <1>3, <1>4, StepByStep
  <2> QED
    BY <2>1
<1>6. Good(N)
  BY <1>5
<1>7. PICK u \in Turns(A, T) : u = w[N]
  BY <1>2
<1>8. /\ u.i \in 1..Len(A)+1 /\ u.j \in 1..Len(T)+1 /\ u.found \in Seq(Findings)
      /\ u.onlyA \in Seq(Rows) /\ u.onlyT \in Seq(Rows) /\ Len(A) \in Nat /\ Len(T) \in Nat
  BY SMTT(30) DEF Turns
<1>9. PICK p : p = Pair(A, T)
  OBVIOUS
<1>10. p = [i |-> u.i, j |-> u.j, found |-> u.found, onlyA |-> u.onlyA \o SubSeq(A, u.i, Len(A)),
            onlyT |-> u.onlyT \o SubSeq(T, u.j, Len(T))]
  <2>1. p = [u EXCEPT !.onlyA = @ \o SubSeq(A, u.i, Len(A)), !.onlyT = @ \o SubSeq(T, u.j, Len(T))]
    BY <1>2, <1>7, <1>9
  <2> QED
    BY <2>1 DEF Turns
<1>11. ASSUME NEW X \in Seq(Rows), NEW n \in 1..Len(X)+1
       PROVE  SubSeq(X, n, Len(X)) \in Seq(Rows) /\ (SubSeq(X, n, Len(X)) = <<>> => n = Len(X) + 1)
  <2>1. n \in Nat /\ Len(X) \in Nat /\ n >= 1 /\ n <= Len(X) + 1
    OBVIOUS
  <2>2. Len(SubSeq(X, n, Len(X))) = IF n <= Len(X) THEN Len(X) - n + 1 ELSE 0
    BY <2>1
  <2>3. SubSeq(X, n, Len(X)) \in Seq(Rows)
    BY <2>1
  <2>4. n <= Len(X) => Len(SubSeq(X, n, Len(X))) > 0
    BY <2>1, <2>2
  <2>5. SubSeq(X, n, Len(X)) = <<>> => ~(n <= Len(X))
    BY <2>4
  <2> QED
    BY <2>1, <2>3, <2>5
<1>12. /\ SubSeq(A, u.i, Len(A)) \in Seq(Rows) /\ (SubSeq(A, u.i, Len(A)) = <<>> => u.i = Len(A) + 1)
       /\ SubSeq(T, u.j, Len(T)) \in Seq(Rows) /\ (SubSeq(T, u.j, Len(T)) = <<>> => u.j = Len(T) + 1)
  BY <1>8, <1>11
<1>13. /\ p.found \in Seq(Findings) /\ p.onlyA \in Seq(Rows) /\ p.onlyT \in Seq(Rows)
       /\ Empty(p) => Empty(u) /\ u.i = Len(A) + 1 /\ u.j = Len(T) + 1
  <2>1. /\ p.found = u.found /\ p.onlyA = u.onlyA \o SubSeq(A, u.i, Len(A))
        /\ p.onlyT = u.onlyT \o SubSeq(T, u.j, Len(T))
    BY <1>10
  <2> QED
    BY <1>8, <1>12, <2>1, JoinedIs, SMTT(30) DEF Empty
<1>16. p \in Moves
  <2>1. /\ p.found \in Seq(Findings) /\ p.onlyA \in Seq(Rows) /\ p.onlyT \in Seq(Rows)
    BY <1>13
  <2>2. p = [i |-> u.i, j |-> u.j, found |-> p.found, onlyA |-> p.onlyA, onlyT |-> p.onlyT]
    BY <1>10
  <2>3. u.i \in Nat /\ u.j \in Nat
    BY <1>8
  <2> QED
    BY <2>1, <2>2, <2>3 DEF Moves
<1>14. Empty(u) => u.i = u.j /\ \A m \in 1..u.i-1 : Alike(A[m], T[m])
  BY <1>6, <1>7
<1>15. Empty(p) => Len(A) = Len(T) /\ \A k \in 1..Len(A) : Alike(A[k], T[k])
  <2> SUFFICES ASSUME Empty(p) PROVE Len(A) = Len(T) /\ \A k \in 1..Len(A) : Alike(A[k], T[k])
    OBVIOUS
  <2>1. u.i = Len(A) + 1 /\ u.j = Len(T) + 1 /\ u.i = u.j
    BY <1>13, <1>14
  <2>2. u.i - 1 = Len(A) /\ Len(A) = Len(T)
    BY <1>8, <2>1
  <2> QED
    BY <1>13, <1>14, <2>2
<1> QED
  BY <1>9, <1>15, <1>16

(***************************************************************************)
(* The rows left over.                                                     *)
(***************************************************************************)
LEMMA MoveIs ==
  ASSUME NEW w \in Moves, NEW x \in Rows
  PROVE  /\ Move(w, x) \in Moves
         /\ ~(Move(w, x).found = <<>> /\ Move(w, x).onlyA = <<>>)
<1>1. /\ w.i \in Nat /\ w.j \in Nat /\ w.found \in Seq(Findings) /\ w.onlyA \in Seq(Rows)
      /\ w.onlyT \in Seq(Rows) /\ x.idx \in Nat
  BY SMTT(30) DEF Moves, Rows
<1>2. w = [i |-> w.i, j |-> w.j, found |-> w.found, onlyA |-> w.onlyA, onlyT |-> w.onlyT]
  BY DEF Moves
<1> DEFINE ys == {j \in DOMAIN w.onlyT : w.onlyT[j].req = x.req}
<1>3. CASE ys = {}
  <2>1. Move(w, x) = [w EXCEPT !.onlyA = Append(@, x)]
    BY <1>3 DEF Move
  <2>2. Move(w, x) = [i |-> w.i, j |-> w.j, found |-> w.found, onlyA |-> Append(w.onlyA, x),
                      onlyT |-> w.onlyT]
    BY <1>2, <2>1
  <2>3. Append(w.onlyA, x) \in Seq(Rows) /\ Append(w.onlyA, x) # <<>>
    BY <1>1, SMTT(30)
  <2> QED
    BY <1>1, <2>2, <2>3 DEF Moves
<1>4. CASE ys # {}
  <2> DEFINE f == Finding("ALTERED", x.idx, Null)
  <2>1. ys \subseteq 1..Len(w.onlyT) /\ ys \in SUBSET Nat
    BY <1>1
  <2>2. PICK n \in 1..Len(w.onlyT) : n = Min(ys)
    <3> HIDE DEF ys
    <3> QED
      BY <1>4, <2>1, MinIs
  <2>3. Move(w, x) = [w EXCEPT !.onlyT = RemoveAt(@, n), !.found = Append(@, f)]
    BY <1>4, <2>2 DEF Move
  <2>4. Move(w, x) = [i |-> w.i, j |-> w.j, found |-> Append(w.found, f), onlyA |-> w.onlyA,
                      onlyT |-> RemoveAt(w.onlyT, n)]
    BY <1>2, <2>3
  <2>5. RemoveAt(w.onlyT, n) \in Seq(Rows)
    <3>1. SubSeq(w.onlyT, 1, n-1) \in Seq(Rows) /\ SubSeq(w.onlyT, n+1, Len(w.onlyT)) \in Seq(Rows)
      BY <1>1
    <3> QED
      BY <3>1 DEF RemoveAt
  <2>6. f \in Findings
    BY <1>1, FindingIs
  <2>7. Append(w.found, f) \in Seq(Findings) /\ Append(w.found, f) # <<>>
    <3> HIDE DEF f
    <3> QED
      BY <1>1, <2>6
  <2> HIDE DEF f
  <2> QED
    BY <1>1, <2>4, <2>5, <2>7 DEF Moves
<1> QED
  BY <1>3, <1>4

\* Rows that are gone are findings, one for each.
LEMMA GoneIs ==
  ASSUME NEW S \in Seq(Rows), NEW s \in Sides
  PROVE  Gone(S, s) \in Seq(Findings) /\ (Gone(S, s) = <<>> => S = <<>>)
<1>1. \A k \in 1..Len(S) : S[k].idx \in Nat
  <2> TAKE k \in 1..Len(S)
  <2>1. S[k] \in Rows
    OBVIOUS
  <2> QED
    BY <2>1 DEF Rows
<1>2. \A k \in 1..Len(S) : Finding("MISSING", S[k].idx, s) \in Findings
  BY <1>1, FindingIs
<1>3. Gone(S, s) = [k \in 1..Len(S) |-> Finding("MISSING", S[k].idx, s)]
  BY DEF Gone
<1>4. Gone(S, s) \in [1..Len(S) -> Findings] /\ Len(S) \in Nat
  BY <1>2, <1>3
<1> HIDE <1>3
<1>5. Gone(S, s) \in Seq(Findings) /\ Len(Gone(S, s)) = Len(S)
  BY <1>4
<1> QED
  BY <1>5

\* The states of the walk over the N rows only the agent has, to its end.
MovesOf(A, T, p, N, w) ==
  /\ N = Len(p.onlyA)
  /\ w[0] = [p EXCEPT !.onlyA = <<>>]
  /\ \A k \in 1..N : w[k] = Move(w[k-1], p.onlyA[k])
  /\ Align(A, T) = w[N].found \o Gone(w[N].onlyA, "tool") \o Gone(w[N].onlyT, "agent")

\* The walk over the rows only the agent has exists, and Align says its end.
LEMMA MovesRun ==
  ASSUME NEW A \in Seq(Rows), NEW T \in Seq(Rows), NEW p \in Moves, p = Pair(A, T)
  PROVE  \E N \in Nat : \E w \in [0..N -> Moves] : MovesOf(A, T, p, N, w)
<1>b. p.onlyA \in Seq(Rows)
  BY DEF Moves
<1>c. PICK N \in Nat : N = Len(p.onlyA)
  BY <1>b
<1> DEFINE first == [p EXCEPT !.onlyA = <<>>]
           After(k, w) == Move(w, p.onlyA[k])
           h == [k \in 1..N |-> [w \in Moves |-> After(k, w)]]
           Is(w) == w = [k \in 0..N |-> IF k = 0 THEN first ELSE After(k, w[k-1])]
<1>2. first \in Moves
  <2>1. <<>> \in Seq(Rows)
    OBVIOUS
  <2> QED
    BY <2>1 DEF Moves
<1>3. ASSUME NEW k \in 1..N, NEW w \in Moves PROVE After(k, w) \in Moves
  <2>1. p.onlyA[k] \in Rows
    BY <1>b, <1>c
  <2> QED
    BY <2>1, MoveIs
<1>4. \E w : Is(w)
  <2> HIDE DEF After, first
  <2>1. h \in [1..N -> [Moves -> Moves]]
    BY <1>3
  <2>2. \A k \in 1..N, w \in Moves : h[k][w] = After(k, w)
    OBVIOUS
  <2> HIDE DEF h
  <2>3. \E w : Recursion(w, Moves, N, first, h)
    BY <1>2, <2>1, RecursionExists
  <2>4. PICK w \in [0..N -> Moves] : w[0] = first /\ \A k \in 1..N : w[k] = h[k][w[k-1]]
    BY <2>3 DEF Recursion
  <2>5. \A k \in 0..N : w[k] = IF k = 0 THEN first ELSE After(k, w[k-1])
    BY <2>2, <2>4
  <2>6. Is(w)
    BY <2>4, <2>5
  <2> QED
    BY <2>6
<1>5. PICK w : Is(w) /\ Align(A, T) = w[N].found \o Gone(w[N].onlyA, "tool") \o Gone(w[N].onlyT, "agent")
  <2> DEFINE c == CHOOSE w : Is(w)
  <2>1. Is(c)
    BY <1>4, Zenon
  <2>2. Align(A, T) = c[N].found \o Gone(c[N].onlyA, "tool") \o Gone(c[N].onlyT, "agent")
    BY <1>c DEF Align
  <2> HIDE DEF c
  <2> QED
    BY <2>1, <2>2
<1>6. w[0] = first /\ \A k \in 1..N : w[k] = After(k, w[k-1])
  <2> HIDE DEF After, first
  <2>1. Is(w)
    BY <1>5
  <2> QED
    BY <2>1, SMTT(30)
<1> DEFINE S == {k \in 0..N : w[k] \in Moves}
<1>7. \A k \in 0..N : k \in S
  <2> HIDE DEF After, first
  <2>1. 0 \in S
    BY <1>2, <1>6
  <2>2. \A k \in 1..N : k-1 \in S => k \in S
    BY <1>3, <1>6
  <2> HIDE DEF S
  <2> QED
    BY <2>1, <2>2, StepByStep
<1>8. w \in [0..N -> Moves]
  <2> HIDE DEF After, first
  <2> QED
    BY <1>5, <1>7
<1>9. MovesOf(A, T, p, N, w)
  BY <1>5, <1>6, <1>c DEF MovesOf
<1> QED
  BY <1>8, <1>9

\* Calls that are aligned without a finding are the same, one by one.
LEMMA AlignIs ==
  ASSUME NEW A \in Seq(Rows), NEW T \in Seq(Rows)
  PROVE  /\ Align(A, T) \in Seq(Findings)
         /\ Align(A, T) = <<>> => Len(A) = Len(T) /\ \A k \in 1..Len(A) : Alike(A[k], T[k])
<1>a. PICK p \in Moves : p = Pair(A, T)
  BY PairIs
<1>b. p.onlyA \in Seq(Rows) /\ p.onlyT \in Seq(Rows)
  BY DEF Moves
<1>1. PICK N \in Nat : \E w \in [0..N -> Moves] : MovesOf(A, T, p, N, w)
  BY <1>a, MovesRun
<1>e. PICK w \in [0..N -> Moves] : MovesOf(A, T, p, N, w)
  BY <1>1
<1>2. /\ N = Len(p.onlyA)
      /\ w[0] = [p EXCEPT !.onlyA = <<>>]
      /\ \A k \in 1..N : w[k] = Move(w[k-1], p.onlyA[k])
      /\ Align(A, T) = w[N].found \o Gone(w[N].onlyA, "tool") \o Gone(w[N].onlyT, "agent")
  BY <1>e DEF MovesOf
<1>c. \A k \in 1..N : w[k] = Move(w[k-1], p.onlyA[k])
  BY <1>2
<1>d. N = Len(p.onlyA)
  BY <1>2
<1>3. PICK m \in Moves : m = w[N]
  BY <1>2
<1>4. m.found \in Seq(Findings) /\ m.onlyA \in Seq(Rows) /\ m.onlyT \in Seq(Rows)
  BY DEF Moves
<1>5. PICK ga \in Seq(Findings) : ga = Gone(m.onlyA, "tool") /\ (ga = <<>> => m.onlyA = <<>>)
  BY <1>4, GoneIs DEF Sides
<1>6. PICK gt \in Seq(Findings) : gt = Gone(m.onlyT, "agent") /\ (gt = <<>> => m.onlyT = <<>>)
  BY <1>4, GoneIs DEF Sides
<1>7. Align(A, T) = m.found \o ga \o gt
  BY <1>2, <1>3, <1>5, <1>6
<1>8. /\ m.found \o ga \in Seq(Findings) /\ m.found \o ga \o gt \in Seq(Findings)
      /\ m.found \o ga \o gt = <<>> => m.found = <<>> /\ ga = <<>> /\ gt = <<>>
  <2>1. m.found \o ga \in Seq(Findings) /\ (m.found \o ga = <<>> => m.found = <<>> /\ ga = <<>>)
    BY <1>4, JoinedIs
  <2> QED
    BY <2>1, JoinedIs
<1>9. Align(A, T) \in Seq(Findings) /\ (Align(A, T) = <<>> => Empty(m))
  BY <1>5, <1>6, <1>7, <1>8 DEF Empty
<1>10. Empty(m) => Empty(p)
  <2> SUFFICES ASSUME Empty(m) PROVE Empty(p)
    OBVIOUS
  <2>1. CASE N = 0
    <3>1. m = [p EXCEPT !.onlyA = <<>>]
      BY <1>2, <1>3, <2>1
    <3>2. m.found = p.found /\ m.onlyT = p.onlyT
      BY <3>1 DEF Moves
    <3>3. p.onlyA = <<>>
      <4>1. PICK q \in Seq(Rows) : q = p.onlyA
        BY <1>b
      <4>2. Len(q) = 0
        BY <1>d, <2>1, <4>1
      <4> QED
        BY <4>1, <4>2
    <3> QED
      BY <3>2, <3>3 DEF Empty
  <2>2. CASE N # 0
    <3>0. N \in 1..N /\ N-1 \in 0..N
      BY <2>2
    <3>a. w[N-1] \in Moves
      BY <3>0
    <3>b. p.onlyA[N] \in Rows
      <4>1. PICK q \in Seq(Rows) : q = p.onlyA
        BY <1>b
      <4>2. N \in 1..Len(q)
        BY <1>d, <3>0, <4>1
      <4> QED
        BY <4>1, <4>2
    <3>1. N \in 1..N /\ w[N-1] \in Moves /\ p.onlyA[N] \in Rows
      BY <3>0, <3>a, <3>b
    <3>2. m = Move(w[N-1], p.onlyA[N])
      BY <1>c, <1>3, <3>1
    <3>3. ~(m.found = <<>> /\ m.onlyA = <<>>)
      BY <3>1, <3>2, MoveIs
    <3> QED
      BY <3>3 DEF Empty
  <2> QED
    BY <2>1, <2>2
<1>11. Empty(p) => Len(A) = Len(T) /\ \A k \in 1..Len(A) : Alike(A[k], T[k])
  BY <1>a, PairIs
<1> QED
  BY <1>9, <1>10, <1>11

(***************************************************************************)
(* The verdict.                                                            *)
(***************************************************************************)

\* The headline of findings is a finding against the session.
LEMMA HeadlineAccuses ==
  ASSUME NEW found \in Seq(Findings), found # <<>>
  PROVE  Headline(found) # Matched
<1> DEFINE Order(f) == 2 * f.at + (IF f.verdict = "ALTERED" THEN 0 ELSE 1)
           R == {Order(found[k]) : k \in 1..Len(found)}
           T == {k \in DOMAIN found : \A j \in DOMAIN found : ~Before(found[j], found[k])}
<1>1. \A k \in 1..Len(found) : found[k] \in Findings
  OBVIOUS
<1>2. \A f \in Findings : f.at \in Nat /\ f.verdict \in {"ALTERED", "MISSING"} /\ Order(f) \in Nat
  BY DEF Findings
<1>3. \A f, g \in Findings : Before(f, g) => Order(f) < Order(g)
  <2> TAKE f, g \in Findings
  <2>1. PICK a, b \in Nat : a = f.at /\ b = g.at
    BY <1>2
  <2>2. PICK c, d \in {0, 1} : /\ Order(f) = 2 * a + c /\ Order(g) = 2 * b + d
                               /\ f.verdict = "ALTERED" <=> c = 0
                               /\ g.verdict = "ALTERED" <=> d = 0
    BY <2>1
  <2>3. Before(f, g) => a < b \/ (a = b /\ c = 0 /\ d = 1)
    BY <2>1, <2>2 DEF Before
  <2>4. a < b \/ (a = b /\ c = 0 /\ d = 1) => 2 * a + c < 2 * b + d
    OBVIOUS
  <2> QED
    BY <2>2, <2>3, <2>4
<1>4. 1 \in 1..Len(found) /\ DOMAIN found = 1..Len(found)
  OBVIOUS
<1> HIDE DEF Order
<1>5. R \in SUBSET Nat /\ R # {}
  BY <1>1, <1>2, <1>4
<1>6. PICK x \in R : \A y \in R : x <= y
  <2> HIDE DEF R
  <2> QED
    BY <1>5, LeastOf, Zenon
<1>7. PICK k \in 1..Len(found) : x = Order(found[k])
  BY <1>6
<1>8. k \in T
  <2>1. ASSUME NEW j \in 1..Len(found) PROVE ~Before(found[j], found[k])
    <3>1. Order(found[k]) <= Order(found[j]) /\ Order(found[k]) \in Nat /\ Order(found[j]) \in Nat
      BY <1>1, <1>2, <1>6, <1>7
    <3>2. ~(Order(found[j]) < Order(found[k]))
      BY <3>1
    <3> QED
      BY <1>1, <1>3, <3>2
  <2> QED
    BY <1>4, <2>1
<1>9. T \in SUBSET Nat /\ T # {}
  BY <1>4, <1>8
<1>10. PICK n \in 1..Len(found) : n = Min(T)
  <2>1. Min(T) \in T
    <3> HIDE DEF T
    <3> QED
      BY <1>9, MinIs
  <2> QED
    BY <1>4, <2>1
<1>11. PICK f \in Findings : f = found[n]
  BY <1>1
<1>12. Headline(found) = f \/ Headline(found) = [f EXCEPT !.side = "both"]
  BY <1>10, <1>11 DEF Headline
<1>13. Headline(found).verdict = f.verdict
  BY <1>12 DEF Findings
<1>14. Matched.verdict = "MATCHED"
  BY DEF Matched, Finding
<1> QED
  BY <1>2, <1>13, <1>14

\* What can happen to a file, and what a pin says.
Damages == {Whole} \cup [kind : {"gone", "alien", "edited"}, line : Nat]
Pins == [rows : Nat, chain : Seq(Rows)]

\* The invariant: everything has its type, a pin names as many rows as it has,
\* and they are the first that were written.
SessionKept ==
  /\ tape \in [Sides -> Seq(Rows)] /\ wrote \in [Sides -> Seq(Rows)]
  /\ next \in [Sides -> Nat] /\ damage \in [Sides -> Damages]
  /\ given \in Sides \X Sides /\ pins \in [Sides -> Pins]
  /\ \A s \in Sides : pins[s].rows = Len(pins[s].chain) /\ IsPrefix(pins[s].chain, wrote[s])

\* What _load gives of a file.
LEMMA LoadIs ==
  ASSUME NEW s \in Sides, tape \in [Sides -> Seq(Rows)], damage \in [Sides -> Damages]
  PROVE  /\ LoadTape(s) \in Tapes
         /\ Readable(LoadTape(s)) =>
              /\ damage[s] = Whole /\ LoadTape(s).rows = tape[s]
              /\ LoadTape(s).side = (IF tape[s] = <<>> THEN Null ELSE s)
              /\ LoadTape(s).ns = LoadTape(s).side
<1>1. PICK d \in Damages : d = damage[s]
  OBVIOUS
<1>2. PICK rs \in Seq(Rows) : rs = tape[s]
  OBVIOUS
<1>3. d = Whole \/ (d.kind \in {"gone", "alien", "edited"} /\ d.line \in Nat)
  BY DEF Damages
<1>4. Whole.kind = "whole"
  BY DEF Whole
<1> DEFINE known == IF \/ d.kind = "gone" \/ rs = <<>>
                       \/ (d.kind = "alien" /\ d.line = 1) THEN Null ELSE s
           ns == IF d.kind = "edited" THEN Null ELSE known
           rows == IF d.kind = "whole" THEN rs ELSE <<>>
           broken == d.kind = "edited"
           refused == d.kind \in {"gone", "alien"}
           found == IF d.kind = "edited" THEN <<Finding("ALTERED", d.line, s)>> ELSE <<>>
<1>5. LoadTape(s) = [file |-> s, side |-> known, ns |-> ns, rows |-> rows, broken |-> broken,
                     refused |-> refused, found |-> found]
  BY <1>1, <1>2 DEF LoadTape
<1>6. known \in Sides \cup {Null} /\ ns \in Sides \cup {Null}
  OBVIOUS
<1>7. rows \in Seq(Rows)
  OBVIOUS
<1>8. broken \in BOOLEAN /\ refused \in BOOLEAN
  OBVIOUS
<1>9. found \in Seq(Findings)
  <2>1. CASE d.kind = "edited"
    <3>1. d.line \in Nat
      BY <1>3, <1>4, <2>1
    <3>2. PICK f \in Findings : f = Finding("ALTERED", d.line, s)
      BY <3>1, FindingIs
    <3>3. found = <<f>>
      BY <2>1, <3>2
    <3> QED
      BY <3>3
  <2>2. CASE d.kind # "edited"
    BY <2>2
  <2> QED
    BY <2>1, <2>2
<1> HIDE DEF found
<1>10. LoadTape(s) \in Tapes
  BY <1>5, <1>6, <1>7, <1>8, <1>9 DEF Tapes
<1>11. ASSUME ~refused, ~broken
       PROVE  d = Whole /\ rows = rs /\ known = (IF rs = <<>> THEN Null ELSE s) /\ ns = known
  BY <1>3, <1>4, <1>11
<1>13. /\ LoadTape(s).rows = rows /\ LoadTape(s).side = known /\ LoadTape(s).ns = ns
       /\ LoadTape(s).refused = refused /\ LoadTape(s).broken = broken
  BY <1>5
<1>12. Readable(LoadTape(s)) => ~refused /\ ~broken
  <2> HIDE DEF refused, broken
  <2> QED
    BY <1>13 DEF Readable
<1> HIDE DEF known, ns, rows, refused, broken
<1> QED
  BY <1>1, <1>2, <1>10, <1>11, <1>12, <1>13

\* A tape that is named by the other one is the same tape.
LEMMA NamedIs ==
  ASSUME NEW t \in Tapes, NEW o \in Tapes
  PROVE  /\ Named(t, o) \in Tapes
         /\ Named(t, o).rows = t.rows /\ Named(t, o).ns = t.ns
         /\ Named(t, o).refused = t.refused /\ Named(t, o).broken = t.broken
         /\ Readable(t) /\ Readable(o) =>
              Named(t, o).side = (IF t.side = Null /\ o.side # Null THEN Other(o.side) ELSE t.side)
<1>1. t = [file |-> t.file, side |-> t.side, ns |-> t.ns, rows |-> t.rows, broken |-> t.broken,
           refused |-> t.refused, found |-> t.found]
  BY DEF Tapes
<1>2. CASE Readable(t) /\ Readable(o) /\ t.side = Null /\ o.side # Null
  <2>1. PICK s \in Sides : s = Other(o.side)
    BY DEF Other, Sides
  <2>2. Named(t, o) = [t EXCEPT !.side = s]
    BY <1>2, <2>1 DEF Named
  <2>3. Named(t, o) = [file |-> t.file, side |-> s, ns |-> t.ns, rows |-> t.rows,
                       broken |-> t.broken, refused |-> t.refused, found |-> t.found]
    BY <1>1, <2>2
  <2>4. Named(t, o).side = s
    BY <2>3
  <2> QED
    BY <1>2, <2>1, <2>3, <2>4 DEF Tapes
<1>3. CASE ~(Readable(t) /\ Readable(o) /\ t.side = Null /\ o.side # Null)
  <2>1. Named(t, o) = t
    BY <1>3 DEF Named
  <2> QED
    BY <1>3, <2>1
<1> QED
  BY <1>2, <1>3

\* A tape that is as long as its pin and starts with it is the one that is not
\* found fault with.
LEMMA CheckPinIs ==
  ASSUME NEW pin \in Pins, NEW t \in Tapes
  PROVE  /\ CheckPin(pin, t) \in Seq(Findings)
         /\ Readable(t) /\ CheckPin(pin, t) = <<>> =>
              Len(t.rows) >= pin.rows /\ SubSeq(t.rows, 1, pin.rows) = pin.chain
<1>1. PICK n \in Nat, side \in Sides \cup {Null}, m \in Nat :
            n = Len(t.rows) /\ side = t.side /\ m = pin.rows
  <2>1. t.rows \in Seq(Rows) /\ t.side \in Sides \cup {Null} /\ pin.rows \in Nat
    BY DEF Tapes, Pins
  <2>2. Len(t.rows) \in Nat
    BY <2>1
  <2> QED
    BY <2>1, <2>2
<1>2. PICK f \in Findings : f = Finding("MISSING", n + 1, side)
  BY FindingIs
<1>3. PICK g \in Findings : g = Finding("ALTERED", m, side)
  BY FindingIs
<1>4. t.refused \in BOOLEAN /\ t.broken \in BOOLEAN
  BY DEF Tapes
<1>5. Readable(t) <=> ~(t.refused \/ t.broken)
  BY <1>4 DEF Readable
<1>6. CASE ~Readable(t)
  <2>1. CheckPin(pin, t) = <<>>
    BY <1>5, <1>6 DEF CheckPin
  <2> QED
    BY <1>6, <2>1
<1>7. CASE Readable(t) /\ n < m
  <2>1. CheckPin(pin, t) = <<f>>
    BY <1>1, <1>2, <1>5, <1>7 DEF CheckPin
  <2> QED
    BY <2>1
<1>8. CASE Readable(t) /\ n >= m /\ SubSeq(t.rows, 1, pin.rows) # pin.chain
  <2>1. ~(n < m)
    BY <1>8
  <2>2. CheckPin(pin, t) = <<g>>
    BY <1>1, <1>3, <1>5, <1>8, <2>1 DEF CheckPin
  <2> QED
    BY <2>2
<1>9. CASE Readable(t) /\ n >= m /\ SubSeq(t.rows, 1, pin.rows) = pin.chain
  <2>1. ~(n < m)
    BY <1>9
  <2>2. CheckPin(pin, t) = <<>>
    BY <1>1, <1>5, <1>9, <2>1 DEF CheckPin
  <2> QED
    BY <1>1, <1>9, <2>2
<1> QED
  BY <1>6, <1>7, <1>8, <1>9

\* A side's pin is held against each of its targets.
LEMMA CheckedIs ==
  ASSUME NEW s \in Sides, pins \in [Sides -> Pins], NEW a \in Tapes, NEW b \in Tapes
  PROVE  LET tapes == <<a, b>>
         IN  /\ Checked(s, tapes) \in Seq(Findings)
             /\ Checked(s, tapes) = <<>> =>
                  \A k \in 1..2 : k \in PinTargets(s, tapes) /\ pins[s] # NoPin =>
                                    CheckPin(pins[s], tapes[k]) = <<>>
<1> DEFINE tapes == <<a, b>>
           on(k) == IF pins[s] = NoPin \/ k \notin PinTargets(s, tapes) THEN <<>>
                    ELSE CheckPin(pins[s], tapes[k])
<1>1. PICK pin \in Pins : pin = pins[s]
  OBVIOUS
<1>2. tapes[1] \in Tapes /\ tapes[2] \in Tapes
  OBVIOUS
<1> HIDE DEF tapes
<1>3. on(1) \in Seq(Findings) /\ on(2) \in Seq(Findings)
  BY <1>1, <1>2, CheckPinIs
<1>4. Checked(s, tapes) = on(1) \o on(2)
  BY DEF Checked
<1>5. on(1) \o on(2) \in Seq(Findings)
      /\ (on(1) \o on(2) = <<>> => on(1) = <<>> /\ on(2) = <<>>)
  <2> HIDE DEF on
  <2> QED
    BY <1>3, JoinedIs
<1>6. ASSUME Checked(s, tapes) = <<>>, NEW k \in 1..2, k \in PinTargets(s, tapes), pins[s] # NoPin
      PROVE  CheckPin(pins[s], tapes[k]) = <<>>
  <2>1. on(k) = <<>>
    <3>1. k = 1 \/ k = 2
      OBVIOUS
    <3> HIDE DEF on
    <3> QED
      BY <1>4, <1>5, <1>6, <3>1
  <2> QED
    BY <1>6, <2>1
<1>7. Checked(s, tapes) \in Seq(Findings)
  <2> HIDE DEF on
  <2> QED
    BY <1>4, <1>5
<1>8. /\ Checked(s, tapes) \in Seq(Findings)
      /\ Checked(s, tapes) = <<>> =>
           \A k \in 1..2 : k \in PinTargets(s, tapes) /\ pins[s] # NoPin =>
                             CheckPin(pins[s], tapes[k]) = <<>>
  BY <1>6, <1>7
<1> QED
  BY <1>8 DEF tapes

\* A file that is not readable is walked as an empty one.
LEMMA WalkedIs ==
  ASSUME NEW t \in Tapes
  PROVE  Walked(t).calls \in Seq(Rows) /\ Walked(t).found \in Seq(Findings)
<1>1. CASE Readable(t)
  BY <1>1, WalkIs DEF Walked, Walks
<1>2. CASE ~Readable(t)
  <2>1. Walked(t) = [calls |-> <<>>, expect |-> 1, found |-> <<>>]
    BY <1>2 DEF Walked
  <2> QED
    BY <2>1
<1> QED
  BY <1>1, <1>2

\* What is found, in its seven parts.
LEMMA FoundIs ==
  ASSUME pins \in [Sides -> Pins], NEW t1 \in Tapes, NEW t2 \in Tapes
  PROVE  LET tapes == <<Named(t1, t2), Named(t2, t1)>>
             calls(s) == IF tapes[1].side = s THEN Walked(t1).calls ELSE Walked(t2).calls
         IN  /\ Found(t1, t2) \in Seq(Findings)
             /\ Found(t1, t2) = <<>> =>
                  /\ Walked(t1).found = <<>> /\ Walked(t2).found = <<>>
                  /\ CanAlign(t1, t2) => Align(calls("agent"), calls("tool")) = <<>>
                  /\ Checked("agent", tapes) = <<>> /\ Checked("tool", tapes) = <<>>
<1> DEFINE tapes == <<Named(t1, t2), Named(t2, t1)>>
           calls(s) == IF tapes[1].side = s THEN Walked(t1).calls ELSE Walked(t2).calls
           a == IF CanAlign(t1, t2) THEN Align(calls("agent"), calls("tool")) ELSE <<>>
<1>1. t1.found \in Seq(Findings) /\ t2.found \in Seq(Findings)
  BY DEF Tapes
<1>2. Walked(t1).found \in Seq(Findings) /\ Walked(t2).found \in Seq(Findings)
  BY WalkedIs
<1>3. a \in Seq(Findings)
  <2>1. \A s \in Sides : calls(s) \in Seq(Rows)
    BY WalkedIs
  <2>2. calls("agent") \in Seq(Rows) /\ calls("tool") \in Seq(Rows)
    <3> HIDE DEF calls
    <3> QED
      BY <2>1 DEF Sides
  <2>3. Align(calls("agent"), calls("tool")) \in Seq(Findings)
    <3> HIDE DEF calls
    <3> QED
      BY <2>2, AlignIs
  <2> HIDE DEF calls
  <2> QED
    BY <2>3
<1>4. Checked("agent", tapes) \in Seq(Findings) /\ Checked("tool", tapes) \in Seq(Findings)
  <2>1. Named(t1, t2) \in Tapes /\ Named(t2, t1) \in Tapes
    BY NamedIs
  <2> QED
    BY <2>1, CheckedIs DEF Sides
<1>5. Found(t1, t2) = t1.found \o t2.found \o Walked(t1).found \o Walked(t2).found
                      \o a \o Checked("agent", tapes) \o Checked("tool", tapes)
  BY DEF Found
<1>6. PICK p, q, r, u, v, x, y \in Seq(Findings) :
          /\ p = t1.found /\ q = t2.found /\ r = Walked(t1).found /\ u = Walked(t2).found
          /\ v = a /\ x = Checked("agent", tapes) /\ y = Checked("tool", tapes)
  <2> HIDE DEF a, tapes
  <2> QED
    BY <1>1, <1>2, <1>3, <1>4
<1>7. Found(t1, t2) = p \o q \o r \o u \o v \o x \o y
  BY <1>5, <1>6
<1>8. /\ Found(t1, t2) \in Seq(Findings)
      /\ Found(t1, t2) = <<>> => r = <<>> /\ u = <<>> /\ v = <<>> /\ x = <<>> /\ y = <<>>
  <2>1. p \o q \in Seq(Findings)
    BY JoinedIs
  <2>2. p \o q \o r \in Seq(Findings) /\ (p \o q \o r = <<>> => r = <<>>)
    BY <2>1, JoinedIs
  <2>3. p \o q \o r \o u \in Seq(Findings) /\ (p \o q \o r \o u = <<>> => p \o q \o r = <<>> /\ u = <<>>)
    BY <2>2, JoinedIs
  <2>4. p \o q \o r \o u \o v \in Seq(Findings)
        /\ (p \o q \o r \o u \o v = <<>> => p \o q \o r \o u = <<>> /\ v = <<>>)
    BY <2>3, JoinedIs
  <2>5. p \o q \o r \o u \o v \o x \in Seq(Findings)
        /\ (p \o q \o r \o u \o v \o x = <<>> => p \o q \o r \o u \o v = <<>> /\ x = <<>>)
    BY <2>4, JoinedIs
  <2>6. p \o q \o r \o u \o v \o x \o y \in Seq(Findings)
        /\ (p \o q \o r \o u \o v \o x \o y = <<>> => p \o q \o r \o u \o v \o x = <<>> /\ y = <<>>)
    BY <2>5, JoinedIs
  <2> QED
    BY <1>7, <2>2, <2>3, <2>4, <2>5, <2>6
<1>9. CanAlign(t1, t2) /\ a = <<>> => Align(calls("agent"), calls("tool")) = <<>>
  <2> HIDE DEF calls
  <2> QED
    OBVIOUS
<1>10. /\ Found(t1, t2) \in Seq(Findings)
       /\ Found(t1, t2) = <<>> =>
            /\ Walked(t1).found = <<>> /\ Walked(t2).found = <<>>
            /\ CanAlign(t1, t2) => Align(calls("agent"), calls("tool")) = <<>>
            /\ Checked("agent", tapes) = <<>> /\ Checked("tool", tapes) = <<>>
  <2> HIDE DEF calls, a, tapes
  <2> QED
    BY <1>6, <1>8, <1>9
<1> QED
  BY <1>10 DEF tapes, calls

\* MATCHED means what it says of everything the two files can be.
LEMMA MatchedMeans ==
  ASSUME SessionKept
  PROVE  MatchedIsTrue
<1> SUFFICES ASSUME Reconciled = Matched
             PROVE  /\ given[1] # given[2] /\ damage = [s \in Sides |-> Whole]
                    /\ Shown("agent") = Shown("tool")
                    /\ \A s \in Sides : /\ IsPrefix(pins[s].chain, wrote[s])
                                        /\ IsPrefix(pins[s].chain, tape[s])
                                        /\ \A k \in DOMAIN tape[s] : tape[s][k].idx = k
  BY DEF MatchedIsTrue
<1>1. /\ tape \in [Sides -> Seq(Rows)] /\ damage \in [Sides -> Damages]
      /\ pins \in [Sides -> Pins]
      /\ \A s \in Sides : pins[s].rows = Len(pins[s].chain) /\ IsPrefix(pins[s].chain, wrote[s])
  BY DEF SessionKept
<1>2. PICK a, b \in Sides : a = given[1] /\ b = given[2]
  BY DEF SessionKept
<1>3. PICK t1, t2 \in Tapes : t1 = LoadTape(a) /\ t2 = LoadTape(b)
  BY <1>1, LoadIs
<1> DEFINE tapes == <<Named(t1, t2), Named(t2, t1)>>
           calls(s) == IF tapes[1].side = s THEN Walked(t1).calls ELSE Walked(t2).calls
<1>4. Found(t1, t2) = <<>> /\ CanAlign(t1, t2)
  <2>1. Found(t1, t2) \in Seq(Findings)
    BY <1>1, FoundIs
  <2>2. Found(t1, t2) = <<>>
    <3> SUFFICES ASSUME Found(t1, t2) # <<>> PROVE FALSE
      OBVIOUS
    <3>1. Reconciled = Headline(Found(t1, t2))
      BY <1>2, <1>3 DEF Reconciled
    <3> QED
      BY <2>1, <3>1, HeadlineAccuses
  <2>3. CouldNotLook # Matched
    BY DEF CouldNotLook, Matched, Finding
  <2>4. ~CanAlign(t1, t2) => Reconciled = CouldNotLook
    BY <1>2, <1>3, <2>2 DEF Reconciled
  <2> QED
    BY <2>2, <2>3, <2>4
<1>5. /\ Readable(t1) /\ Readable(t2) /\ (t1.side = Null \/ t1.side # t2.side)
      /\ (t1.rows # <<>> \/ t2.rows # <<>>)
  BY <1>4 DEF CanAlign
<1>6. /\ damage[a] = Whole /\ t1.rows = tape[a] /\ t1.ns = t1.side
      /\ t1.side = (IF tape[a] = <<>> THEN Null ELSE a)
  BY <1>1, <1>3, <1>5, LoadIs
<1>7. /\ damage[b] = Whole /\ t2.rows = tape[b] /\ t2.ns = t2.side
      /\ t2.side = (IF tape[b] = <<>> THEN Null ELSE b)
  BY <1>1, <1>3, <1>5, LoadIs
<1>8. Null # a /\ Null # b
  BY NullIsNoSide
<1>9. a # b
  BY <1>5, <1>6, <1>7, <1>8
<1>10. /\ \A s \in Sides : s = a \/ s = b
       /\ Other(a) = b /\ Other(b) = a
  BY <1>9 DEF Sides, Other
<1>11. damage = [s \in Sides |-> Whole]
  BY <1>1, <1>6, <1>7, <1>10
<1>12. PICK n1, n2 \in Tapes : n1 = Named(t1, t2) /\ n2 = Named(t2, t1)
  BY NamedIs
<1>13. n1.side = a /\ n2.side = b
  <2>1. n1.side = (IF t1.side = Null /\ t2.side # Null THEN Other(t2.side) ELSE t1.side)
    BY <1>5, <1>12, NamedIs
  <2>2. n2.side = (IF t2.side = Null /\ t1.side # Null THEN Other(t1.side) ELSE t2.side)
    BY <1>5, <1>12, NamedIs
  <2> QED
    BY <2>1, <2>2, <1>5, <1>6, <1>7, <1>8, <1>10
<1>14. /\ n1.rows = tape[a] /\ n1.ns = t1.ns /\ Readable(n1)
       /\ n2.rows = tape[b] /\ n2.ns = t2.ns /\ Readable(n2)
  <2>1. /\ n1.rows = t1.rows /\ n1.ns = t1.ns /\ n1.refused = t1.refused /\ n1.broken = t1.broken
        /\ n2.rows = t2.rows /\ n2.ns = t2.ns /\ n2.refused = t2.refused /\ n2.broken = t2.broken
    BY <1>12, NamedIs
  <2> QED
    BY <2>1, <1>5, <1>6, <1>7 DEF Readable
<1>15. tapes[1] = n1 /\ tapes[2] = n2 /\ tapes = <<n1, n2>>
  BY <1>12
<1>16. /\ Walked(t1).found = <<>> /\ Walked(t2).found = <<>>
       /\ Align(calls("agent"), calls("tool")) = <<>>
       /\ Checked("agent", <<n1, n2>>) = <<>> /\ Checked("tool", <<n1, n2>>) = <<>>
  BY <1>1, <1>4, <1>12, FoundIs
<1>17. /\ Walked(t1).calls = tape[a] /\ \A k \in DOMAIN tape[a] : tape[a][k].idx = k
       /\ Walked(t2).calls = tape[b] /\ \A k \in DOMAIN tape[b] : tape[b][k].idx = k
  <2>1. Walked(t1) = WalkIndex(t1) /\ Walked(t2) = WalkIndex(t2)
    BY <1>5 DEF Walked
  <2> QED
    BY <2>1, <1>6, <1>7, <1>16, WalkIs
<1>18. calls("agent") = tape["agent"] /\ calls("tool") = tape["tool"]
  <2>1. (a = "agent" /\ b = "tool") \/ (a = "tool" /\ b = "agent")
    BY <1>9 DEF Sides
  <2> QED
    BY <2>1, <1>13, <1>15, <1>17
<1>19. Shown("agent") = Shown("tool")
  <2>1. PICK A, T \in Seq(Rows) : A = tape["agent"] /\ T = tape["tool"]
    BY <1>1 DEF Sides
  <2>2. Len(A) = Len(T) /\ \A k \in 1..Len(A) : Alike(A[k], T[k])
    <3>1. Align(A, T) = <<>>
      <4> HIDE DEF calls
      <4> QED
        BY <1>16, <1>18, <2>1
    <3> QED
      BY <3>1, AlignIs
  <2>3. /\ Shown("agent") = [k \in 1..Len(A) |-> [req |-> A[k].req, resp |-> A[k].resp]]
        /\ Shown("tool") = [k \in 1..Len(A) |-> [req |-> T[k].req, resp |-> T[k].resp]]
    BY <2>1, <2>2 DEF Shown
  <2>4. \A k \in 1..Len(A) : A[k].req = T[k].req /\ A[k].resp = T[k].resp
    BY <2>2 DEF Alike
  <2> QED
    BY <2>3, <2>4
<1>20. ASSUME NEW s \in Sides PROVE IsPrefix(pins[s].chain, tape[s])
  <2>1. PICK pin \in Pins, S \in Seq(Rows) : pin = pins[s] /\ S = tape[s]
    BY <1>1
  <2>2. pin.rows = Len(pin.chain) /\ pin.chain \in Seq(Rows)
    BY <1>1, <2>1 DEF Pins
  <2>3. PICK c \in Seq(Rows) : c = pin.chain
    BY <2>2
  <2>4. CASE pin = NoPin
    <3>1. c = <<>>
      BY <2>3, <2>4 DEF NoPin
    <3>2. Len(c) <= Len(S) /\ SubSeq(c, 1, Len(c)) = SubSeq(S, 1, Len(c))
      BY <3>1
    <3> QED
      BY <2>1, <2>3, <3>2 DEF IsPrefix
  <2>5. CASE pin # NoPin
    <3>1. PICK k \in 1..2 : <<a, b>>[k] = s
      BY <1>10
    <3>2. PICK t \in Tapes : t = <<n1, n2>>[k]
      OBVIOUS
    <3>3. t.side = s /\ t.rows = S /\ Readable(t)
      BY <1>13, <1>14, <2>1, <3>1, <3>2
    <3>4. k \in PinTargets(s, <<n1, n2>>)
      <4>1. CASE bySide
        <5>1. k \in {j \in 1..2 : <<n1, n2>>[j].side = s}
          BY <3>2, <3>3
        <5> QED
          BY <4>1, <5>1 DEF PinTargets
      <4>2. CASE ~bySide
        <5>1. \A j \in 1..2 : <<n1, n2>>[j].ns = s => j = k
          BY <1>6, <1>7, <1>8, <1>9, <1>14, <3>1, NullIsNoSide
        <5> QED
          BY <4>2, <5>1 DEF PinTargets
      <4> QED
        BY <4>1, <4>2
    <3>5. Checked(s, <<n1, n2>>) = <<>>
      BY <1>16 DEF Sides
    <3>6. CheckPin(pins[s], <<n1, n2>>[k]) = <<>>
      BY <1>1, <2>1, <2>5, <3>4, <3>5, CheckedIs
    <3>7. CheckPin(pin, t) = <<>>
      BY <2>1, <3>2, <3>6
    <3>8. Len(S) >= Len(c) /\ SubSeq(S, 1, Len(c)) = c
      BY <2>2, <2>3, <3>3, <3>7, CheckPinIs
    <3>9. SubSeq(c, 1, Len(c)) = c
      OBVIOUS
    <3> QED
      BY <2>1, <2>3, <3>8, <3>9 DEF IsPrefix
  <2> QED
    BY <2>4, <2>5
<1>21. given[1] # given[2]
  BY <1>2, <1>9
<1> HIDE DEF calls, tapes
<1> QED
  BY <1>1, <1>10, <1>11, <1>17, <1>19, <1>20, <1>21

(***************************************************************************)
(* Every step keeps the invariant.                                         *)
(***************************************************************************)

\* A start of a tape is a start of what it grows to.
LEMMA StartOfMore ==
  ASSUME NEW c \in Seq(Rows), NEW S \in Seq(Rows), NEW r \in Seq(Rows), IsPrefix(c, S)
  PROVE  IsPrefix(c, S \o r)
<1>1. Len(c) <= Len(S) /\ SubSeq(c, 1, Len(c)) = SubSeq(S, 1, Len(c))
  BY DEF IsPrefix
<1>2. Len(c) \in Nat /\ Len(S) \in Nat /\ Len(S \o r) \in Nat /\ Len(S) <= Len(S \o r)
  OBVIOUS
<1>3. SubSeq(S, 1, Len(c)) = SubSeq(S \o r, 1, Len(c))
  BY <1>1
<1>4. Len(c) <= Len(S \o r)
  BY <1>1, <1>2
<1> QED
  BY <1>1, <1>3, <1>4 DEF IsPrefix

\* What a recorder writes is a row.
LEMMA RowIs ==
  ASSUME NEW k \in Nat, NEW req \in Requests \cup {Garbled}, NEW resp \in Answers \cup {Null}
  PROVE  Row(k, req, resp) \in Rows
BY DEF Row, Rows

\* The rows of both recorders.
LEMMA Calls2Is ==
  ASSUME NEW as \in Seq(Rows), NEW ts \in Seq(Rows)
  PROVE  \A s \in Sides : Calls2(as, ts)[s] \in Seq(Rows)
<1>1. Calls2(as, ts)["agent"] = as /\ Calls2(as, ts)["tool"] = ts
  BY DEF Calls2
<1> QED
  BY <1>1 DEF Sides

\* A recorder only counts up.
LEMMA CountedKept ==
  ASSUME next \in [Sides -> Nat], NEW a \in Nat, NEW t \in Nat, Counted(a, t)
  PROVE  next' \in [Sides -> Nat]
<1>1. next.agent \in Nat /\ next.tool \in Nat
  BY DEF Sides
<1>2. PICK x, y \in Nat : x = next.agent + a /\ y = next.tool + t
  BY <1>1
<1>3. next' = [agent |-> x, tool |-> y]
  BY <1>2 DEF Counted
<1> QED
  BY <1>3 DEF Sides

\* Recording a call keeps the invariant.
LEMMA RecordKept ==
  ASSUME SessionKept, NEW asked, NEW rows, \A s \in Sides : rows[s] \in Seq(Rows),
         Record(asked, rows), next' \in [Sides -> Nat]
  PROVE  SessionKept'
<1>1. /\ tape \in [Sides -> Seq(Rows)] /\ wrote \in [Sides -> Seq(Rows)]
      /\ pins \in [Sides -> Pins]
  BY DEF SessionKept
<1>2. /\ tape' = [s \in Sides |-> tape[s] \o rows[s]] /\ wrote' = tape' /\ tape = wrote
      /\ damage' = damage /\ given' = given /\ pins' = pins
  BY DEF Record, Undamaged
<1>3. \A s \in Sides : tape[s] \o rows[s] \in Seq(Rows)
  BY <1>1
<1>4. tape' \in [Sides -> Seq(Rows)] /\ wrote' \in [Sides -> Seq(Rows)]
  BY <1>2, <1>3
<1>5. ASSUME NEW s \in Sides
      PROVE  pins'[s].rows = Len(pins'[s].chain) /\ IsPrefix(pins'[s].chain, wrote'[s])
  <2>1. PICK c \in Seq(Rows) : c = pins[s].chain
    BY <1>1 DEF Pins
  <2>2. PICK S, r \in Seq(Rows) : S = wrote[s] /\ r = rows[s]
    BY <1>1
  <2>3. IsPrefix(c, S) /\ pins[s].rows = Len(c)
    BY <2>1, <2>2 DEF SessionKept
  <2>4. IsPrefix(c, S \o r)
    BY <2>3, StartOfMore
  <2>5. wrote'[s] = S \o r
    BY <1>2, <2>2
  <2> QED
    BY <1>2, <2>1, <2>3, <2>4, <2>5
<1>6. damage' \in [Sides -> Damages] /\ given' \in Sides \X Sides /\ pins' \in [Sides -> Pins]
  BY <1>2 DEF SessionKept
<1> QED
  BY <1>4, <1>5, <1>6 DEF SessionKept

\* A call keeps the invariant, however it goes wrong.
LEMMA SessionRowsKept ==
  ASSUME SessionKept, Session
  PROVE  SessionKept'
<1>1. next \in [Sides -> Nat] /\ next.agent \in Nat /\ next.tool \in Nat
  BY DEF SessionKept, Sides
<1>2. \A d \in {0, 1}, req \in Requests \cup {Garbled}, resp \in Answers \cup {Null} :
        AgentRow(d, req, resp) \in Rows /\ ToolRow(d, req, resp) \in Rows
  <2> TAKE d \in {0, 1}, req \in Requests \cup {Garbled}, resp \in Answers \cup {Null}
  <2>1. next.agent + d \in Nat /\ next.tool + d \in Nat
    BY <1>1
  <2> QED
    BY <2>1, RowIs DEF AgentRow, ToolRow
<1>3. ASSUME NEW as \in Seq(Rows), NEW ts \in Seq(Rows), NEW asked, NEW a \in Nat, NEW t \in Nat,
             Record(asked, Calls2(as, ts)), Counted(a, t)
      PROVE  SessionKept'
  BY <1>1, <1>3, Calls2Is, CountedKept, RecordKept
<1>4. \A r \in Rows : <<r>> \in Seq(Rows)
  OBVIOUS
<1>5. \A r, u \in Rows : <<r, u>> \in Seq(Rows)
  OBVIOUS
<1>6. <<>> \in Seq(Rows)
  OBVIOUS
<1>7. PICK q \in Requests, x \in Answers :
             \/ Delivered(q, x) \/ RequestLost(q) \/ AnswerLost(q, x)
             \/ RequestAltered(q, x) \/ DeliveredTwice(q, x)
             \/ \E y \in Answers : AnswerAltered(q, x, y)
             \/ \E s \in Sides : RowLost(q, x, s)
             \/ \E r \in Requests, y \in Answers : Crossed(q, r, x, y)
  BY DEF Session
<1>8. CASE Delivered(q, x)
  BY <1>2, <1>3, <1>4, <1>8 DEF Delivered
<1>9. CASE RequestLost(q)
  BY <1>2, <1>3, <1>4, <1>6, <1>9 DEF RequestLost
<1>10. CASE AnswerLost(q, x)
  BY <1>2, <1>3, <1>4, <1>10 DEF AnswerLost
<1>11. CASE RequestAltered(q, x)
  BY <1>2, <1>3, <1>4, <1>11 DEF RequestAltered
<1>12. CASE DeliveredTwice(q, x)
  BY <1>2, <1>3, <1>4, <1>5, <1>12 DEF DeliveredTwice
<1>13. CASE \E y \in Answers : AnswerAltered(q, x, y)
  BY <1>2, <1>3, <1>4, <1>13 DEF AnswerAltered
<1>14. CASE \E s \in Sides : RowLost(q, x, s)
  <2>1. PICK s \in Sides : RowLost(q, x, s)
    BY <1>14
  <2>2. \/ Record(<<q>>, Calls2(<<>>, <<ToolRow(0, q, x)>>))
        \/ Record(<<q>>, Calls2(<<AgentRow(0, q, x)>>, <<>>))
    BY <2>1 DEF RowLost
  <2>3. Counted(1, 1)
    BY <2>1 DEF RowLost
  <2> QED
    BY <1>2, <1>3, <1>4, <1>6, <2>2, <2>3
<1>15. CASE \E r \in Requests, y \in Answers : Crossed(q, r, x, y)
  BY <1>2, <1>3, <1>5, <1>15 DEF Crossed
<1> QED
  BY <1>7, <1>8, <1>9, <1>10, <1>11, <1>12, <1>13, <1>14, <1>15

\* Taking a pin keeps the invariant.
LEMMA PinKept ==
  ASSUME SessionKept, NEW s \in Sides, TakePin(s)
  PROVE  SessionKept'
<1>1. /\ tape \in [Sides -> Seq(Rows)] /\ tape = wrote /\ pins \in [Sides -> Pins]
      /\ tape' = tape /\ next' = next /\ damage' = damage /\ given' = given /\ wrote' = wrote
  BY DEF SessionKept, TakePin, Undamaged
<1>2. PICK S \in Seq(Rows) : S = tape[s]
  BY <1>1
<1>3. PICK pin \in Pins : pin = [rows |-> Len(S), chain |-> S]
  <2>1. Len(S) \in Nat
    OBVIOUS
  <2> QED
    BY <2>1 DEF Pins
<1>4. pins' = [pins EXCEPT ![s] = pin]
  BY <1>2, <1>3 DEF TakePin
<1>5. pins' \in [Sides -> Pins]
  BY <1>1, <1>4
<1>6. ASSUME NEW o \in Sides
      PROVE  pins'[o].rows = Len(pins'[o].chain) /\ IsPrefix(pins'[o].chain, wrote[o])
  <2>1. CASE o = s
    <3>1. pins'[o] = pin
      BY <1>1, <1>4, <2>1
    <3>2. pin.rows = Len(S) /\ pin.chain = S /\ wrote[o] = S
      BY <1>1, <1>2, <1>3, <2>1
    <3>3. Len(S) <= Len(S) /\ SubSeq(S, 1, Len(S)) = SubSeq(S, 1, Len(S))
      OBVIOUS
    <3> QED
      BY <3>1, <3>2, <3>3 DEF IsPrefix
  <2>2. CASE o # s
    <3>1. pins'[o] = pins[o]
      BY <1>1, <1>4, <2>2
    <3> QED
      BY <3>1 DEF SessionKept
  <2> QED
    BY <2>1, <2>2
<1> QED
  BY <1>1, <1>5, <1>6 DEF SessionKept

\* What happens to the files afterwards keeps the invariant.
LEMMA FilesKept ==
  ASSUME SessionKept, Afterwards
  PROVE  SessionKept'
<1>1. PICK s \in Sides :
                \/ \E n \in 0..Len(tape[s]) : CutTail(s, n)
                \/ \E n \in 1..Len(tape[s]), x \in Answers : Remint(s, n, x)
                \/ \E n \in 1..Len(tape[s]), k \in {"edited", "alien"} : Harm(s, k, n)
                \/ Harm(s, "gone", 1)
                \/ NamedTwice(s)
  BY DEF Afterwards
<1>2. PICK S \in Seq(Rows) : S = tape[s]
  BY DEF SessionKept
<1>3. ASSUME tape' \in [Sides -> Seq(Rows)], damage' \in [Sides -> Damages],
             given' \in Sides \X Sides, KeptAs
      PROVE  SessionKept'
  BY <1>3 DEF SessionKept, KeptAs
<1>4. CASE \E n \in 0..Len(tape[s]) : CutTail(s, n)
  <2>1. PICK n \in 0..Len(S) : CutTail(s, n)
    BY <1>2, <1>4
  <2>2. SubSeq(S, 1, n) \in Seq(Rows)
    OBVIOUS
  <2>3. tape' = [tape EXCEPT ![s] = SubSeq(S, 1, n)] /\ damage' = damage /\ given' = given /\ KeptAs
    BY <1>2, <2>1 DEF CutTail
  <2>4. tape' \in [Sides -> Seq(Rows)]
    BY <2>2, <2>3 DEF SessionKept
  <2> QED
    BY <1>3, <2>3, <2>4 DEF SessionKept
<1>5. CASE \E n \in 1..Len(tape[s]), x \in Answers : Remint(s, n, x)
  <2>1. PICK n \in 1..Len(S), x \in Answers : Remint(s, n, x)
    BY <1>2, <1>5
  <2>2. tape' = [tape EXCEPT ![s][n].resp = x] /\ damage' = damage /\ given' = given /\ KeptAs
    BY <2>1 DEF Remint
  <2>3. PICK r \in Rows : r = [S[n] EXCEPT !.resp = x]
    <3>1. S[n] \in Rows
      OBVIOUS
    <3> QED
      BY <3>1 DEF Rows
  <2>4. [S EXCEPT ![n] = r] \in Seq(Rows)
    OBVIOUS
  <2>5. tape' = [tape EXCEPT ![s] = [S EXCEPT ![n] = r]]
    BY <1>2, <2>2, <2>3
  <2>6. tape' \in [Sides -> Seq(Rows)]
    BY <2>4, <2>5 DEF SessionKept
  <2> QED
    BY <1>3, <2>2, <2>6 DEF SessionKept
<1>6. ASSUME NEW n \in Nat, NEW k \in {"gone", "edited", "alien"}, Harm(s, k, n)
      PROVE  SessionKept'
  <2>1. PICK d \in Damages : d = [kind |-> k, line |-> n]
    BY DEF Damages
  <2>2. damage' = [damage EXCEPT ![s] = d] /\ tape' = tape /\ given' = given /\ KeptAs
    BY <1>6, <2>1 DEF Harm
  <2>3. damage' \in [Sides -> Damages]
    BY <2>2 DEF SessionKept
  <2> QED
    BY <1>3, <2>2, <2>3 DEF SessionKept
<1>7. CASE \E n \in 1..Len(tape[s]), k \in {"edited", "alien"} : Harm(s, k, n)
  <2>1. PICK n \in 1..Len(S), k \in {"edited", "alien"} : Harm(s, k, n)
    BY <1>2, <1>7
  <2>2. n \in Nat
    OBVIOUS
  <2> QED
    BY <1>6, <2>1, <2>2
<1>8. CASE Harm(s, "gone", 1)
  BY <1>6, <1>8
<1>9. CASE NamedTwice(s)
  <2>1. given' = <<s, s>> /\ tape' = tape /\ damage' = damage /\ KeptAs
    BY <1>9 DEF NamedTwice
  <2> QED
    BY <1>3, <2>1 DEF SessionKept
<1> QED
  BY <1>1, <1>4, <1>5, <1>7, <1>8, <1>9

\* The invariant holds at the start.
LEMMA SessionStarts == SessionInit => SessionKept
<1> SUFFICES ASSUME SessionInit PROVE SessionKept
  OBVIOUS
<1>1. <<>> \in Seq(Rows) /\ Whole \in Damages /\ given \in Sides \X Sides
  BY DEF SessionInit, Damages, Sides
<1>2. NoPin \in Pins /\ NoPin.rows = 0 /\ NoPin.chain = <<>>
  BY DEF NoPin, Pins
<1>3. /\ tape \in [Sides -> Seq(Rows)] /\ wrote \in [Sides -> Seq(Rows)]
      /\ next \in [Sides -> Nat] /\ damage \in [Sides -> Damages] /\ pins \in [Sides -> Pins]
  BY <1>1, <1>2 DEF SessionInit
<1>4. IsPrefix(<<>>, <<>>)
  BY DEF IsPrefix
<1>5. ASSUME NEW s \in Sides
      PROVE  pins[s].rows = Len(pins[s].chain) /\ IsPrefix(pins[s].chain, wrote[s])
  <2>1. pins[s] = NoPin /\ wrote[s] = <<>>
    BY DEF SessionInit
  <2> QED
    BY <1>2, <1>4, <2>1
<1> QED
  BY <1>1, <1>3, <1>5 DEF SessionKept

\* MATCHED is never said of tapes that differ in a call or its order, of a
\* recorder that lost a row, or of a tape that lost or changed a row it was
\* pinned with: reconcile(), over every session and every damage.
THEOREM MatchedIsMeant == SessionSpec => []MatchedIsTrue
<1>1. SessionInit => SessionKept
  BY SessionStarts
<1>2. SessionKept /\ [SessionNext]_sessionVars => SessionKept'
  <2> SUFFICES ASSUME SessionKept, [SessionNext]_sessionVars PROVE SessionKept'
    OBVIOUS
  <2>1. CASE Session
    BY <2>1, SessionRowsKept
  <2>2. CASE \E s \in Sides : TakePin(s)
    BY <2>2, PinKept
  <2>3. CASE Afterwards
    BY <2>3, FilesKept
  <2>4. CASE UNCHANGED sessionVars
    BY <2>4 DEF SessionKept, sessionVars
  <2> QED
    BY <2>1, <2>2, <2>3, <2>4 DEF SessionNext
<1>3. SessionKept => MatchedIsTrue
  BY MatchedMeans
<1> QED
  BY <1>1, <1>2, <1>3, PTL DEF SessionSpec

=============================================================================
