----------------------------- MODULE MeterTheorems -----------------------------
(***************************************************************************)
(* What Meter counts, proved for any workers, Meters, keys, entries, costs *)
(* and bounds.                                                             *)
(***************************************************************************)
EXTENDS Meter, FiniteSetTheorems, TLAPS

\* The actions Next is made of.
LEMMA Actions ==
  ASSUME Next
  PROVE  \/ \E k \in Keys, e \in Entries : Edit(k, e)
         \/ TurnMonth
         \/ \E m \in Meters : Crash(m)
         \/ \E w \in Workers, k \in Keys, cost \in Costs, record \in BOOLEAN :
              Call(w, k, cost, record)
         \/ \E w \in Workers :
              \/ StatKeys(w) \/ LoadKeys(w) \/ KeysUnreadable(w) \/ StoreCache(w)
              \/ StoreStamp(w) \/ Judge(w) \/ Deny(w) \/ Begin(w) \/ Busy(w) \/ Select(w)
              \/ OverCap(w) \/ LogGrant(w) \/ LogFails(w) \/ Commit(w) \/ CommitFails(w)
              \/ Void(w) \/ VoidFails(w)
BY DEF Next, Worker

(***************************************************************************)
(* Types.                                                                  *)
(***************************************************************************)
\* A worker that judges has a roster in front of it, and so has a Meter with a
\* stamp.
Loaded == /\ \A w \in Workers : /\ pc[w] = "cache" => call[w].doc \in Rosters
                                /\ pc[w] \in {"stamp", "judge"} => cache[MeterOf[w]] \in Rosters
          /\ \A m \in Meters : stamp[m] # -1 => cache[m] \in Rosters

\* No step makes the keys file, the month or what the Meters have of them
\* anything else.
LEMMA KeysStep == TypeOK /\ Loaded /\ [Next]_vars => KeysTyped'
<1> SUFFICES ASSUME TypeOK, Loaded, [Next]_vars PROVE KeysTyped'
  OBVIOUS
<1> USE DEF TypeOK, KeysTyped
<1>1. ASSUME NEW k \in Keys, NEW e \in Entries, Edit(k, e) PROVE KeysTyped'
  BY <1>1, BoundsAssumption DEF Edit, Rosters, Months
<1>2. CASE TurnMonth
  BY <1>2, BoundsAssumption DEF TurnMonth, Months
<1>3. ASSUME NEW m \in Meters, Crash(m) PROVE KeysTyped'
  BY <1>3, BoundsAssumption DEF Crash, Months
<1>4. ASSUME NEW w \in Workers, StoreCache(w) PROVE KeysTyped'
  BY <1>4 DEF StoreCache, Loaded, Months
<1>5. ASSUME NEW w \in Workers, StoreStamp(w) PROVE KeysTyped'
  <2>1. call[w].seen \in -1..MaxEdits
    BY <1>5 DEF StoreStamp, CallsTyped, Locals
  <2> QED
    BY <1>5, <2>1 DEF StoreStamp, Months
<1>6. CASE UNCHANGED keys
  BY <1>6 DEF keys, Months
<1>7. CASE UNCHANGED vars
  BY <1>6, <1>7 DEF vars, keys
<1> QED
  BY Actions, <1>1, <1>2, <1>3, <1>4, <1>5, <1>6, <1>7
     DEF Call, StatKeys, LoadKeys, KeysUnreadable, Judge, Deny, Begin, Busy, Select, OverCap,
         LogGrant, LogFails, Commit, CommitFails, Void, VoidFails

\* A worker goes on with the local variables c.
LEMMA GoesOn ==
  ASSUME CallsTyped, NEW w \in Workers, NEW label \in Judging \cup Open, NEW c \in Locals,
         Goto(w, label), call' = [call EXCEPT ![w] = c]
  PROVE  CallsTyped'
BY DEF CallsTyped, Goto, Judging, Open

\* It goes on with those it has.
LEMMA GoesOnAsItWas ==
  ASSUME CallsTyped, NEW w \in Workers, NEW label \in Judging \cup Open, pc[w] # "idle",
         Goto(w, label), UNCHANGED call
  PROVE  CallsTyped'
BY DEF CallsTyped, Goto, Judging, Open

\* Its call ends.
LEMMA Ends == ASSUME CallsTyped, NEW w \in Workers, End(w) PROVE CallsTyped'
BY DEF CallsTyped, End, Goto

\* What Judge leaves of the local variables c.
LEMMA Forgets ==
  ASSUME NEW c \in Locals, NEW cap \in Caps
  PROVE  [c EXCEPT !.cap = cap, !.seen = -1, !.doc = <<>>] \in Locals
<1> DEFINE none == <<>>
           unseen == -1
<1>1. none \in Rosters \cup {<<>>} /\ unseen \in -1..MaxEdits
  BY BoundsAssumption
<1> SUFFICES [c EXCEPT !.cap = cap, !.seen = unseen, !.doc = none] \in Locals
  OBVIOUS
<1> HIDE DEF none, unseen
<1> QED
  BY <1>1 DEF Locals

\* No step makes a worker's local variables anything else.
LEMMA CallsStep == TypeOK /\ Loaded /\ [Next]_vars => CallsTyped'
<1> SUFFICES ASSUME TypeOK, Loaded, [Next]_vars PROVE CallsTyped'
  OBVIOUS
<1>0. CallsTyped
  BY DEF TypeOK
<1>1. ASSUME NEW k \in Keys, NEW e \in Entries, Edit(k, e) PROVE CallsTyped'
  BY <1>0, <1>1 DEF Edit, CallsTyped
<1>2. ASSUME TurnMonth PROVE CallsTyped'
  BY <1>0, <1>2 DEF TurnMonth, CallsTyped
<1>3. ASSUME NEW m \in Meters, Crash(m) PROVE CallsTyped'
  BY <1>0, <1>3 DEF Crash, CallsTyped
<1>4. ASSUME NEW w \in Workers, NEW k \in Keys, NEW cost \in Costs, NEW record \in BOOLEAN,
            Call(w, k, cost, record) PROVE CallsTyped'
  <2> DEFINE revoked == roster[k].standing = "revoked"
             c == [key |-> k, cost |-> cost, record |-> record, month |-> month, seen |-> -1,
                   doc |-> <<>>, cap |-> NoCap, used |-> 0, revoked |-> revoked]
  <2>1. revoked \in BOOLEAN /\ month \in Months /\ -1 \in -1..MaxEdits /\ NoCap \in Caps
        /\ <<>> \in Rosters \cup {<<>>} /\ 0 \in Nat
    BY BoundsAssumption DEF TypeOK, KeysTyped, Caps
  <2>2. call' = [call EXCEPT ![w] = c] /\ Goto(w, "stat")
    BY <1>4 DEF Call
  <2>3. c \in Locals
    <3> DEFINE none == <<>>
               unseen == -1
    <3>1. none \in Rosters \cup {<<>>} /\ unseen \in -1..MaxEdits
      BY <2>1
    <3> SUFFICES [key |-> k, cost |-> cost, record |-> record, month |-> month,
                  seen |-> unseen, doc |-> none, cap |-> NoCap, used |-> 0,
                  revoked |-> revoked] \in Locals
      OBVIOUS
    <3> HIDE DEF revoked, none, unseen
    <3> QED
      BY <2>1, <3>1 DEF Locals
  <2> QED
    BY <1>0, <2>2, <2>3, GoesOn DEF Judging
<1>5. ASSUME NEW w \in Workers, StatKeys(w) PROVE CallsTyped'
  <2> DEFINE c == [call[w] EXCEPT !.seen = rev]
  <2>1. c \in Locals
    <3>1. rev \in -1..MaxEdits
      BY BoundsAssumption DEF TypeOK, KeysTyped
    <3>2. call[w] \in Locals
      BY <1>5 DEF StatKeys, TypeOK, CallsTyped
    <3> QED
      BY <3>1, <3>2 DEF Locals
  <2>2. call' = [call EXCEPT ![w] = c]
    BY <1>5 DEF StatKeys, Set
  <2> QED
    BY <1>0, <1>5, <2>1, <2>2, GoesOn DEF StatKeys, Judging
<1>6. ASSUME NEW w \in Workers, LoadKeys(w) PROVE CallsTyped'
  <2> DEFINE c == [call[w] EXCEPT !.doc = roster]
  <2>1. c \in Locals
    BY <1>6 DEF LoadKeys, TypeOK, CallsTyped, KeysTyped, Locals
  <2>2. call' = [call EXCEPT ![w] = c]
    BY <1>6 DEF LoadKeys, Set
  <2> QED
    BY <1>0, <1>6, <2>1, <2>2, GoesOn DEF LoadKeys, Judging
<1>7. ASSUME NEW w \in Workers, KeysUnreadable(w) PROVE CallsTyped'
  BY <1>0, <1>7, GoesOnAsItWas DEF KeysUnreadable, Judging, Open
<1>8. ASSUME NEW w \in Workers, StoreCache(w) PROVE CallsTyped'
  BY <1>0, <1>8, GoesOnAsItWas DEF StoreCache, Judging, Open
<1>9. ASSUME NEW w \in Workers, StoreStamp(w) PROVE CallsTyped'
  BY <1>0, <1>9, GoesOnAsItWas DEF StoreStamp, Judging, Open
<1>10. ASSUME NEW w \in Workers, Judge(w) PROVE CallsTyped'
  <2> DEFINE cap == cache[MeterOf[w]][call[w].key].cap
             c == [call[w] EXCEPT !.cap = cap, !.seen = -1, !.doc = <<>>]
  <2>1. call[w] \in Locals /\ cache[MeterOf[w]] \in Rosters
    BY <1>0, <1>10 DEF Judge, CallsTyped, Loaded
  <2>2. cap \in Caps
    BY <2>1, EntriesAssumption DEF Locals, Rosters
  <2>3. c \in Locals
    BY <2>1, <2>2, Forgets
  <2>4. call' = [call EXCEPT ![w] = c]
    BY <1>0, <1>10 DEF Judge, CallsTyped
  <2>5. Goto(w, "begin") \/ Goto(w, "deny")
    BY <1>10 DEF Judge
  <2> QED
    BY <1>0, <2>3, <2>4, <2>5, GoesOn DEF Judging
<1>11. ASSUME NEW w \in Workers, Deny(w) PROVE CallsTyped'
  BY <1>0, <1>11, Ends DEF Deny
<1>12. ASSUME NEW w \in Workers, Begin(w) PROVE CallsTyped'
  BY <1>0, <1>12, GoesOnAsItWas DEF Begin, Judging, Open
<1>13. ASSUME NEW w \in Workers, Busy(w) PROVE CallsTyped'
  BY <1>0, <1>13, Ends DEF Busy
<1>14. ASSUME NEW w \in Workers, Select(w) PROVE CallsTyped'
  <2> DEFINE used == usage[Account(w)] + IF call[w].record THEN call[w].cost ELSE 0
             c == [call[w] EXCEPT !.used = used]
  <2>1. call[w] \in Locals
    BY <1>0, <1>14 DEF Select, CallsTyped
  <2>2. used \in Nat
    <3>1. Account(w) \in Accounts /\ call[w].cost \in Nat
      BY <2>1, CostsAssumption DEF Account, Accounts, Locals
    <3>2. usage[Account(w)] \in Nat
      BY <3>1 DEF TypeOK, CountsTyped
    <3> QED
      BY <3>1, <3>2
  <2>3. c \in Locals
    BY <2>1, <2>2 DEF Locals
  <2>4. call' = [call EXCEPT ![w] = c]
    BY <1>14 DEF Select, Set
  <2>5. Goto(w, "log") \/ Goto(w, "commit")
    BY <1>14 DEF Select
  <2> QED
    BY <1>0, <2>3, <2>4, <2>5, GoesOn DEF Open
<1>15. ASSUME NEW w \in Workers, OverCap(w) PROVE CallsTyped'
  BY <1>0, <1>15, GoesOnAsItWas DEF OverCap, Judging, Open
<1>16. ASSUME NEW w \in Workers, LogGrant(w) PROVE CallsTyped'
  BY <1>0, <1>16, GoesOnAsItWas DEF LogGrant, Judging, Open
<1>17. ASSUME NEW w \in Workers, LogFails(w) PROVE CallsTyped'
  BY <1>0, <1>17, Ends DEF LogFails
<1>18. ASSUME NEW w \in Workers, Commit(w) PROVE CallsTyped'
  BY <1>0, <1>18, Ends DEF Commit
<1>19. ASSUME NEW w \in Workers, CommitFails(w) PROVE CallsTyped'
  BY <1>0, <1>19, GoesOnAsItWas DEF CommitFails, Judging, Open
<1>20. ASSUME NEW w \in Workers, Void(w) PROVE CallsTyped'
  BY <1>0, <1>20, Ends DEF Void
<1>21. ASSUME NEW w \in Workers, VoidFails(w) PROVE CallsTyped'
  BY <1>0, <1>21, Ends DEF VoidFails
<1>22. CASE UNCHANGED vars
  BY <1>0, <1>22 DEF vars, CallsTyped
<1> QED
  BY Actions, <1>1, <1>2, <1>3, <1>4, <1>5, <1>6, <1>7, <1>8, <1>9, <1>10, <1>11, <1>12, <1>13,
     <1>14, <1>15, <1>16, <1>17, <1>18, <1>19, <1>20, <1>21, <1>22

\* The account of a call is one there is, and its cost is counted.
LEMMA Accounted ==
  ASSUME NEW w \in Workers, call[w] \in Locals
  PROVE  Account(w) \in Accounts /\ call[w].cost \in Nat /\ call[w].used \in Nat
BY CostsAssumption DEF Account, Accounts, Locals

\* Adding to a count leaves a count.
LEMMA Added ==
  ASSUME NEW count \in [Accounts -> Nat], NEW a \in Accounts, NEW n \in Nat
  PROVE  Add(count, a, n) \in [Accounts -> Nat]
BY DEF Add

\* The counts stay counts.
LEMMA CountsStep == TypeOK /\ [Next]_vars => CountsTyped'
<1> SUFFICES ASSUME TypeOK, [Next]_vars PROVE CountsTyped'
  OBVIOUS
<1>0. CountsTyped /\ CallsTyped
  BY DEF TypeOK
<1>1. ASSUME NEW w \in Workers, LogGrant(w) PROVE CountsTyped'
  <2>1. call[w] \in Locals
    BY <1>0, <1>1 DEF LogGrant, CallsTyped
  <2>2. Add(grants, Account(w), call[w].cost) \in [Accounts -> Nat]
    BY <1>0, <2>1, Accounted, Added DEF CountsTyped
  <2> QED
    BY <1>0, <1>1, <2>2 DEF LogGrant, CountsTyped
<1>2. ASSUME NEW w \in Workers, LogFails(w) PROVE CountsTyped'
  <2>1. call[w] \in Locals
    BY <1>0, <1>2 DEF LogFails, CallsTyped
  <2>2. Add(grants, Account(w), call[w].cost) \in [Accounts -> Nat]
    BY <1>0, <2>1, Accounted, Added DEF CountsTyped
  <2> QED
    BY <1>0, <1>2, <2>2 DEF LogFails, CountsTyped
<1>3. ASSUME NEW w \in Workers, Commit(w) PROVE CountsTyped'
  <2>1. call[w] \in Locals
    BY <1>0, <1>3 DEF Commit, CallsTyped
  <2>2. /\ Add(granted, Account(w), call[w].cost) \in [Accounts -> Nat]
        /\ [usage EXCEPT ![Account(w)] = call[w].used] \in [Accounts -> Nat]
    BY <1>0, <2>1, Accounted, Added DEF CountsTyped
  <2> QED
    BY <1>0, <1>3, <2>2 DEF Commit, CountsTyped
<1>4. ASSUME NEW w \in Workers, Void(w) PROVE CountsTyped'
  <2>1. call[w] \in Locals
    BY <1>0, <1>4 DEF Void, CallsTyped
  <2>2. Add(voids, Account(w), call[w].cost) \in [Accounts -> Nat]
    BY <1>0, <2>1, Accounted, Added DEF CountsTyped
  <2> QED
    BY <1>0, <1>4, <2>2 DEF Void, CountsTyped
<1>5. ASSUME NEW m \in Meters, Crash(m) PROVE CountsTyped'
  <2>1. ASSUME NEW w \in Workers, pc[w] = "commit",
               usage' = [usage EXCEPT ![Account(w)] = call[w].used]
        PROVE  usage' \in [Accounts -> Nat]
    <3>1. call[w] \in Locals
      BY <1>0, <2>1 DEF CallsTyped
    <3> QED
      BY <1>0, <2>1, <3>1, Accounted DEF CountsTyped
  <2>2. UNCHANGED <<granted, grants, voids>>
    BY <1>5 DEF Crash
  <2>3. usage' \in [Accounts -> Nat]
    BY <1>0, <1>5, <2>1 DEF Crash, CountsTyped
  <2> QED
    BY <1>0, <2>2, <2>3 DEF CountsTyped
<1>6. CASE UNCHANGED store
  BY <1>0, <1>6 DEF store, CountsTyped
<1>7. CASE UNCHANGED vars
  BY <1>6, <1>7 DEF vars, store
<1> QED
  BY Actions, <1>1, <1>2, <1>3, <1>4, <1>5, <1>6, <1>7
     DEF Edit, TurnMonth, Call, StatKeys, LoadKeys, KeysUnreadable, StoreCache, StoreStamp,
         Judge, Deny, Begin, Busy, Select, OverCap, CommitFails, VoidFails

\* The counters stay counters.
LEMMA SpentStep == TypeOK /\ [Next]_vars => SpentTyped'
<1> SUFFICES ASSUME TypeOK, [Next]_vars PROVE SpentTyped'
  OBVIOUS
<1> USE DEF TypeOK, SpentTyped
<1>1. ASSUME NEW field \in {"calls", "commits", "unlogged"},
             spent' = [spent EXCEPT ![field] = @ + 1]
      PROVE  SpentTyped'
  BY <1>1
<1>2. CASE UNCHANGED spent
  BY <1>2
<1> QED
  BY Actions, <1>1, <1>2
     DEF Edit, TurnMonth, Crash, Call, StatKeys, LoadKeys, KeysUnreadable, StoreCache,
         StoreStamp, Judge, Deny, Begin, Busy, Select, OverCap, LogGrant, LogFails, Commit,
         CommitFails, Void, VoidFails, Fail, vars

\* A worker that ends its transaction goes where it likes; one that does not
\* stays in the transaction.
LEMMA Passes ==
  ASSUME CallsTyped, TxnTyped, NEW w \in Workers, NEW label, Goto(w, label),
         txn' \in {txn, w, Nobody}, txn' = w => label \in Open
  PROVE  TxnTyped'
BY WorkersAssumption DEF CallsTyped, TxnTyped, Goto

\* The transaction is one that a worker is in.
LEMMA TxnStep == TypeOK /\ [Next]_vars => TxnTyped'
<1> SUFFICES ASSUME TypeOK, [Next]_vars PROVE TxnTyped'
  OBVIOUS
<1>0. CallsTyped /\ TxnTyped
  BY DEF TypeOK
<1>1. ASSUME NEW k \in Keys, NEW e \in Entries, Edit(k, e) PROVE TxnTyped'
  BY <1>0, <1>1 DEF Edit, TxnTyped
<1>2. ASSUME TurnMonth PROVE TxnTyped'
  BY <1>0, <1>2 DEF TurnMonth, TxnTyped
<1>3. ASSUME NEW m \in Meters, Crash(m) PROVE TxnTyped'
  BY <1>0, <1>3 DEF Crash, TxnTyped
<1>4. ASSUME NEW w \in Workers, UNCHANGED txn, pc[w] \notin Open, NEW label, Goto(w, label)
      PROVE  TxnTyped'
  <2>1. txn # w
    BY <1>0, <1>4, WorkersAssumption DEF TxnTyped
  <2> QED
    BY <1>0, <1>4, <2>1, Passes
<1>5. ASSUME NEW w \in Workers, NEW label \in Open, Goto(w, label), txn' \in {txn, w, Nobody}
      PROVE  TxnTyped'
  BY <1>0, <1>5, Passes
<1>6. ASSUME NEW w \in Workers, NEW label, Goto(w, label), Free(w) PROVE TxnTyped'
  <2>1. txn' \in {txn, Nobody} /\ txn' # w
    BY <1>6, WorkersAssumption DEF Free
  <2> QED
    BY <1>0, <1>6, <2>1, Passes
<1>7. CASE UNCHANGED vars
  BY <1>0, <1>7 DEF vars, TxnTyped
<1>8. ASSUME NEW w \in Workers, NEW k \in Keys, NEW cost \in Costs, NEW record \in BOOLEAN,
             Call(w, k, cost, record)
      PROVE  TxnTyped'
  BY <1>4, <1>8 DEF Call, Open
<1>9. ASSUME NEW w \in Workers,
             \/ StatKeys(w) \/ LoadKeys(w) \/ KeysUnreadable(w) \/ StoreCache(w)
             \/ StoreStamp(w) \/ Judge(w) \/ Deny(w) \/ Busy(w)
      PROVE  TxnTyped'
  <2>1. PICK label : Goto(w, label)
    BY <1>9 DEF StatKeys, LoadKeys, KeysUnreadable, StoreCache, StoreStamp, Judge, Deny, Busy, End
  <2>2. pc[w] \notin Open /\ UNCHANGED txn
    BY <1>9 DEF StatKeys, LoadKeys, KeysUnreadable, StoreCache, StoreStamp, Judge, Deny, Busy, Open
  <2> QED
    BY <1>4, <2>1, <2>2
<1>10. ASSUME NEW w \in Workers, Begin(w) \/ Select(w) \/ LogGrant(w) PROVE TxnTyped'
  <2>1. \E label \in Open : Goto(w, label)
    BY <1>10 DEF Begin, Select, LogGrant, Open
  <2>2. txn' \in {txn, w, Nobody}
    BY <1>10 DEF Begin, Select, LogGrant
  <2> QED
    BY <1>5, <2>1, <2>2
<1>11. ASSUME NEW w \in Workers, CommitFails(w) PROVE TxnTyped'
  BY <1>5, <1>11 DEF CommitFails, Open, Free
<1>12. ASSUME NEW w \in Workers,
              OverCap(w) \/ LogFails(w) \/ Commit(w) \/ Void(w) \/ VoidFails(w)
       PROVE  TxnTyped'
  BY <1>6, <1>12 DEF OverCap, LogFails, Commit, Void, VoidFails, End
<1> QED
  BY Actions, <1>1, <1>2, <1>3, <1>7, <1>8, <1>9, <1>10, <1>11, <1>12

\* A Meter keeps the roster its workers judge by.
LEMMA LoadedStep == TypeOK /\ Loaded /\ [Next]_vars => Loaded'
<1> SUFFICES ASSUME TypeOK, Loaded, [Next]_vars PROVE Loaded'
  OBVIOUS
<1>0. KeysTyped /\ CallsTyped /\ MeterOf \in [Workers -> Meters]
  BY WorkersAssumption DEF TypeOK
<1>1. ASSUME NEW w \in Workers, NEW label, label \notin {"cache", "stamp", "judge"},
             Goto(w, label), UNCHANGED <<cache, stamp>>,
             \A v \in Workers \ {w} : call'[v] = call[v]
      PROVE  Loaded'
  BY <1>0, <1>1 DEF Loaded, Goto, CallsTyped
<1>2. ASSUME UNCHANGED <<pc, call, cache, stamp>> PROVE Loaded'
  BY <1>2 DEF Loaded
<1>3. ASSUME NEW m \in Meters, Crash(m) PROVE Loaded'
  BY <1>0, <1>3 DEF Crash, Loaded, KeysTyped, CallsTyped
<1>4. ASSUME NEW w \in Workers, NEW k \in Keys, NEW cost \in Costs, NEW record \in BOOLEAN,
             Call(w, k, cost, record)
      PROVE  Loaded'
  <2>1. \A v \in Workers \ {w} : call'[v] = call[v]
    BY <1>0, <1>4 DEF Call, CallsTyped
  <2> QED
    BY <1>1, <1>4, <2>1 DEF Call, keys
<1>5. ASSUME NEW w \in Workers, StatKeys(w) PROVE Loaded'
  <2>1. stamp[MeterOf[w]] = rev => cache[MeterOf[w]] \in Rosters
    BY <1>0, BoundsAssumption DEF Loaded, KeysTyped
  <2> QED
    BY <1>0, <1>5, <2>1 DEF StatKeys, Set, Goto, Loaded, keys, CallsTyped
<1>6. ASSUME NEW w \in Workers, LoadKeys(w) PROVE Loaded'
  <2>1. call[w] \in Locals
    BY <1>0, <1>6 DEF LoadKeys, CallsTyped
  <2>2. call'[w].doc \in Rosters
    BY <1>0, <1>6, <2>1 DEF LoadKeys, Set, Locals, CallsTyped, KeysTyped
  <2> QED
    BY <1>0, <1>6, <2>2 DEF LoadKeys, Set, Goto, Loaded, keys, CallsTyped
<1>7. ASSUME NEW w \in Workers, StoreCache(w) PROVE Loaded'
  BY <1>0, <1>7 DEF StoreCache, Goto, Loaded, CallsTyped, KeysTyped
<1>8. ASSUME NEW w \in Workers, StoreStamp(w) PROVE Loaded'
  BY <1>0, <1>8 DEF StoreStamp, Goto, Loaded, CallsTyped, KeysTyped
<1>9. ASSUME NEW w \in Workers,
             \/ KeysUnreadable(w) \/ Judge(w) \/ Deny(w) \/ Begin(w) \/ Busy(w) \/ Select(w)
             \/ OverCap(w) \/ LogGrant(w) \/ LogFails(w) \/ Commit(w) \/ CommitFails(w)
             \/ Void(w) \/ VoidFails(w)
      PROVE  Loaded'
  <2>1. \E label : label \notin {"cache", "stamp", "judge"} /\ Goto(w, label)
    BY <1>9 DEF KeysUnreadable, Judge, Deny, Begin, Busy, Select, OverCap, LogGrant, LogFails,
                Commit, CommitFails, Void, VoidFails, End
  <2>2. UNCHANGED <<cache, stamp>>
    BY <1>9 DEF KeysUnreadable, Judge, Deny, Begin, Busy, Select, OverCap, LogGrant, LogFails,
                Commit, CommitFails, Void, VoidFails, keys
  <2>3. \A v \in Workers \ {w} : call'[v] = call[v]
    BY <1>0, <1>9
       DEF KeysUnreadable, Judge, Deny, Begin, Busy, Select, OverCap, LogGrant, LogFails,
           Commit, CommitFails, Void, VoidFails, End, Set, CallsTyped
  <2> QED
    BY <1>1, <2>1, <2>2, <2>3
<1> QED
  BY Actions, <1>2, <1>3, <1>4, <1>5, <1>6, <1>7, <1>8, <1>9 DEF Edit, TurnMonth, vars

\* All of it holds at the start.
LEMMA Initially == Init => TypeOK /\ Loaded
<1> SUFFICES ASSUME Init PROVE TypeOK /\ Loaded
  OBVIOUS
<1>1. KeysTyped
  BY BoundsAssumption DEF Init, KeysTyped, Months
<1>2. CallsTyped /\ Loaded
  BY DEF Init, CallsTyped, Loaded
<1>3. CountsTyped
  BY DEF Init, CountsTyped, Zero
<1>4. SpentTyped /\ TxnTyped
  BY DEF Init, SpentTyped, TxnTyped
<1> QED
  BY <1>1, <1>2, <1>3, <1>4 DEF TypeOK

\* The types and what a Meter keeps are inductive together.
LEMMA TypesStep == TypeOK /\ Loaded /\ [Next]_vars => TypeOK' /\ Loaded'
BY KeysStep, CallsStep, CountsStep, SpentStep, TxnStep, LoadedStep DEF TypeOK

\* The database is locked by nobody that has left its transaction, and every
\* variable of Meter has its type, whatever the workers do.
THEOREM MeterTypes == Spec => []TypeOK
<1>1. TypeOK /\ Loaded /\ [Next]_vars => TypeOK' /\ Loaded'
  BY TypesStep
<1> QED
  BY Initially, <1>1, PTL DEF Spec

(***************************************************************************)
(* The count and the cap.                                                  *)
(***************************************************************************)
\* Who is about to commit has the database to itself, a cap it fits under, and
\* the count as it will be.
Holding(w) == pc[w] \in {"select", "log", "commit"} => txn = w
Capped(w) == pc[w] \in {"begin", "select", "log", "commit"} => call[w].cap # NoCap
Counted(w) ==
  pc[w] \in {"log", "commit"} =>
    /\ call[w].used = usage[Account(w)] + IF call[w].record THEN call[w].cost ELSE 0
    /\ call[w].cap # Unlimited => call[w].used <= call[w].cap
Holders == \A w \in Workers : Holding(w) /\ Capped(w) /\ Counted(w)

\* What a worker knows does not change by what others do, unless they commit.
LEMMA Undisturbed ==
  ASSUME NEW w \in Workers, Holding(w), Capped(w), Counted(w),
         pc'[w] = pc[w], call'[w] = call[w], usage' = usage, txn = w => txn' = w
  PROVE  Holding(w)' /\ Capped(w)' /\ Counted(w)'
BY DEF Holding, Capped, Counted, Account

\* Nor does it matter to one that is not in the transaction.
LEMMA Outside ==
  ASSUME NEW w \in Workers, pc'[w] \notin {"begin", "select", "log", "commit"}
  PROVE  Holding(w)' /\ Capped(w)' /\ Counted(w)'
BY DEF Holding, Capped, Counted

\* A step of w, outside of the transaction or ending it.
LEMMA Leaves ==
  ASSUME TypeOK, Holders, NEW w \in Workers, NEW label, Goto(w, label),
         label \notin {"begin", "select", "log", "commit"}, UNCHANGED usage,
         \A v \in Workers \ {w} : call'[v] = call[v], txn' = txn \/ Free(w)
  PROVE  Holders'
<1>1. Holding(w)' /\ Capped(w)' /\ Counted(w)'
  <2>1. pc'[w] = label
    BY DEF Goto, TypeOK, CallsTyped
  <2> QED
    BY <2>1, Outside
<1>2. ASSUME NEW v \in Workers \ {w} PROVE Holding(v)' /\ Capped(v)' /\ Counted(v)'
  <2>1. pc'[v] = pc[v]
    BY DEF Goto, TypeOK, CallsTyped
  <2>2. txn = v => txn' = v
    BY DEF Free
  <2> QED
    BY <2>1, <2>2, Undisturbed DEF Holders
<1> QED
  BY <1>1, <1>2 DEF Holders

\* Every step keeps what the workers in the transaction know.
LEMMA HoldersStep == TypeOK /\ Loaded /\ Holders /\ [Next]_vars => Holders'
<1> SUFFICES ASSUME TypeOK, Loaded, Holders, [Next]_vars PROVE Holders'
  OBVIOUS
<1>0. CallsTyped /\ CountsTyped /\ TxnTyped
  BY DEF TypeOK
<1>1. ASSUME UNCHANGED <<pc, call, usage, txn>> PROVE Holders'
  BY <1>1, Undisturbed DEF Holders
<1>2. ASSUME NEW m \in Meters, Crash(m) PROVE Holders'
  <2> SUFFICES ASSUME NEW v \in Workers PROVE Holding(v)' /\ Capped(v)' /\ Counted(v)'
    BY DEF Holders
  <2>1. CASE MeterOf[v] = m
    <3>1. pc'[v] = "idle"
      BY <1>2, <2>1 DEF Crash
    <3> QED
      BY <3>1, Outside
  <2>2. CASE MeterOf[v] # m
    <3>1. pc'[v] = pc[v] /\ call'[v] = call[v] /\ (txn = v => txn' = v)
      BY <1>2, <2>2 DEF Crash
    <3>2. CASE pc[v] \notin {"select", "log", "commit"}
      BY <3>1, <3>2 DEF Holders, Holding, Capped, Counted
    <3>3. CASE pc[v] \in {"select", "log", "commit"}
      <4>1. \A w \in Workers : pc[w] = "commit" => w = v
        BY <3>3 DEF Holders, Holding
      <4>2. UNCHANGED usage
        BY <1>2, <2>2, <4>1 DEF Crash
      <4> QED
        BY <3>1, <4>2, Undisturbed DEF Holders
    <3> QED
      BY <3>2, <3>3
  <2> QED
    BY <2>1, <2>2
<1>3. ASSUME NEW w \in Workers, NEW k \in Keys, NEW cost \in Costs, NEW record \in BOOLEAN,
             Call(w, k, cost, record)
      PROVE  Holders'
  <2>1. \A v \in Workers \ {w} : call'[v] = call[v]
    BY <1>0, <1>3 DEF Call, CallsTyped
  <2> QED
    BY <1>3, <2>1, Leaves DEF Call, store
<1>4. ASSUME NEW w \in Workers,
             \/ StatKeys(w) \/ LoadKeys(w) \/ KeysUnreadable(w) \/ StoreCache(w)
             \/ StoreStamp(w) \/ Deny(w) \/ Busy(w) \/ OverCap(w) \/ LogFails(w)
             \/ CommitFails(w) \/ Void(w) \/ VoidFails(w)
      PROVE  Holders'
  <2>1. \E label : label \notin {"begin", "select", "log", "commit"} /\ Goto(w, label)
    BY <1>4 DEF StatKeys, LoadKeys, KeysUnreadable, StoreCache, StoreStamp, Deny, Busy, OverCap,
                LogFails, CommitFails, Void, VoidFails, End
  <2>2. UNCHANGED usage
    BY <1>4 DEF StatKeys, LoadKeys, KeysUnreadable, StoreCache, StoreStamp, Deny, Busy, OverCap,
                LogFails, CommitFails, Void, VoidFails, store
  <2>3. \A v \in Workers \ {w} : call'[v] = call[v]
    BY <1>0, <1>4
       DEF StatKeys, LoadKeys, KeysUnreadable, StoreCache, StoreStamp, Deny, Busy, OverCap,
           LogFails, CommitFails, Void, VoidFails, End, Set, CallsTyped
  <2>4. txn' = txn \/ Free(w)
    BY <1>4 DEF StatKeys, LoadKeys, KeysUnreadable, StoreCache, StoreStamp, Deny, Busy, OverCap,
                LogFails, CommitFails, Void, VoidFails
  <2> QED
    BY <2>1, <2>2, <2>3, <2>4, Leaves
<1>5. ASSUME NEW w \in Workers, Judge(w) \/ Begin(w) \/ Select(w) \/ LogGrant(w),
             Holding(w)' /\ Capped(w)' /\ Counted(w)'
      PROVE  Holders'
  <2> SUFFICES ASSUME NEW v \in Workers \ {w} PROVE Holding(v)' /\ Capped(v)' /\ Counted(v)'
    BY <1>5 DEF Holders
  <2>1. pc'[v] = pc[v] /\ call'[v] = call[v]
    BY <1>0, <1>5 DEF Judge, Begin, Select, LogGrant, Goto, Set, CallsTyped
  <2>2. UNCHANGED usage /\ (txn = v => txn' = v)
    BY <1>5, WorkersAssumption DEF Judge, Begin, Select, LogGrant, store
  <2> QED
    BY <2>1, <2>2, Undisturbed DEF Holders
<1>6. ASSUME NEW w \in Workers, Judge(w) PROVE Holders'
  <2> DEFINE e == cache[MeterOf[w]][call[w].key]
  <2>1. call[w] \in Locals
    BY <1>0, <1>6 DEF Judge, CallsTyped
  <2>2. call'[w].cap = e.cap /\ pc'[w] = (IF Authorized(e) THEN "begin" ELSE "deny")
    BY <1>0, <1>6, <2>1 DEF Judge, Goto, CallsTyped, Locals
  <2>3. Holding(w)' /\ Capped(w)' /\ Counted(w)'
    BY <2>2 DEF Authorized, Holding, Capped, Counted
  <2> QED
    BY <1>5, <1>6, <2>3
<1>7. ASSUME NEW w \in Workers, Begin(w) PROVE Holders'
  <2>1. pc[w] = "begin" /\ pc'[w] = "select" /\ txn' = w /\ call' = call
    BY <1>0, <1>7 DEF Begin, Goto, CallsTyped
  <2>2. Holding(w)' /\ Capped(w)' /\ Counted(w)'
    BY <2>1 DEF Holders, Holding, Capped, Counted
  <2> QED
    BY <1>5, <1>7, <2>2
<1>8. ASSUME NEW w \in Workers, Select(w) PROVE Holders'
  <2> DEFINE used == usage[Account(w)] + IF call[w].record THEN call[w].cost ELSE 0
  <2>1. call[w] \in Locals /\ pc[w] = "select"
    BY <1>0, <1>8 DEF Select, CallsTyped
  <2>2. call'[w] = [call[w] EXCEPT !.used = used]
    BY <1>0, <1>8 DEF Select, Set, CallsTyped
  <2>3. /\ call'[w].used = used
        /\ \A field \in {"key", "month", "cap", "record", "cost"} :
             call'[w][field] = call[w][field]
    BY <2>1, <2>2 DEF Locals
  <2>4. /\ pc'[w] \in {"log", "commit"} /\ txn' = txn /\ usage' = usage
    BY <1>0, <1>8 DEF Select, Goto, CallsTyped, store
  <2>5. Holding(w)' /\ Capped(w)'
    BY <2>1, <2>3, <2>4 DEF Holders, Holding, Capped
  <2>6. Counted(w)'
    <3>1. call[w].cap # Unlimited => used <= call[w].cap
      <4>1. Account(w) \in Accounts /\ call[w].cost \in Nat
        BY <2>1, Accounted
      <4>2. usage[Account(w)] \in Nat
        BY <1>0, <4>1 DEF CountsTyped
      <4>3. call[w].cap # Unlimited => call[w].cap \in Nat
        BY <2>1 DEF Holders, Capped, Locals, Caps
      <4> QED
        BY <1>8, <4>1, <4>2, <4>3 DEF Select, Fits
    <3>2. Account(w)' = Account(w)
      BY <2>3 DEF Account
    <3> QED
      BY <2>3, <2>4, <3>1, <3>2 DEF Counted
  <2> QED
    BY <1>5, <1>8, <2>5, <2>6
<1>9. ASSUME NEW w \in Workers, LogGrant(w) PROVE Holders'
  <2>1. /\ pc[w] = "log" /\ pc'[w] = "commit"
        /\ UNCHANGED <<call, txn, usage>>
    BY <1>0, <1>9 DEF LogGrant, Goto, CallsTyped
  <2>2. Holding(w)' /\ Capped(w)' /\ Counted(w)'
    BY <2>1 DEF Holders, Holding, Capped, Counted, Account
  <2> QED
    BY <1>5, <1>9, <2>2
<1>10. ASSUME NEW w \in Workers, Commit(w) PROVE Holders'
  <2> SUFFICES ASSUME NEW v \in Workers PROVE Holding(v)' /\ Capped(v)' /\ Counted(v)'
    BY DEF Holders
  <2>1. CASE v = w
    <3>1. pc'[w] = "idle"
      BY <1>0, <1>10 DEF Commit, End, Goto, CallsTyped
    <3> QED
      BY <2>1, <3>1, Outside
  <2>2. CASE v # w
    <3>1. pc'[v] = pc[v] /\ call'[v] = call[v]
      BY <1>0, <1>10, <2>2 DEF Commit, End, Goto, CallsTyped
    <3>2. pc[v] \notin {"select", "log", "commit"}
      BY <1>10, <2>2 DEF Commit, Holders, Holding
    <3> QED
      BY <3>1, <3>2 DEF Holders, Holding, Capped, Counted
  <2> QED
    BY <2>1, <2>2
<1> QED
  BY Actions, <1>1, <1>2, <1>3, <1>4, <1>6, <1>7, <1>8, <1>9, <1>10
     DEF Edit, TurnMonth, vars, store

\* Between the counts a worker has committed and those it was told of, nothing
\* comes but a death.
LEMMA BilledStep ==
  TypeOK /\ Loaded /\ Holders /\ AllowancesAreBilled /\ [Next]_vars => AllowancesAreBilled'
<1> SUFFICES ASSUME TypeOK, Loaded, Holders, AllowancesAreBilled, [Next]_vars
             PROVE  AllowancesAreBilled'
  OBVIOUS
<1>0. CallsTyped /\ CountsTyped /\ SpentTyped
  BY DEF TypeOK
<1>1. ASSUME UNCHANGED <<usage, granted>>, spent'.unlogged = 0 => spent.unlogged = 0
      PROVE  AllowancesAreBilled'
  BY <1>1 DEF AllowancesAreBilled
<1>2. ASSUME NEW w \in Workers, Commit(w) PROVE AllowancesAreBilled'
  <2>1. call[w] \in Locals
    BY <1>0, <1>2 DEF Commit, CallsTyped
  <2>2. Account(w) \in Accounts /\ call[w].cost \in Nat
    BY <2>1, Accounted
  <2>3. CASE call[w].record
    <3>1. call[w].used = usage[Account(w)] + call[w].cost
      BY <1>2, <2>3 DEF Commit, Holders, Counted
    <3>2. /\ usage' = Add(usage, Account(w), call[w].cost)
          /\ granted' = Add(granted, Account(w), call[w].cost)
      BY <1>2, <2>3, <3>1 DEF Commit, Add
    <3> SUFFICES ASSUME NEW a \in Accounts
                 PROVE  granted'[a] <= usage'[a] /\ (spent'.unlogged = 0 => granted'[a] = usage'[a])
      BY DEF AllowancesAreBilled
    <3>3. granted[a] <= usage[a] /\ (spent.unlogged = 0 => granted[a] = usage[a])
      BY DEF AllowancesAreBilled
    <3>4. spent' = spent
      BY <1>2 DEF Commit
    <3> QED
      BY <1>0, <2>2, <3>2, <3>3, <3>4 DEF Add, CountsTyped
  <2>4. CASE ~call[w].record
    BY <1>1, <1>2, <2>4 DEF Commit
  <2> QED
    BY <2>3, <2>4
<1>3. ASSUME NEW m \in Meters, Crash(m) PROVE AllowancesAreBilled'
  <2>1. UNCHANGED granted /\ spent'.unlogged # 0
    BY <1>0, <1>3 DEF Crash, Fail, SpentTyped
  <2>2. ASSUME NEW w \in Workers, pc[w] = "commit", call[w].record,
               usage' = [usage EXCEPT ![Account(w)] = call[w].used], NEW a \in Accounts
        PROVE  usage[a] <= usage'[a]
    <3>1. call[w] \in Locals
      BY <1>0, <2>2 DEF CallsTyped
    <3>2. Account(w) \in Accounts /\ call[w].cost \in Nat
      BY <3>1, Accounted
    <3>3. call[w].used = usage[Account(w)] + call[w].cost
      BY <2>2 DEF Holders, Counted
    <3> QED
      BY <1>0, <2>2, <3>2, <3>3 DEF CountsTyped
  <2> SUFFICES ASSUME NEW a \in Accounts PROVE granted'[a] <= usage'[a]
    BY <2>1 DEF AllowancesAreBilled
  <2>3. usage[a] <= usage'[a] /\ usage'[a] \in Nat
    <3>1. CountsTyped'
      BY <1>3, CountsStep DEF Next
    <3>2. \/ usage' = usage
          \/ \E w \in Workers : /\ pc[w] = "commit" /\ call[w].record
                               /\ usage' = [usage EXCEPT ![Account(w)] = call[w].used]
      BY <1>3 DEF Crash
    <3>3. usage[a] \in Nat /\ usage'[a] \in Nat
      BY <1>0, <3>1 DEF CountsTyped
    <3>4. usage' = usage => usage[a] <= usage'[a]
      BY <3>3
    <3> QED
      BY <2>2, <3>2, <3>3, <3>4
  <2>4. granted[a] <= usage[a]
    BY DEF AllowancesAreBilled
  <2> QED
    BY <1>0, <2>1, <2>3, <2>4 DEF CountsTyped
<1>4. ASSUME NEW w \in Workers, LogFails(w) \/ VoidFails(w) PROVE AllowancesAreBilled'
  <2>1. UNCHANGED <<usage, granted>> /\ spent'.unlogged # 0
    BY <1>0, <1>4 DEF LogFails, VoidFails, Fail, SpentTyped, store
  <2> QED
    BY <1>1, <2>1
<1>5. ASSUME NEW w \in Workers, CommitFails(w) PROVE AllowancesAreBilled'
  <2>1. UNCHANGED <<usage, granted>> /\ spent'.unlogged = spent.unlogged
    BY <1>0, <1>5 DEF CommitFails, Fail, SpentTyped, store
  <2> QED
    BY <1>1, <2>1
<1>6. ASSUME NEW w \in Workers, NEW k \in Keys, NEW cost \in Costs, NEW record \in BOOLEAN,
             Call(w, k, cost, record)
      PROVE  AllowancesAreBilled'
  <2>1. UNCHANGED <<usage, granted>> /\ spent'.unlogged = spent.unlogged
    BY <1>0, <1>6 DEF Call, SpentTyped, store
  <2> QED
    BY <1>1, <2>1
<1>7. CASE UNCHANGED <<usage, granted, spent>>
  BY <1>1, <1>7
<1> QED
  BY Actions, <1>2, <1>3, <1>4, <1>5, <1>6, <1>7
     DEF Edit, TurnMonth, StatKeys, LoadKeys, KeysUnreadable, StoreCache, StoreStamp, Judge,
         Deny, Begin, Busy, Select, OverCap, LogGrant, Void, vars, store

\* What is allowed is under the cap: of the steps, only Commit allows anything.
LEMMA CapStep ==
  ASSUME TypeOK, Loaded, Holders, AllowancesAreBilled, [Next]_vars, NEW a \in Accounts,
         granted'[a] # granted[a]
  PROVE  \E w \in Workers : /\ pc[w] = "commit" /\ Account(w) = a
                            /\ call[w].cap # Unlimited => granted'[a] <= call[w].cap
<1>0. CallsTyped /\ CountsTyped
  BY DEF TypeOK
<1>1. PICK w \in Workers : Commit(w) /\ call[w].record
  BY Actions
     DEF Edit, TurnMonth, Crash, Call, StatKeys, LoadKeys, KeysUnreadable, StoreCache,
         StoreStamp, Judge, Deny, Begin, Busy, Select, OverCap, LogGrant, LogFails, Commit,
         CommitFails, Void, VoidFails, vars, store
<1>2. call[w] \in Locals /\ pc[w] = "commit"
  BY <1>0, <1>1 DEF Commit, CallsTyped
<1>3. Account(w) \in Accounts /\ call[w].cost \in Nat
  BY <1>2, Accounted
<1>4. granted' = Add(granted, Account(w), call[w].cost)
  BY <1>1 DEF Commit
<1>5. Account(w) = a
  BY <1>0, <1>4 DEF Add, CountsTyped
<1>6. granted'[a] = granted[a] + call[w].cost /\ granted[a] \in Nat /\ usage[a] \in Nat
  BY <1>0, <1>4, <1>5 DEF Add, CountsTyped
<1>7. granted'[a] <= call[w].used
  <2>1. call[w].used = usage[a] + call[w].cost
    BY <1>1, <1>2, <1>5 DEF Holders, Counted
  <2>2. granted[a] <= usage[a]
    BY DEF AllowancesAreBilled
  <2> QED
    BY <1>3, <1>6, <2>1, <2>2
<1>8. call[w].cap # Unlimited => call[w].used <= call[w].cap /\ call[w].cap \in Nat
  BY <1>2 DEF Holders, Counted, Capped, Locals, Caps
<1>9. call[w].used \in Nat
  BY <1>2 DEF Locals
<1> QED
  BY <1>2, <1>3, <1>5, <1>6, <1>7, <1>8, <1>9

\* The invariant both theorems below rest on.
MeterInv == TypeOK /\ Loaded /\ Holders /\ AllowancesAreBilled

\* It holds in every state.
LEMMA MeterInvariant == Spec => []MeterInv
<1>1. Init => MeterInv
  <2> SUFFICES ASSUME Init PROVE Holders /\ AllowancesAreBilled
    BY Initially DEF MeterInv
  <2>1. Holders
    BY DEF Init, Holders, Holding, Capped, Counted
  <2> QED
    BY <2>1 DEF Init, AllowancesAreBilled, Zero
<1>2. MeterInv /\ [Next]_vars => MeterInv'
  BY TypesStep, HoldersStep, BilledStep DEF MeterInv
<1> QED
  BY <1>1, <1>2, PTL DEF Spec

\* Every Allowance is in the committed count, and nothing else is while no process
\* dies and no append fails: concurrent processes do not lose counts.
THEOREM AllowancesBilled == Spec => []AllowancesAreBilled
<1>1. MeterInv => AllowancesAreBilled
  BY DEF MeterInv
<1> QED
  BY MeterInvariant, <1>1, PTL

\* No interleaving of any number of workers takes a key over the cap its call
\* was judged by.
THEOREM CapKept == Spec => CapIsKept
<1>1. MeterInv /\ [Next]_vars =>
        [\A a \in Accounts : granted'[a] # granted[a] =>
           \E w \in Workers : /\ pc[w] = "commit" /\ Account(w) = a
                              /\ call[w].cap # Unlimited => granted'[a] <= call[w].cap]_vars
  BY CapStep DEF MeterInv
<1> QED
  BY MeterInvariant, <1>1, PTL DEF Spec, CapIsKept

(***************************************************************************)
(* A revocation gets through the key cache of every Meter, when each       *)
(* process has one worker on a Meter of its own.                           *)
(***************************************************************************)
Private == \A v, w \in Workers : MeterOf[v] = MeterOf[w] => v = w

Loading == {"load", "cache", "stamp"}

\* A Meter whose stamp is that of the keys file has its roster; and what a worker
\* has of the file is as new as the stamp it took before it read it.
CacheOf(m) == stamp[m] <= rev /\ (stamp[m] = rev => cache[m] = roster)
ReadBy(w) ==
  /\ pc[w] \in Loading => stamp[MeterOf[w]] < call[w].seen /\ call[w].seen <= rev
  /\ pc[w] = "cache" /\ call[w].seen = rev => call[w].doc = roster
  /\ pc[w] = "stamp" /\ call[w].seen = rev => cache[MeterOf[w]] = roster

\* A key that was revoked when the call began is so wherever the worker looks.
Refused(w) ==
  pc[w] # "idle" /\ call[w].revoked =>
    /\ roster[call[w].key].standing = "revoked"
    /\ pc[w] = "cache" => call[w].doc[call[w].key].standing = "revoked"
    /\ pc[w] \in {"stamp", "judge"} => cache[MeterOf[w]][call[w].key].standing = "revoked"
    /\ pc[w] \notin {"begin"} \cup Open

Known == /\ \A m \in Meters : CacheOf(m)
         /\ \A w \in Workers : ReadBy(w) /\ Refused(w)

\* A step of another worker, which has another Meter.
LEMMA OwnMeter ==
  ASSUME NEW w \in Workers, ReadBy(w), Refused(w), pc'[w] = pc[w], call'[w] = call[w],
         cache'[MeterOf[w]] = cache[MeterOf[w]], stamp'[MeterOf[w]] = stamp[MeterOf[w]],
         roster' = roster, rev' = rev
  PROVE  ReadBy(w)' /\ Refused(w)'
BY DEF ReadBy, Refused

LEMMA KnownStep ==
  ASSUME Private, TypeOK, Loaded, Known, [Next]_vars PROVE Known'
<1> USE DEF CacheOf
<1>0. KeysTyped /\ CallsTyped
  BY DEF TypeOK
<1>1. ASSUME UNCHANGED <<pc, call, cache, stamp, roster, rev>> PROVE Known'
  BY <1>1, OwnMeter DEF Known
<1>2. ASSUME NEW k \in Keys, NEW e \in Entries, Edit(k, e) PROVE Known'
  <2>1. rev' = rev + 1 /\ UNCHANGED <<pc, call, cache, stamp>>
    BY <1>2 DEF Edit
  <2>2. \A q \in Keys : roster[q].standing = "revoked" => roster'[q].standing = "revoked"
    BY <1>0, <1>2 DEF Edit, KeysTyped, Rosters
  <2>3. \A m \in Meters : CacheOf(m)'
    BY <1>0, <2>1, BoundsAssumption DEF Known, KeysTyped
  <2>4. ASSUME NEW w \in Workers PROVE ReadBy(w)'
    <3>1. CASE pc[w] \in Loading
      <4>1. call[w].seen \in -1..MaxEdits /\ rev \in 0..MaxEdits /\ call[w].seen <= rev
        BY <1>0, <3>1 DEF Known, ReadBy, CallsTyped, KeysTyped, Locals, Loading
      <4> QED
        BY <2>1, <3>1, <4>1, BoundsAssumption DEF Known, ReadBy
    <3>2. CASE pc[w] \notin Loading
      BY <2>1, <3>2 DEF ReadBy, Loading
    <3> QED
      BY <3>1, <3>2
  <2>5. ASSUME NEW w \in Workers PROVE Refused(w)'
    <3>1. pc[w] # "idle" => call[w].key \in Keys
      BY <1>0 DEF CallsTyped, Locals
    <3> QED
      BY <2>1, <2>2, <3>1 DEF Known, Refused
  <2> QED
    BY <2>3, <2>4, <2>5 DEF Known
<1>3. ASSUME NEW m \in Meters, Crash(m) PROVE Known'
  <2>1. \A n \in Meters : CacheOf(n)'
    BY <1>0, <1>3, BoundsAssumption DEF Crash, Known, KeysTyped
  <2>2. ASSUME NEW w \in Workers, MeterOf[w] = m PROVE ReadBy(w)' /\ Refused(w)'
    BY <1>3, <2>2 DEF Crash, ReadBy, Refused, Loading
  <2>3. ASSUME NEW w \in Workers, MeterOf[w] # m PROVE ReadBy(w)' /\ Refused(w)'
    BY <1>0, <1>3, <2>3, OwnMeter, WorkersAssumption DEF Crash, Known, KeysTyped
  <2> QED
    BY <2>1, <2>2, <2>3 DEF Known
\* The step of one worker: what it does to the Meters and to itself.
<1>4. ASSUME NEW w \in Workers, \A v \in Workers \ {w} : pc'[v] = pc[v] /\ call'[v] = call[v],
             \A m \in Meters \ {MeterOf[w]} : cache'[m] = cache[m] /\ stamp'[m] = stamp[m],
             roster' = roster, rev' = rev, CacheOf(MeterOf[w])', ReadBy(w)', Refused(w)'
      PROVE  Known'
  <2>1. \A m \in Meters : CacheOf(m)'
    BY <1>4 DEF Known
  <2>2. ASSUME NEW v \in Workers \ {w} PROVE ReadBy(v)' /\ Refused(v)'
    <3>1. MeterOf[v] \in Meters \ {MeterOf[w]}
      BY WorkersAssumption DEF Private
    <3> QED
      BY <1>4, <3>1, OwnMeter DEF Known
  <2> QED
    BY <1>4, <2>1, <2>2 DEF Known
<1>5. ASSUME NEW w \in Workers, NEW k \in Keys, NEW cost \in Costs, NEW record \in BOOLEAN,
             Call(w, k, cost, record)
      PROVE  Known'
  <2>1. pc'[w] = "stat" /\ (call'[w].revoked => roster[call'[w].key].standing = "revoked")
    BY <1>0, <1>5 DEF Call, Goto, CallsTyped
  <2>2. ReadBy(w)' /\ Refused(w)'
    BY <1>5, <2>1 DEF Call, keys, ReadBy, Refused, Loading, Open
  <2> QED
    BY <1>0, <1>4, <1>5, <2>2, WorkersAssumption DEF Call, Goto, keys, CallsTyped, Known
<1>6. ASSUME NEW w \in Workers, StatKeys(w) PROVE Known'
  <2>1. /\ call'[w].seen = rev /\ call'[w].key = call[w].key
        /\ call'[w].revoked = call[w].revoked
        /\ pc'[w] = IF stamp[MeterOf[w]] = rev THEN "judge" ELSE "load"
        /\ UNCHANGED <<cache, stamp, roster, rev>>
    <3>1. call[w] \in Locals
      BY <1>0, <1>6 DEF StatKeys, CallsTyped
    <3> QED
      BY <1>0, <1>6, <3>1 DEF StatKeys, Set, Goto, keys, CallsTyped, Locals
  <2>2. CacheOf(MeterOf[w])
    BY WorkersAssumption DEF Known
  <2>3. Refused(w) /\ pc[w] = "stat"
    BY <1>6 DEF Known, StatKeys
  <2>4. ReadBy(w)'
    BY <1>0, <2>1, <2>2, WorkersAssumption, BoundsAssumption DEF ReadBy, Loading, KeysTyped
  <2>5. Refused(w)'
    BY <2>1, <2>2, <2>3 DEF Refused, Open
  <2> QED
    BY <1>0, <1>4, <1>6, <2>1, <2>2, <2>4, <2>5 DEF StatKeys, Set, Goto, CallsTyped
<1>7. ASSUME NEW w \in Workers, LoadKeys(w) PROVE Known'
  <2>1. /\ call'[w].doc = roster /\ call'[w].seen = call[w].seen /\ call'[w].key = call[w].key
        /\ call'[w].revoked = call[w].revoked /\ pc'[w] = "cache" /\ pc[w] = "load"
        /\ UNCHANGED <<cache, stamp, roster, rev>>
    <3>1. call[w] \in Locals
      BY <1>0, <1>7 DEF LoadKeys, CallsTyped
    <3> QED
      BY <1>0, <1>7, <3>1 DEF LoadKeys, Set, Goto, keys, CallsTyped, Locals
  <2>2. CacheOf(MeterOf[w]) /\ ReadBy(w) /\ Refused(w)
    BY WorkersAssumption DEF Known
  <2>3. ReadBy(w)' /\ Refused(w)'
    BY <2>1, <2>2 DEF ReadBy, Refused, Loading, Open
  <2> QED
    BY <1>0, <1>4, <1>7, <2>1, <2>2, <2>3 DEF LoadKeys, Set, Goto, CallsTyped
<1>8. ASSUME NEW w \in Workers, StoreCache(w) PROVE Known'
  <2>1. /\ cache'[MeterOf[w]] = call[w].doc /\ pc'[w] = "stamp" /\ pc[w] = "cache"
        /\ UNCHANGED <<call, stamp, roster, rev>>
    BY <1>0, <1>8, WorkersAssumption DEF StoreCache, Goto, CallsTyped, KeysTyped
  <2>2. CacheOf(MeterOf[w]) /\ ReadBy(w) /\ Refused(w)
    BY WorkersAssumption DEF Known
  <2>3. stamp[MeterOf[w]] < rev
    <3>1. call[w].seen \in Int /\ rev \in Int /\ stamp[MeterOf[w]] \in Int
      BY <1>0, <2>1, WorkersAssumption DEF CallsTyped, KeysTyped, Locals
    <3> QED
      BY <2>1, <2>2, <3>1 DEF ReadBy, Loading
  <2>4. CacheOf(MeterOf[w])'
    BY <1>0, <2>1, <2>3, WorkersAssumption DEF KeysTyped
  <2>5. ReadBy(w)' /\ Refused(w)'
    BY <2>1, <2>2 DEF ReadBy, Refused, Loading, Open
  <2> QED
    BY <1>0, <1>4, <1>8, <2>1, <2>4, <2>5 DEF StoreCache, Goto, CallsTyped, KeysTyped
<1>9. ASSUME NEW w \in Workers, StoreStamp(w) PROVE Known'
  <2>1. /\ stamp'[MeterOf[w]] = call[w].seen /\ pc'[w] = "judge" /\ pc[w] = "stamp"
        /\ UNCHANGED <<call, cache, roster, rev>>
    BY <1>0, <1>9, WorkersAssumption DEF StoreStamp, Goto, CallsTyped, KeysTyped
  <2>2. ReadBy(w) /\ Refused(w)
    BY DEF Known
  <2>3. CacheOf(MeterOf[w])' /\ ReadBy(w)' /\ Refused(w)'
    BY <2>1, <2>2 DEF ReadBy, Refused, Loading, Open
  <2> QED
    BY <1>0, <1>4, <1>9, <2>1, <2>3 DEF StoreStamp, Goto, CallsTyped, KeysTyped
<1>10. ASSUME NEW w \in Workers, Judge(w) PROVE Known'
  <2>1. UNCHANGED <<cache, stamp, roster, rev>> /\ pc[w] = "judge"
    BY <1>10 DEF Judge, keys
  <2>2. call'[w].key = call[w].key /\ call'[w].revoked = call[w].revoked
    <3>1. call[w] \in Locals
      BY <1>0, <1>10 DEF Judge, CallsTyped
    <3> QED
      BY <1>0, <1>10, <3>1 DEF Judge, CallsTyped, Locals
  <2>3. /\ pc'[w] \in {"begin", "deny"}
        /\ pc'[w] = "begin" => cache[MeterOf[w]][call[w].key].standing = "active"
    BY <1>0, <1>10 DEF Judge, Goto, Authorized, CallsTyped
  <2>4. CacheOf(MeterOf[w]) /\ Refused(w)
    BY WorkersAssumption DEF Known
  <2>5. ReadBy(w)' /\ Refused(w)'
    BY <2>1, <2>2, <2>3, <2>4 DEF ReadBy, Refused, Loading, Open
  <2> QED
    BY <1>0, <1>4, <1>10, <2>1, <2>4, <2>5 DEF Judge, Goto, CallsTyped
<1>11. ASSUME NEW w \in Workers,
              \/ KeysUnreadable(w) \/ Deny(w) \/ Begin(w) \/ Busy(w) \/ Select(w)
              \/ OverCap(w) \/ LogGrant(w) \/ LogFails(w) \/ Commit(w) \/ CommitFails(w)
              \/ Void(w) \/ VoidFails(w)
       PROVE  Known'
  <2>1. UNCHANGED <<cache, stamp, roster, rev>>
    BY <1>11 DEF KeysUnreadable, Deny, Begin, Busy, Select, OverCap, LogGrant, LogFails,
                 Commit, CommitFails, Void, VoidFails, keys
  <2>2. \A v \in Workers \ {w} : pc'[v] = pc[v] /\ call'[v] = call[v]
    BY <1>0, <1>11
       DEF KeysUnreadable, Deny, Begin, Busy, Select, OverCap, LogGrant, LogFails,
           Commit, CommitFails, Void, VoidFails, End, Set, Goto, CallsTyped
  <2>3. pc[w] # "idle"
    BY <1>11 DEF KeysUnreadable, Deny, Begin, Busy, Select, OverCap, LogGrant, LogFails,
                 Commit, CommitFails, Void, VoidFails
  <2>4. \/ pc'[w] = "idle"
        \/ /\ pc'[w] = "deny" \/ (pc[w] \in {"begin"} \cup Open /\ pc'[w] \in Open)
           /\ call'[w].key = call[w].key /\ call'[w].revoked = call[w].revoked
    <3>1. call[w] \in Locals
      BY <1>0, <2>3 DEF CallsTyped
    <3>2. CASE \/ Deny(w) \/ Busy(w) \/ LogFails(w) \/ Commit(w) \/ Void(w) \/ VoidFails(w)
      BY <1>0, <3>2 DEF Deny, Busy, LogFails, Commit, Void, VoidFails, End, Goto, CallsTyped
    <3>3. CASE \/ KeysUnreadable(w) \/ OverCap(w) \/ Begin(w) \/ LogGrant(w) \/ CommitFails(w)
      BY <1>0, <3>3 DEF KeysUnreadable, OverCap, Begin, LogGrant, CommitFails, Goto, CallsTyped, Open
    <3>4. CASE Select(w)
      BY <1>0, <3>1, <3>4 DEF Select, Set, Goto, CallsTyped, Open, Locals
    <3> QED
      BY <1>11, <3>2, <3>3, <3>4
  <2>5. CacheOf(MeterOf[w]) /\ Refused(w)
    BY WorkersAssumption DEF Known
  <2>6. ReadBy(w)' /\ Refused(w)'
    BY <2>1, <2>3, <2>4, <2>5 DEF ReadBy, Refused, Loading, Open
  <2> QED
    BY <1>4, <2>1, <2>2, <2>5, <2>6
<1> QED
  BY Actions, <1>1, <1>2, <1>3, <1>5, <1>6, <1>7, <1>8, <1>9, <1>10, <1>11 DEF TurnMonth, vars

\* A call that begins after a revocation is never counted, whatever was in the
\* cache and whenever the keys file was edited, if no two workers share a Meter.
THEOREM RevocationGetsThrough == ASSUME Private PROVE Spec => []RevokedIsRefused
<1>1. Init => Known
  BY BoundsAssumption DEF Init, Known, CacheOf, ReadBy, Refused, Loading
<1>2. TypeOK /\ Loaded /\ Known /\ [Next]_vars => Known'
  BY KnownStep
<1>3. TypeOK /\ Loaded /\ [Next]_vars => TypeOK' /\ Loaded'
  BY TypesStep
<1>4. Known => RevokedIsRefused
  BY DEF Known, Refused, RevokedIsRefused, Open
<1> QED
  BY Initially, <1>1, <1>2, <1>3, <1>4, PTL DEF Spec

(***************************************************************************)
(* The receipts.  A worker between its meter.grant row and the end of its  *)
(* transaction owes the bill its cost.  What all of them owe is counted in *)
(* units, so that a sum is the size of a set.                              *)
(***************************************************************************)
Owing(w, a) == pc[w] \in {"commit", "void"} /\ call[w].record /\ Account(w) = a
Units(w) == {w} \X (1..call[w].cost)
Owed(a) == UNION {Units(w) : w \in {v \in Workers : Owing(v, a)}}
Settled(a) == /\ IsFiniteSet(Owed(a))
              /\ grants[a] >= voids[a] + usage[a] + Cardinality(Owed(a))
              /\ spent.unlogged = 0
                   => grants[a] = voids[a] + usage[a] + Cardinality(Owed(a))

\* The cost of a worker is the number of its units.
LEMMA UnitsCount ==
  ASSUME NEW w \in Workers, call[w].cost \in Nat
  PROVE  IsFiniteSet(Units(w)) /\ Cardinality(Units(w)) = call[w].cost
<1> PICK n \in Nat : n = call[w].cost
  OBVIOUS
<1> PICK S, T : S = {w} /\ T = 1..n
  OBVIOUS
<1>1. IsFiniteSet(S) /\ Cardinality(S) = 1
  BY FS_Singleton
<1>2. IsFiniteSet(T) /\ Cardinality(T) = n
  <2>1. 1 \in Int /\ n \in Int
    OBVIOUS
  <2>2. IsFiniteSet(1..n) /\ Cardinality(1..n) = (IF 1 > n THEN 0 ELSE n - 1 + 1)
    BY <2>1, FS_Interval, Zenon
  <2> QED
    BY <2>2
<1>3. IsFiniteSet(S \X T) /\ Cardinality(S \X T) = Cardinality(S) * Cardinality(T)
  BY <1>1, <1>2, FS_Product, Zenon
<1>4. Cardinality(S \X T) = n
  <2>1. Cardinality(S \X T) = 1 * n
    BY <1>1, <1>2, <1>3, Zenon
  <2> QED
    BY <2>1
<1>5. Units(w) = S \X T
  BY DEF Units
<1> QED
  BY <1>3, <1>4, <1>5, Zenon

\* Sets with some elements more, and with some fewer.
LEMMA More ==
  ASSUME NEW S, NEW T, IsFiniteSet(S), IsFiniteSet(T), S \cap T = {}
  PROVE  /\ IsFiniteSet(S \cup T)
         /\ Cardinality(S \cup T) = Cardinality(S) + Cardinality(T)
         /\ Cardinality(S) \in Nat /\ Cardinality(T) \in Nat
BY FS_Union, FS_EmptySet, FS_CardinalityType, SMTT(30)

LEMMA Fewer ==
  ASSUME NEW S, NEW T, IsFiniteSet(S), T \subseteq S
  PROVE  /\ IsFiniteSet(S \ T) /\ IsFiniteSet(T)
         /\ Cardinality(S) = Cardinality(S \ T) + Cardinality(T)
         /\ Cardinality(S \ T) \in Nat /\ Cardinality(T) \in Nat
<1>1. S \cap T = T
  OBVIOUS
<1>2. /\ IsFiniteSet(S \ T) /\ IsFiniteSet(T)
      /\ Cardinality(S \ T) = Cardinality(S) - Cardinality(S \cap T)
  BY FS_Difference, FS_Subset
<1>3. Cardinality(S) \in Nat /\ Cardinality(T) \in Nat /\ Cardinality(S \ T) \in Nat
  BY <1>2, FS_CardinalityType
<1> QED
  BY <1>1, <1>2, <1>3

LEMMA OwedIs ==
  ASSUME NEW a
  PROVE  \A u : u \in Owed(a) <=> \E w \in Workers : Owing(w, a) /\ u \in Units(w)
BY DEF Owed

LEMMA UnitsOf == ASSUME NEW w, NEW u \in Units(w) PROVE u[1] = w
BY DEF Units

(***************************************************************************)
(* A step of w alone, and what is owed in an account.                      *)
(***************************************************************************)
Alone(w) == \A v \in Workers \ {w} : pc'[v] = pc[v] /\ call'[v] = call[v]

LEMMA OthersOwe ==
  ASSUME NEW w \in Workers, Alone(w), NEW v \in Workers \ {w}, NEW a
  PROVE  Owing(v, a)' = Owing(v, a) /\ Units(v)' = Units(v)
BY DEF Alone, Owing, Units, Account

\* It owed nothing there, and does not now.
LEMMA StaysOut ==
  ASSUME NEW w \in Workers, Alone(w), NEW a, ~Owing(w, a), ~Owing(w, a)'
  PROVE  Owed(a)' = Owed(a)
<1>1. \A u : u \in Owed(a)' <=> \E v \in Workers : Owing(v, a)' /\ u \in Units(v)'
  BY DEF Owed
<1>2. \A v \in Workers : v # w => (Owing(v, a)' <=> Owing(v, a)) /\ Units(v)' = Units(v)
  BY OthersOwe
<1> QED
  BY <1>1, <1>2, OwedIs

\* It owed something, and still does.
LEMMA StillOwes ==
  ASSUME NEW w \in Workers, Alone(w), NEW a, Owing(w, a), Owing(w, a)', Units(w)' = Units(w)
  PROVE  Owed(a)' = Owed(a)
<1>1. \A u : u \in Owed(a)' <=> \E v \in Workers : Owing(v, a)' /\ u \in Units(v)'
  BY DEF Owed
<1>2. \A v \in Workers : v # w => (Owing(v, a)' <=> Owing(v, a)) /\ Units(v)' = Units(v)
  BY OthersOwe
<1> QED
  BY <1>1, <1>2, OwedIs

\* Its row is chained.
LEMMA StartsToOwe ==
  ASSUME NEW w \in Workers, Alone(w), NEW a, ~Owing(w, a), Owing(w, a)', UNCHANGED call
  PROVE  Owed(a)' = Owed(a) \cup Units(w) /\ Owed(a) \cap Units(w) = {}
<1>1. \A u : u \in Owed(a)' <=> \E v \in Workers : Owing(v, a)' /\ u \in Units(v)'
  BY DEF Owed
<1>2. \A v \in Workers : v # w => (Owing(v, a)' <=> Owing(v, a)) /\ Units(v)' = Units(v)
  BY OthersOwe
<1>3. Units(w)' = Units(w)
  BY DEF Units
<1>4. Owed(a) \cap Units(w) = {}
  BY OwedIs, UnitsOf
<1> QED
  BY <1>1, <1>2, <1>3, <1>4, OwedIs

\* It is settled.
LEMMA OwesNoMore ==
  ASSUME NEW w \in Workers, Alone(w), NEW a, Owing(w, a), ~Owing(w, a)'
  PROVE  Owed(a)' = Owed(a) \ Units(w) /\ Units(w) \subseteq Owed(a)
<1>1. \A u : u \in Owed(a)' <=> \E v \in Workers : Owing(v, a)' /\ u \in Units(v)'
  BY DEF Owed
<1>2. \A v \in Workers : v # w => (Owing(v, a)' <=> Owing(v, a)) /\ Units(v)' = Units(v)
  BY OthersOwe
<1>3. \A v \in Workers : v # w => Units(v) \cap Units(w) = {}
  BY UnitsOf
<1>4. Units(w) \subseteq Owed(a)
  BY OwedIs
<1> QED
  BY <1>1, <1>2, <1>3, <1>4, OwedIs

\* The counts of an account that nothing is done to.
LEMMA Untouched ==
  ASSUME NEW a \in Accounts, Settled(a), Owed(a)' = Owed(a),
         grants'[a] = grants[a], voids'[a] = voids[a], usage'[a] = usage[a],
         spent'.unlogged = spent.unlogged
  PROVE  Settled(a)'
BY DEF Settled

\* Who goes to log has a call to bill.
BilledCalls == \A w \in Workers : pc[w] = "log" => call[w].record

LEMMA BilledCallsStep == TypeOK /\ BilledCalls /\ [Next]_vars => BilledCalls'
<1> SUFFICES ASSUME TypeOK, BilledCalls, [Next]_vars PROVE BilledCalls'
  OBVIOUS
<1>0. CallsTyped
  BY DEF TypeOK
<1>1. ASSUME NEW w \in Workers, NEW label, label # "log", Goto(w, label),
             \A v \in Workers \ {w} : call'[v] = call[v]
      PROVE  BilledCalls'
  BY <1>0, <1>1 DEF BilledCalls, Goto, CallsTyped
<1>2. ASSUME UNCHANGED <<pc, call>> PROVE BilledCalls'
  BY <1>2 DEF BilledCalls
<1>3. ASSUME NEW m \in Meters, Crash(m) PROVE BilledCalls'
  BY <1>0, <1>3 DEF Crash, BilledCalls, CallsTyped
<1>4. ASSUME NEW w \in Workers, NEW k \in Keys, NEW cost \in Costs, NEW record \in BOOLEAN,
             Call(w, k, cost, record)
      PROVE  BilledCalls'
  <2>1. \A v \in Workers \ {w} : call'[v] = call[v]
    BY <1>0, <1>4 DEF Call, CallsTyped
  <2> QED
    BY <1>1, <1>4, <2>1 DEF Call
<1>5. ASSUME NEW w \in Workers, Select(w) PROVE BilledCalls'
  <2>1. call'[w].record = call[w].record
    BY <1>0, <1>5 DEF Select, Set, CallsTyped, Locals
  <2> QED
    BY <1>0, <1>5, <2>1 DEF Select, Set, Goto, BilledCalls, CallsTyped
<1>6. ASSUME NEW w \in Workers,
             \/ StatKeys(w) \/ LoadKeys(w) \/ KeysUnreadable(w) \/ StoreCache(w)
             \/ StoreStamp(w) \/ Judge(w) \/ Deny(w) \/ Begin(w) \/ Busy(w)
             \/ OverCap(w) \/ LogGrant(w) \/ LogFails(w) \/ Commit(w) \/ CommitFails(w)
             \/ Void(w) \/ VoidFails(w)
      PROVE  BilledCalls'
  <2>1. \E label : label # "log" /\ Goto(w, label)
    BY <1>6 DEF StatKeys, LoadKeys, KeysUnreadable, StoreCache, StoreStamp, Judge, Deny, Begin,
                Busy, OverCap, LogGrant, LogFails, Commit, CommitFails, Void, VoidFails, End
  <2>2. \A v \in Workers \ {w} : call'[v] = call[v]
    BY <1>0, <1>6
       DEF StatKeys, LoadKeys, KeysUnreadable, StoreCache, StoreStamp, Judge, Deny, Begin,
           Busy, OverCap, LogGrant, LogFails, Commit, CommitFails, Void, VoidFails, End, Set,
           CallsTyped
  <2> QED
    BY <1>1, <2>1, <2>2
<1> QED
  BY Actions, <1>2, <1>3, <1>4, <1>5, <1>6 DEF Edit, TurnMonth, vars

\* The row of w is chained, and w owes the bill its cost.
LEMMA GrantSettles ==
  ASSUME TypeOK, NEW w \in Workers, LogGrant(w), call[w].record,
         NEW a \in Accounts, Settled(a)
  PROVE  Settled(a)'
<1>1. /\ call[w] \in Locals /\ CountsTyped /\ Alone(w) /\ pc[w] = "log" /\ pc'[w] = "commit"
      /\ UNCHANGED <<call, usage, voids, spent>>
  BY DEF TypeOK, CallsTyped, LogGrant, Goto, Alone
<1>2. call[w].cost \in Nat
  BY <1>1, Accounted
<1>3. grants' = Add(grants, Account(w), call[w].cost)
  BY DEF LogGrant
<1>4. ~Owing(w, a) /\ (Owing(w, a)' <=> Account(w) = a)
  BY <1>1 DEF Owing, Account
<1>5. CASE Account(w) # a
  <2>1. grants'[a] = grants[a]
    BY <1>1, <1>3, <1>5 DEF Add, CountsTyped
  <2>2. Owed(a)' = Owed(a)
    BY <1>1, <1>4, <1>5, StaysOut
  <2> QED
    BY <1>1, <2>1, <2>2, Untouched
<1>6. CASE Account(w) = a
  <2>1. grants'[a] = grants[a] + call[w].cost
    BY <1>1, <1>3, <1>6 DEF Add, CountsTyped
  <2>2. Owed(a)' = Owed(a) \cup Units(w) /\ Owed(a) \cap Units(w) = {}
    BY <1>1, <1>4, <1>6, StartsToOwe
  <2>3. IsFiniteSet(Units(w)) /\ Cardinality(Units(w)) = call[w].cost
    BY <1>2, UnitsCount
  <2>4. /\ IsFiniteSet(Owed(a)')
        /\ Cardinality(Owed(a)') = Cardinality(Owed(a)) + call[w].cost
        /\ Cardinality(Owed(a)) \in Nat
    <3>1. IsFiniteSet(Owed(a))
      BY DEF Settled
    <3>2. IsFiniteSet(Owed(a) \cup Units(w))
          /\ Cardinality(Owed(a) \cup Units(w)) = Cardinality(Owed(a)) + Cardinality(Units(w))
          /\ Cardinality(Owed(a)) \in Nat
      BY <2>2, <2>3, <3>1, More, Zenon
    <3> QED
      BY <2>2, <2>3, <3>2, Zenon
  <2>5. grants[a] \in Nat /\ usage[a] \in Nat /\ voids[a] \in Nat
    BY <1>1 DEF CountsTyped
  <2> QED
    BY <1>1, <1>2, <2>1, <2>4, <2>5 DEF Settled
<1> QED
  BY <1>5, <1>6

\* What a worker owed is what it is billed, or what is voided.
LEMMA DebtSettles ==
  ASSUME CountsTyped, NEW w \in Workers, Alone(w), NEW a \in Accounts, Settled(a),
         Owing(w, a), ~Owing(w, a)', call[w].cost \in Nat, UNCHANGED <<grants, spent>>,
         \/ usage'[a] = usage[a] + call[w].cost /\ voids'[a] = voids[a]
         \/ voids'[a] = voids[a] + call[w].cost /\ usage'[a] = usage[a]
  PROVE  Settled(a)'
<1>1. Owed(a)' = Owed(a) \ Units(w) /\ Units(w) \subseteq Owed(a)
  BY OwesNoMore
<1>2. Cardinality(Units(w)) = call[w].cost
  BY UnitsCount
<1>3. /\ IsFiniteSet(Owed(a)')
      /\ Cardinality(Owed(a)) = Cardinality(Owed(a)') + call[w].cost
      /\ Cardinality(Owed(a)') \in Nat
  BY <1>1, <1>2, Fewer DEF Settled
<1>4. grants[a] \in Nat /\ usage[a] \in Nat /\ voids[a] \in Nat
  BY DEF CountsTyped
<1> QED
  BY <1>3, <1>4 DEF Settled

\* A debt that is dropped leaves the bill short of its receipts.
LEMMA DebtDropped ==
  ASSUME CountsTyped, NEW a \in Accounts, Settled(a), Owed(a)' \subseteq Owed(a),
         grants'[a] \in Nat, grants'[a] >= grants[a], UNCHANGED <<usage, voids>>,
         spent'.unlogged # 0
  PROVE  Settled(a)'
<1>1. /\ IsFiniteSet(Owed(a)') /\ Cardinality(Owed(a)') <= Cardinality(Owed(a))
      /\ Cardinality(Owed(a)) \in Nat /\ Cardinality(Owed(a)') \in Nat
  BY FS_Subset, FS_CardinalityType DEF Settled
<1>2. grants[a] \in Nat /\ usage[a] \in Nat /\ voids[a] \in Nat
  BY DEF CountsTyped
<1> QED
  BY <1>1, <1>2 DEF Settled

\* The count of w is committed.
LEMMA CommitSettles ==
  ASSUME TypeOK, Holders, NEW w \in Workers, Commit(w), NEW a \in Accounts, Settled(a)
  PROVE  Settled(a)'
<1>1. /\ call[w] \in Locals /\ CountsTyped /\ Alone(w) /\ pc[w] = "commit" /\ pc'[w] = "idle"
      /\ UNCHANGED <<grants, voids, spent>>
  BY DEF TypeOK, CallsTyped, Commit, End, Goto, Alone
<1>2. Account(w) \in Accounts /\ call[w].cost \in Nat
  BY <1>1, Accounted
<1>3. (Owing(w, a) <=> call[w].record /\ Account(w) = a) /\ ~Owing(w, a)'
  BY <1>1 DEF Owing
<1>4. CASE ~Owing(w, a)
  <2>1. usage'[a] = usage[a]
    BY <1>1, <1>3, <1>4 DEF Commit, CountsTyped
  <2>2. Owed(a)' = Owed(a)
    BY <1>1, <1>3, <1>4, StaysOut
  <2> QED
    BY <1>1, <2>1, <2>2, Untouched
<1>5. CASE Owing(w, a)
  <2>1. call[w].used = usage[a] + call[w].cost
    BY <1>1, <1>3, <1>5 DEF Holders, Counted
  <2>2. usage'[a] = usage[a] + call[w].cost
    BY <1>1, <1>3, <1>5, <2>1 DEF Commit, CountsTyped
  <2> QED
    BY <1>1, <1>2, <1>3, <1>5, <2>2, DebtSettles
<1> QED
  BY <1>4, <1>5

\* The inverse row of w is chained.
LEMMA VoidSettles ==
  ASSUME TypeOK, NEW w \in Workers, Void(w), NEW a \in Accounts, Settled(a)
  PROVE  Settled(a)'
<1>1. /\ call[w] \in Locals /\ CountsTyped /\ Alone(w) /\ pc[w] = "void" /\ pc'[w] = "idle"
      /\ UNCHANGED <<grants, usage, spent>>
  BY DEF TypeOK, CallsTyped, Void, End, Goto, Alone
<1>2. Account(w) \in Accounts /\ call[w].cost \in Nat
  BY <1>1, Accounted
<1>3. (Owing(w, a) <=> call[w].record /\ Account(w) = a) /\ ~Owing(w, a)'
  BY <1>1 DEF Owing
<1>4. CASE ~Owing(w, a)
  <2>1. voids'[a] = voids[a]
    BY <1>1, <1>3, <1>4 DEF Void, Add, CountsTyped
  <2>2. Owed(a)' = Owed(a)
    BY <1>1, <1>3, <1>4, StaysOut
  <2> QED
    BY <1>1, <2>1, <2>2, Untouched
<1>5. CASE Owing(w, a)
  <2>1. voids'[a] = voids[a] + call[w].cost
    BY <1>1, <1>3, <1>5 DEF Void, Add, CountsTyped
  <2> QED
    BY <1>1, <1>2, <1>3, <1>5, <2>1, DebtSettles
<1> QED
  BY <1>4, <1>5

\* A call that ends without a row of its own, or whose inverse row fails.
LEMMA FailureSettles ==
  ASSUME TypeOK, BilledCalls, NEW w \in Workers, LogFails(w) \/ VoidFails(w),
         NEW a \in Accounts, Settled(a)
  PROVE  Settled(a)'
<1>1. /\ call[w] \in Locals /\ CountsTyped /\ Alone(w) /\ pc'[w] = "idle"
      /\ UNCHANGED <<usage, voids>> /\ spent'.unlogged # 0
  BY DEF TypeOK, CallsTyped, LogFails, VoidFails, End, Goto, Alone, Fail, SpentTyped, store
<1>2. Account(w) \in Accounts /\ call[w].cost \in Nat
  BY <1>1, Accounted
<1>3. grants'[a] \in Nat /\ grants'[a] >= grants[a]
  <2>1. grants' = grants \/ grants' = Add(grants, Account(w), call[w].cost)
    BY DEF LogFails, VoidFails, store
  <2> QED
    BY <1>1, <1>2, <2>1 DEF Add, CountsTyped
<1>4. Owed(a)' \subseteq Owed(a)
  <2>1. ~Owing(w, a)'
    BY <1>1 DEF Owing
  <2>2. CASE Owing(w, a)
    BY <1>1, <2>1, <2>2, OwesNoMore
  <2>3. CASE ~Owing(w, a)
    BY <1>1, <2>1, <2>3, StaysOut
  <2> QED
    BY <2>2, <2>3
<1> QED
  BY <1>1, <1>3, <1>4, DebtDropped

\* A process dies with what its workers owed; one commit may be through.
LEMMA CrashSettles ==
  ASSUME TypeOK, Holders, NEW m \in Meters, Crash(m), NEW a \in Accounts, Settled(a)
  PROVE  Settled(a)'
<1>1. /\ CountsTyped /\ CallsTyped /\ UNCHANGED <<grants, voids>> /\ spent'.unlogged # 0
      /\ \A v \in Workers : MeterOf[v] = m => pc'[v] = "idle"
      /\ \A v \in Workers : MeterOf[v] # m => pc'[v] = pc[v] /\ call'[v] = call[v]
  BY DEF TypeOK, Crash, Fail, SpentTyped
<1>2. \A u : u \in Owed(a)' <=> \E v \in Workers : Owing(v, a)' /\ u \in Units(v)'
  BY DEF Owed
<1>3. \A v \in Workers : Owing(v, a)' => Owing(v, a) /\ MeterOf[v] # m /\ Units(v)' = Units(v)
  BY <1>1 DEF Owing, Units, Account
<1>4. Owed(a)' \subseteq Owed(a)
  BY <1>2, <1>3, OwedIs
<1>5. CASE usage'[a] = usage[a]
  <2>1. /\ IsFiniteSet(Owed(a)') /\ Cardinality(Owed(a)') <= Cardinality(Owed(a))
        /\ Cardinality(Owed(a)) \in Nat /\ Cardinality(Owed(a)') \in Nat
    BY <1>4, FS_Subset, FS_CardinalityType DEF Settled
  <2>2. grants[a] \in Nat /\ usage[a] \in Nat /\ voids[a] \in Nat
    BY <1>1 DEF CountsTyped
  <2> QED
    BY <1>1, <1>5, <2>1, <2>2 DEF Settled
<1>6. CASE usage'[a] # usage[a]
  <2>1. PICK w \in Workers : /\ MeterOf[w] = m /\ pc[w] = "commit" /\ call[w].record
                             /\ usage' = [usage EXCEPT ![Account(w)] = call[w].used]
    BY <1>6 DEF Crash
  <2>2. Account(w) = a
    BY <1>1, <1>6, <2>1 DEF CountsTyped
  <2>3. call[w] \in Locals
    BY <1>1, <2>1 DEF CallsTyped
  <2>4. call[w].cost \in Nat
    BY <2>3, Accounted
  <2>5. usage'[a] = usage[a] + call[w].cost
    BY <1>1, <2>1, <2>2 DEF Holders, Counted, CountsTyped
  <2>6. Owing(w, a)
    BY <2>1, <2>2 DEF Owing
  <2>7. Units(w) \subseteq Owed(a) /\ Owed(a)' \subseteq Owed(a) \ Units(w)
    <3>1. \A v \in Workers : v # w => Units(v) \cap Units(w) = {}
      BY UnitsOf
    <3>2. ~Owing(w, a)'
      BY <1>3, <2>1
    <3>3. Owed(a)' \cap Units(w) = {}
      BY <1>2, <1>3, <3>1, <3>2
    <3> QED
      BY <1>4, <2>6, <3>3, OwedIs
  <2>8. Cardinality(Units(w)) = call[w].cost
    BY <2>4, UnitsCount
  <2> PICK O, P, U : O = Owed(a) /\ P = Owed(a)' /\ U = Units(w)
    OBVIOUS
  <2>9. IsFiniteSet(O) /\ U \subseteq O /\ P \subseteq O \ U
    BY <2>7 DEF Settled
  <2>10. /\ IsFiniteSet(O \ U) /\ Cardinality(O) = Cardinality(O \ U) + Cardinality(U)
         /\ Cardinality(O \ U) \in Nat
    BY <2>9, Fewer, Zenon
  <2>11. IsFiniteSet(P) /\ Cardinality(P) <= Cardinality(O \ U) /\ Cardinality(P) \in Nat
    BY <2>9, <2>10, FS_Subset, FS_CardinalityType, Zenon
  <2>12. grants[a] \in Nat /\ usage[a] \in Nat /\ voids[a] \in Nat
    BY <1>1 DEF CountsTyped
  <2> QED
    BY <1>1, <2>4, <2>5, <2>8, <2>10, <2>11, <2>12 DEF Settled
<1> QED
  BY <1>5, <1>6

\* No other step has to do with a row or with the bill.
LEMMA OthersSettle ==
  ASSUME TypeOK, NEW w \in Workers,
         \/ StatKeys(w) \/ LoadKeys(w) \/ KeysUnreadable(w) \/ StoreCache(w) \/ StoreStamp(w)
         \/ Judge(w) \/ Deny(w) \/ Begin(w) \/ Busy(w) \/ Select(w) \/ OverCap(w)
         \/ CommitFails(w)
         \/ \E k \in Keys, cost \in Costs, record \in BOOLEAN : Call(w, k, cost, record),
         NEW a \in Accounts, Settled(a)
  PROVE  Settled(a)'
<1>1. UNCHANGED store /\ spent'.unlogged = spent.unlogged
  BY DEF TypeOK, SpentTyped, Call, StatKeys, LoadKeys, KeysUnreadable, StoreCache, StoreStamp,
         Judge, Deny, Begin, Busy, Select, OverCap, CommitFails, Fail
<1>2. Alone(w)
  BY DEF TypeOK, CallsTyped, Call, StatKeys, LoadKeys, KeysUnreadable, StoreCache, StoreStamp,
         Judge, Deny, Begin, Busy, Select, OverCap, CommitFails, Set, Goto, End, Alone
<1>3. CASE CommitFails(w)
  <2>1. pc[w] = "commit" /\ pc'[w] = "void" /\ UNCHANGED call
    BY <1>3 DEF CommitFails, Goto, TypeOK, CallsTyped
  <2>2. (Owing(w, a)' <=> Owing(w, a)) /\ Units(w)' = Units(w)
    BY <2>1 DEF Owing, Account, Units
  <2>3. Owed(a)' = Owed(a)
    BY <1>2, <2>2, StaysOut, StillOwes
  <2> QED
    BY <1>1, <2>3, Untouched DEF store
<1>4. CASE ~CommitFails(w)
  <2>1. pc[w] \notin {"commit", "void"}
    BY <1>4 DEF Call, StatKeys, LoadKeys, KeysUnreadable, StoreCache, StoreStamp,
                Judge, Deny, Begin, Busy, Select, OverCap
  <2>2. pc'[w] # "void" /\ (pc'[w] = "commit" => ~call'[w].record)
    <3>1. CASE Select(w)
      <4>1. call[w] \in Locals
        BY <3>1 DEF Select, TypeOK, CallsTyped
      <4>2. call'[w].record = call[w].record
        BY <3>1, <4>1 DEF Select, Set, TypeOK, CallsTyped, Locals
      <4> QED
        BY <3>1, <4>2 DEF Select, Goto, TypeOK, CallsTyped
    <3>2. CASE ~Select(w)
      BY <1>4, <3>2 DEF Call, StatKeys, LoadKeys, KeysUnreadable, StoreCache, StoreStamp, Judge,
                        Deny, Begin, Busy, OverCap, Goto, End, TypeOK, CallsTyped
    <3> QED
      BY <3>1, <3>2
  <2>3. ~Owing(w, a) /\ ~Owing(w, a)'
    BY <2>1, <2>2 DEF Owing
  <2>4. Owed(a)' = Owed(a)
    BY <1>2, <2>3, StaysOut
  <2> QED
    BY <1>1, <2>4, Untouched DEF store
<1> QED
  BY <1>3, <1>4

\* Every step settles.
LEMMA SettledStep ==
  ASSUME TypeOK, Holders, BilledCalls, [Next]_vars, NEW a \in Accounts, Settled(a)
  PROVE  Settled(a)'
<1>1. ASSUME UNCHANGED <<pc, call, store, spent>> PROVE Settled(a)'
  <2>1. \A w \in Workers : (Owing(w, a)' <=> Owing(w, a)) /\ Units(w)' = Units(w)
    BY <1>1 DEF Owing, Units, Account
  <2>2. \A u : u \in Owed(a)' <=> \E v \in Workers : Owing(v, a)' /\ u \in Units(v)'
    BY DEF Owed
  <2>3. Owed(a)' = Owed(a)
    BY <2>1, <2>2, OwedIs
  <2> QED
    BY <1>1, <2>3, Untouched DEF store
<1>2. ASSUME NEW w \in Workers, LogGrant(w) PROVE Settled(a)'
  BY <1>2, GrantSettles DEF BilledCalls, LogGrant
<1>3. ASSUME NEW w \in Workers, Commit(w) PROVE Settled(a)'
  BY <1>3, CommitSettles
<1>4. ASSUME NEW w \in Workers, Void(w) PROVE Settled(a)'
  BY <1>4, VoidSettles
<1>5. ASSUME NEW w \in Workers, LogFails(w) \/ VoidFails(w) PROVE Settled(a)'
  BY <1>5, FailureSettles
<1>6. ASSUME NEW m \in Meters, Crash(m) PROVE Settled(a)'
  BY <1>6, CrashSettles
<1>7. ASSUME NEW w \in Workers, NEW k \in Keys, NEW cost \in Costs, NEW record \in BOOLEAN,
             Call(w, k, cost, record)
      PROVE  Settled(a)'
  BY <1>7, OthersSettle
<1>8. ASSUME NEW w \in Workers,
             \/ StatKeys(w) \/ LoadKeys(w) \/ KeysUnreadable(w) \/ StoreCache(w)
             \/ StoreStamp(w) \/ Judge(w) \/ Deny(w) \/ Begin(w) \/ Busy(w) \/ Select(w)
             \/ OverCap(w) \/ CommitFails(w)
      PROVE  Settled(a)'
  BY <1>8, OthersSettle
<1> QED
  BY Actions, <1>1, <1>2, <1>3, <1>4, <1>5, <1>6, <1>7, <1>8 DEF Edit, TurnMonth, vars, store

Receipted == BilledCalls /\ \A a \in Accounts : Settled(a)

LEMMA ReceiptedInitially == Init => Receipted
<1> SUFFICES ASSUME Init, NEW a \in Accounts PROVE Settled(a)
  BY DEF Init, Receipted, BilledCalls
<1>1. Owed(a) = {}
  BY DEF Owed, Owing, Init
<1>2. IsFiniteSet(Owed(a)) /\ Cardinality(Owed(a)) = 0
  BY <1>1, FS_EmptySet
<1> QED
  BY <1>2 DEF Settled, Init, Zero

\* What is settled is receipted: no bill is ahead of its receipts, and with
\* nothing owed and every append there, none is short of them.
LEMMA SettledIsReceipted == TypeOK /\ Receipted => ReceiptsMatchTheBill
<1> SUFFICES ASSUME TypeOK, Receipted PROVE ReceiptsMatchTheBill
  OBVIOUS
<1>1. ASSUME NEW a \in Accounts
      PROVE  /\ usage[a] <= grants[a] - voids[a]
             /\ Quiet /\ spent.unlogged = 0 => usage[a] = grants[a] - voids[a]
  <2>1. grants[a] \in Nat /\ usage[a] \in Nat /\ voids[a] \in Nat
    BY DEF TypeOK, CountsTyped
  <2>2. /\ grants[a] >= voids[a] + usage[a] + Cardinality(Owed(a))
        /\ spent.unlogged = 0 => grants[a] = voids[a] + usage[a] + Cardinality(Owed(a))
        /\ Cardinality(Owed(a)) \in Nat
    BY FS_CardinalityType DEF Receipted, Settled
  <2>3. Quiet => Cardinality(Owed(a)) = 0
    <3>1. Quiet => Owed(a) = {}
      BY DEF Quiet, Owed, Owing
    <3> QED
      BY <3>1, FS_EmptySet
  <2> QED
    BY <2>1, <2>2, <2>3
<1> QED
  BY <1>1 DEF ReceiptsMatchTheBill, BillHasItsReceipts, Balanced

\* No call is billed whose row was not written, in any state, and grants minus
\* voids are the count whenever no call is between its row and its end, while
\* every append works and no process dies: check chains the row before it
\* commits, and the inverse row when the commit fails.
THEOREM ReceiptsHold == Spec => []ReceiptsMatchTheBill
<1>1. Init => Receipted
  BY ReceiptedInitially
<1>2. MeterInv /\ Receipted /\ [Next]_vars => Receipted'
  BY SettledStep, BilledCallsStep DEF Receipted, MeterInv
<1>3. MeterInv /\ Receipted => ReceiptsMatchTheBill
  BY SettledIsReceipted DEF MeterInv
<1> QED
  BY <1>1, <1>2, <1>3, MeterInvariant, PTL DEF Spec
===============================================================================
