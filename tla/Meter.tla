--------------------------------- MODULE Meter ---------------------------------
(***************************************************************************)
(* Meter.check: a call is judged by the keys file, counted in a SQLite     *)
(* transaction, and its receipt chained in the ledger before the count is  *)
(* committed.  Several processes, each with a Meter of its own, and the    *)
(* threads of a process on one Meter, share the keys file, the database    *)
(* and the ledger.  Source: src/src/arcaeon/save/meter/__init__.py.        *)
(*                                                                         *)
(* The keys file changes in one step, which is what Roster shows of it; a  *)
(* ledger append is one step as well, which is what Ledger shows; of the   *)
(* rows, what they add up to is kept.                                      *)
(***************************************************************************)
EXTENDS Integers, FiniteSets

CONSTANTS Workers,    \* threads that call check
          Meters,     \* Meter objects, one in each process
          MeterOf,    \* the Meter each worker uses
          Keys,       \* the keys presented
          Entries,    \* the entries a key may have, among their caps
          Unlimited,  \* "monthly_cap": null, and
          NoCap,      \* nothing that is a cap
          Costs,      \* the costs of calls
          MaxMonth, MaxEdits, MaxCalls, MaxMishaps   \* bounds

Nobody == "nobody"          \* no transaction holds the database

ASSUME WorkersAssumption == Nobody \notin Workers /\ MeterOf \in [Workers -> Meters]
Caps == Nat \cup {Unlimited, NoCap}
ASSUME EntriesAssumption == \A e \in Entries : /\ e.standing \in {"active", "revoked", "absent"}
                                               /\ e.cap \in Caps
ASSUME CapsAssumption == Unlimited \notin Nat /\ NoCap \notin Nat /\ Unlimited # NoCap
ASSUME CostsAssumption == Costs \subseteq Nat \ {0}
ASSUME BoundsAssumption == /\ MaxMonth \in Nat \ {0} /\ MaxEdits \in Nat
                           /\ MaxCalls \in Nat /\ MaxMishaps \in Nat

Months == 1..MaxMonth
Accounts == Keys \X Months
Rosters == [Keys -> Entries]

VARIABLES roster,  \* the keys file
          rev,     \* its stat stamp
          month,   \* the billing month
          cache,   \* each Meter's _keys_cache
          stamp,   \* and _keys_mtime, -1 when nothing was loaded
          pc, call,\* where each worker is in check, and its local variables
          txn,     \* the worker whose IMMEDIATE transaction is open, or Nobody
          usage,   \* the committed counts
          granted, \* what the Allowances returned add up to
          grants, voids, \* what the ledger's meter.grant and meter.void rows add up to
          spent    \* counters: calls, failed commits, and unlogged ends of a transaction

vars == <<roster, rev, month, cache, stamp, pc, call, txn, usage, granted, grants, voids, spent>>
store == <<usage, granted, grants, voids>>   \* what a transaction leaves behind
keys == <<roster, rev, month, cache, stamp>>

Zero == [a \in Accounts |-> 0]
Add(count, a, n) == [count EXCEPT ![a] = @ + n]

Init == /\ roster \in Rosters /\ rev = 0 /\ month = 1
        /\ cache = [m \in Meters |-> <<>>]
        /\ stamp = [m \in Meters |-> -1]
        /\ pc = [w \in Workers |-> "idle"]
        /\ call = [w \in Workers |-> <<>>]
        /\ txn = Nobody
        /\ usage = Zero /\ granted = Zero /\ grants = Zero /\ voids = Zero
        /\ spent = [calls |-> 0, commits |-> 0, unlogged |-> 0]

Goto(w, label) == pc' = [pc EXCEPT ![w] = label]
Set(w, field, value) == call' = [call EXCEPT ![w][field] = value]
\* check returns or raises, and its local variables are gone.
End(w) == Goto(w, "idle") /\ call' = [call EXCEPT ![w] = <<>>]
Account(w) == <<call[w].key, call[w].month>>

(***************************************************************************)
(* The world: the keys file is replaced, the month turns.                  *)
(***************************************************************************)
\* A revoked key stays revoked, as Roster shows; the rest may be edited.
Edit(k, e) == /\ rev < MaxEdits /\ e # roster[k]
              /\ roster[k].standing = "revoked" => e.standing = "revoked"
              /\ roster' = [roster EXCEPT ![k] = e]
              /\ rev' = rev + 1
              /\ UNCHANGED <<month, cache, stamp, pc, call, txn, store, spent>>

TurnMonth == /\ month < MaxMonth
             /\ month' = month + 1
             /\ UNCHANGED <<roster, rev, cache, stamp, pc, call, txn, store, spent>>

(***************************************************************************)
(* check, up to the verdict on the key.                                    *)
(***************************************************************************)
Call(w, k, cost, record) ==
  /\ pc[w] = "idle" /\ spent.calls < MaxCalls
  /\ spent' = [spent EXCEPT !.calls = @ + 1]
  /\ call' = [call EXCEPT ![w] = [key |-> k, cost |-> cost, record |-> record,
                                  month |-> month, seen |-> -1, doc |-> <<>>,
                                  cap |-> NoCap, used |-> 0,
                                  revoked |-> roster[k].standing = "revoked"]]
  /\ Goto(w, "stat")
  /\ UNCHANGED <<keys, txn, store>>

\* _load_keys: the cache is good for the stamp it was loaded under.
StatKeys(w) == /\ pc[w] = "stat"
               /\ Set(w, "seen", rev)
               /\ Goto(w, IF stamp[MeterOf[w]] = rev THEN "judge" ELSE "load")
               /\ UNCHANGED <<keys, txn, store, spent>>

LoadKeys(w) == /\ pc[w] = "load"
               /\ Set(w, "doc", roster)
               /\ Goto(w, "cache")
               /\ UNCHANGED <<keys, txn, store, spent>>

\* The keys file cannot be read: keys_unreadable.
KeysUnreadable(w) == /\ pc[w] \in {"stat", "load"}
                     /\ Goto(w, "deny")
                     /\ UNCHANGED <<keys, call, txn, store, spent>>

StoreCache(w) == /\ pc[w] = "cache"
                 /\ cache' = [cache EXCEPT ![MeterOf[w]] = call[w].doc]
                 /\ Goto(w, "stamp")
                 /\ UNCHANGED <<roster, rev, month, stamp, call, txn, store, spent>>

\* Mutant of StoreStamp: the stamp is taken after the load instead of before.
StoreStampAfter(w) == /\ pc[w] = "stamp"
                      /\ stamp' = [stamp EXCEPT ![MeterOf[w]] = rev]
                      /\ Goto(w, "judge")
                      /\ UNCHANGED <<roster, rev, month, cache, call, txn, store, spent>>

StoreStamp(w) == /\ pc[w] = "stamp"
                 /\ stamp' = [stamp EXCEPT ![MeterOf[w]] = call[w].seen]
                 /\ Goto(w, "judge")
                 /\ UNCHANGED <<roster, rev, month, cache, call, txn, store, spent>>

Authorized(e) == e.standing = "active" /\ e.cap # NoCap

\* The entry, taken from the cache: unknown, revoked and capless keys are denied.
Judge(w) == LET e == cache[MeterOf[w]][call[w].key]
            IN  /\ pc[w] = "judge"
                /\ call' = [call EXCEPT ![w].cap = e.cap, ![w].seen = -1, ![w].doc = <<>>]
                /\ Goto(w, IF Authorized(e) THEN "begin" ELSE "deny")
                /\ UNCHANGED <<keys, txn, store, spent>>

\* _deny: the row is chained, or the append raises to the caller.
Deny(w) == /\ pc[w] = "deny"
           /\ End(w)
           /\ UNCHANGED <<keys, txn, store, spent>>

(***************************************************************************)
(* The transaction.                                                        *)
(***************************************************************************)
\* Mutant of Begin: a deferred transaction takes no lock.
BeginDeferred(w) == /\ pc[w] = "begin"
                    /\ txn' = w
                    /\ Goto(w, "select")
                    /\ UNCHANGED <<keys, call, store, spent>>

Begin(w) == /\ pc[w] = "begin" /\ txn = Nobody
            /\ txn' = w
            /\ Goto(w, "select")
            /\ UNCHANGED <<keys, call, store, spent>>

\* The database stays locked past the busy timeout: the call raises.
Busy(w) == /\ pc[w] = "begin" /\ txn # Nobody
           /\ End(w)
           /\ UNCHANGED <<keys, txn, store, spent>>

\* Mutant of Fits: the cost of the call is not added.
FitsSoFar(w, n) == call[w].cap # Unlimited => n < call[w].cap

Fits(w, n) == call[w].cap # Unlimited => n + call[w].cost <= call[w].cap

Free(w) == txn' = IF txn = w THEN Nobody ELSE txn

\* The count is read, and increased in the open transaction.
Select(w) == /\ pc[w] = "select" /\ Fits(w, usage[Account(w)])
             /\ Set(w, "used", usage[Account(w)] + IF call[w].record THEN call[w].cost ELSE 0)
             /\ Goto(w, IF call[w].record THEN "log" ELSE "commit")
             /\ UNCHANGED <<keys, txn, store, spent>>

OverCap(w) == /\ pc[w] = "select" /\ ~Fits(w, usage[Account(w)])
              /\ Free(w)
              /\ Goto(w, "deny")
              /\ UNCHANGED <<keys, call, store, spent>>

\* The meter.grant row, before the commit.
LogGrant(w) == /\ pc[w] = "log"
               /\ grants' = Add(grants, Account(w), call[w].cost)
               /\ Goto(w, "commit")
               /\ UNCHANGED <<keys, call, txn, usage, granted, voids, spent>>

Mishaps == spent.commits + spent.unlogged
Fail(kind) == Mishaps < MaxMishaps /\ spent' = [spent EXCEPT ![kind] = @ + 1]

\* The append raises, its row in the ledger or not; the count is rolled back.
LogFails(w) == /\ pc[w] = "log" /\ Fail("unlogged")
               /\ grants' \in {grants, Add(grants, Account(w), call[w].cost)}
               /\ Free(w)
               /\ End(w)
               /\ UNCHANGED <<keys, usage, granted, voids>>

Commit(w) == /\ pc[w] = "commit"
             /\ IF call[w].record
                THEN /\ usage' = [usage EXCEPT ![Account(w)] = call[w].used]
                     /\ granted' = Add(granted, Account(w), call[w].cost)
                ELSE UNCHANGED <<usage, granted>>
             /\ Free(w)
             /\ End(w)
             /\ UNCHANGED <<keys, grants, voids, spent>>

\* COMMIT fails: SQLite has no such grant, and may have ended the transaction.
CommitFails(w) == /\ pc[w] = "commit" /\ Fail("commits")
                  /\ Goto(w, "void")
                  /\ Free(w) \/ UNCHANGED txn
                  /\ UNCHANGED <<keys, call, store>>

\* Mutant of Void: the exception is raised and no inverse row chained.
VoidNothing(w) == /\ pc[w] = "void"
                  /\ Free(w)
                  /\ End(w)
                  /\ UNCHANGED <<keys, store, spent>>

\* The inverse row is chained, and the exception goes on to the caller.
Void(w) == /\ pc[w] = "void"
           /\ voids' = (IF call[w].record THEN Add(voids, Account(w), call[w].cost) ELSE voids)
           /\ Free(w)
           /\ End(w)
           /\ UNCHANGED <<keys, usage, granted, grants, spent>>

\* The void row's append fails as well, and that is suppressed.
VoidFails(w) == /\ pc[w] = "void"
                /\ spent' = [spent EXCEPT !.unlogged = @ + 1]
                /\ Free(w)
                /\ End(w)
                /\ UNCHANGED <<keys, store>>

\* A process is killed with all its workers; SQLite rolls its transaction back,
\* unless the commit was through.
Crash(m) == LET dying == {w \in Workers : MeterOf[w] = m}
            IN  /\ \E w \in dying : pc[w] # "idle"
                /\ Fail("unlogged")
                /\ pc' = [w \in Workers |-> IF w \in dying THEN "idle" ELSE pc[w]]
                /\ txn' = IF txn \in dying THEN Nobody ELSE txn
                /\ stamp' = [stamp EXCEPT ![m] = -1]
                /\ cache' = [cache EXCEPT ![m] = <<>>]
                /\ call' = [w \in Workers |-> IF w \in dying THEN <<>> ELSE call[w]]
                /\ \/ UNCHANGED usage
                   \/ \E w \in dying : /\ pc[w] = "commit" /\ call[w].record
                                       /\ usage' = [usage EXCEPT ![Account(w)] = call[w].used]
                /\ UNCHANGED <<roster, rev, month, granted, grants, voids>>

Worker(w) ==
  \/ \E k \in Keys, cost \in Costs, record \in BOOLEAN : Call(w, k, cost, record)
  \/ StatKeys(w) \/ LoadKeys(w) \/ KeysUnreadable(w) \/ StoreCache(w) \/ StoreStamp(w)
  \/ Judge(w) \/ Deny(w)
  \/ Begin(w) \/ Busy(w) \/ Select(w) \/ OverCap(w) \/ LogGrant(w) \/ LogFails(w)
  \/ Commit(w) \/ CommitFails(w) \/ Void(w) \/ VoidFails(w)

Next == \/ \E k \in Keys, e \in Entries : Edit(k, e)
        \/ TurnMonth
        \/ \E w \in Workers : Worker(w)
        \/ \E m \in Meters : Crash(m)

Spec == Init /\ [][Next]_vars
(***************************************************************************)
(* What must hold.                                                         *)
(***************************************************************************)
Locals == [key : Keys, cost : Costs, record : BOOLEAN, month : Months, seen : -1..MaxEdits,
           doc : Rosters \cup {<<>>}, cap : Caps, used : Nat, revoked : BOOLEAN]
Judging == {"stat", "load", "cache", "stamp", "judge", "deny", "begin"}
Open == {"select", "log", "commit", "void"}

KeysTyped == /\ roster \in Rosters /\ rev \in 0..MaxEdits /\ month \in Months
             /\ cache \in [Meters -> Rosters \cup {<<>>}]
             /\ stamp \in [Meters -> -1..MaxEdits]
CallsTyped == /\ pc \in [Workers -> Judging \cup Open \cup {"idle"}]
              /\ call \in [Workers -> Locals \cup {<<>>}]
              /\ \A w \in Workers : pc[w] # "idle" => call[w] \in Locals
CountsTyped == /\ usage \in [Accounts -> Nat] /\ granted \in [Accounts -> Nat]
               /\ grants \in [Accounts -> Nat] /\ voids \in [Accounts -> Nat]
SpentTyped == spent \in [calls : Nat, commits : Nat, unlogged : Nat]

\* The database is locked by nobody that left its transaction.
TxnTyped == txn \in {Nobody} \cup {w \in Workers : pc[w] \in Open}

TypeOK == KeysTyped /\ CallsTyped /\ CountsTyped /\ SpentTyped /\ TxnTyped

\* "Two workers can't both take the last slot under the cap": what a key was
\* allowed in a month never grows past the cap its call was judged by, whatever
\* other workers do and whenever the cap is edited.
CapIsKept ==
  [][\A a \in Accounts : granted'[a] # granted[a] =>
       \E w \in Workers : /\ pc[w] = "commit" /\ Account(w) = a
                          /\ call[w].cap # Unlimited => granted'[a] <= call[w].cap]_vars

\* "Concurrent processes don't lose counts", nor does a crash or a failed write:
\* every Allowance is billed, and nothing else is unless a process died.
AllowancesAreBilled ==
  \A a \in Accounts : /\ granted[a] <= usage[a]
                      /\ spent.unlogged = 0 => granted[a] = usage[a]

\* No call is billed "whose ledger row was never written", in any state.
BillHasItsReceipts == \A a \in Accounts : usage[a] <= grants[a] - voids[a]

\* "Grants minus voids == the billed count", across failed commits, while every
\* append of the ledger works and no process is killed; when one does not or
\* is, the bill may be short of its receipts, never ahead of them.
Quiet == \A w \in Workers : pc[w] \notin {"commit", "void"}
Balanced == \A a \in Accounts : usage[a] = grants[a] - voids[a]
ReceiptsMatchTheBill == BillHasItsReceipts /\ ((Quiet /\ spent.unlogged = 0) => Balanced)

\* "A CLI revocation takes effect in a running server without a restart": a call
\* that began after it is not counted, whatever was in the cache.
RevokedIsRefused == \A w \in Workers : pc[w] \in {"begin"} \cup Open => ~call[w].revoked
=============================================================================
