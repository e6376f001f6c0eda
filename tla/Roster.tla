-------------------------------- MODULE Roster --------------------------------
(***************************************************************************)
(* The keys file of the meter: add_key and revoke_key as processes run     *)
(* them under the lock file <keys>.lock, which a process creates, judges   *)
(* by its age when it is in the way, and may break.                        *)
(* Source: src/src/arcaeon/save/meter/keys.py.                             *)
(***************************************************************************)
EXTENDS Naturals, FiniteSets

CONSTANTS Admins,     \* processes that add and revoke keys
          Keys,       \* the secrets that can be issued
          Issued,     \* those issued before, all of them active
          Calls,      \* the operations that are called for
          MaxDeaths,  \* bound on killed processes
          MaxStalls   \* bound on locks that age while their holder runs

NoOwner == "nobody"    \* there is no lock file

ASSUME AdminsAssumption == NoOwner \notin Admins
ASSUME KeysAssumption == Issued \subseteq Keys
ASSUME StoppingsAreNaturals == MaxDeaths \in Nat /\ MaxStalls \in Nat

Operations == [verb : {"add", "revoke"}, key : Keys]

ASSUME CallsAssumption == Calls \subseteq Operations

Standing == {"absent", "active", "revoked"}
Rosters == [Keys -> Standing]

VARIABLES roster, \* what the keys file says of each key
          lock,   \* who created the lock file, or NoOwner
          old,    \* whether its mtime is more than twice the timeout ago
          at,     \* where each process is in add_key or revoke_key
          op,     \* what it was called for
          doc,    \* the document it loaded
          late,   \* whether its deadline has passed
          judged, \* whose lock it found stale
          told,   \* the operations that returned
          tally   \* counters: deaths, stalls, and locks broken that were not
                  \* the one found stale

rosterVars == <<roster, lock, old, at, op, doc, late, judged, told, tally>>

Nothing == [k \in Keys |-> "absent"]
Idle == [verb |-> "none"]

(***************************************************************************)
(* idle -> open -> load -> save -> unlock -> idle; behind a lock file,     *)
(* open -> stat -> open, and stat -> break -> open when it is old.         *)
(***************************************************************************)
RosterInit ==
  /\ roster = [k \in Keys |-> IF k \in Issued THEN "active" ELSE "absent"]
  /\ lock = NoOwner /\ old = FALSE
  /\ at = [p \in Admins |-> "idle"]
  /\ op = [p \in Admins |-> Idle]
  /\ doc = [p \in Admins |-> Nothing]
  /\ late = [p \in Admins |-> FALSE]
  /\ judged = [p \in Admins |-> NoOwner]
  /\ told = {}
  /\ tally = [deaths |-> 0, stalls |-> 0, stolen |-> 0]

GoTo(p, label) == at' = [at EXCEPT ![p] = label]

\* The call or its process ends, and its local variables with it.
Leave(p, label) ==
  /\ GoTo(p, label)
  /\ op' = [op EXCEPT ![p] = Idle]
  /\ doc' = [doc EXCEPT ![p] = Nothing]
  /\ late' = [late EXCEPT ![p] = FALSE]
  /\ judged' = [judged EXCEPT ![p] = NoOwner]

\* A secret is fresh when it is issued; any key may be named to revoke_key.
Fresh(k) == roster[k] = "absent" /\ \A p \in Admins : op[p] # [verb |-> "add", key |-> k]

Call(p, o) == /\ at[p] = "idle"
              /\ o.verb = "add" => Fresh(o.key) /\ o \notin told
              /\ op' = [op EXCEPT ![p] = o]
              /\ GoTo(p, "open")
              /\ UNCHANGED <<roster, lock, old, doc, late, judged, told, tally>>

\* os.open with O_CREAT and O_EXCL succeeds.
Open(p) == /\ at[p] = "open" /\ lock = NoOwner
           /\ lock' = p /\ old' = FALSE
           /\ GoTo(p, "load")
           /\ UNCHANGED <<roster, op, doc, late, judged, told, tally>>

\* Mutant of OpenFails: the deadline is not looked at in every round.
OpenFailsAgain(p) == /\ at[p] = "open" /\ lock # NoOwner
                     /\ GoTo(p, "stat")
                     /\ UNCHANGED <<roster, lock, old, op, doc, late, judged, told, tally>>

\* It fails before the deadline.
OpenFails(p) == /\ at[p] = "open" /\ lock # NoOwner /\ ~late[p]
                /\ GoTo(p, "stat")
                /\ UNCHANGED <<roster, lock, old, op, doc, late, judged, told, tally>>

\* Mutant of TimeOut: past the deadline the work is done without the lock.
TimeOutGoesOn(p) == /\ at[p] = "open" /\ lock # NoOwner /\ late[p]
                    /\ GoTo(p, "load")
                    /\ UNCHANGED <<roster, lock, old, op, doc, late, judged, told, tally>>

\* It fails after the deadline: TimeoutError.
TimeOut(p) == /\ at[p] = "open" /\ lock # NoOwner /\ late[p]
              /\ Leave(p, "idle")
              /\ UNCHANGED <<roster, lock, old, told, tally>>

\* Mutant of Stat: a lock file in the way counts as stale whatever its age.
StatAnyAge(p) == /\ at[p] = "stat"
                 /\ GoTo(p, IF lock # NoOwner THEN "break" ELSE "open")
                 /\ judged' = [judged EXCEPT ![p] = lock]
                 /\ UNCHANGED <<roster, lock, old, op, doc, late, told, tally>>

\* The age of the lock file, if it is still there.
Stat(p) == /\ at[p] = "stat"
           /\ GoTo(p, IF lock # NoOwner /\ old THEN "break" ELSE "open")
           /\ judged' = [judged EXCEPT ![p] = lock]
           /\ UNCHANGED <<roster, lock, old, op, doc, late, told, tally>>

\* Whatever lock file is there by now is unlinked.
Break(p) == /\ at[p] = "break"
            /\ lock' = NoOwner /\ old' = FALSE
            /\ GoTo(p, "open")
            /\ tally' = IF lock \in {NoOwner, judged[p]} THEN tally
                        ELSE [tally EXCEPT !.stolen = 1]
            /\ UNCHANGED <<roster, op, doc, late, judged, told>>

\* load, and for revoke_key _find, which raises for a key that is not there.
Load(p) == /\ at[p] = "load"
           /\ doc' = [doc EXCEPT ![p] = roster]
           /\ GoTo(p, IF op[p].verb = "revoke" /\ roster[op[p].key] = "absent"
                      THEN "raise" ELSE "save")
           /\ UNCHANGED <<roster, lock, old, op, late, judged, told, tally>>

Changed(p) == [doc[p] EXCEPT ![op[p].key] =
                 IF op[p].verb = "add" THEN "active" ELSE "revoked"]

\* os.replace puts the whole new document in place.
Save(p) == /\ at[p] = "save"
           /\ roster' = Changed(p)
           /\ GoTo(p, "unlock")
           /\ UNCHANGED <<lock, old, op, doc, late, judged, told, tally>>

\* The keys file cannot be read, or the new one not be written or put in place.
LoadOrSaveFails(p) == /\ at[p] \in {"load", "save"}
                      /\ GoTo(p, "raise")
                      /\ UNCHANGED <<roster, lock, old, op, doc, late, judged, told, tally>>

\* The finally clause unlinks the lock file, whoever's it is; the call returns
\* or raises.
Unlock(p) == /\ at[p] \in {"unlock", "raise"}
             /\ lock' = NoOwner /\ old' = FALSE
             /\ told' = (IF at[p] = "unlock" THEN told \cup {op[p]} ELSE told)
             /\ Leave(p, "idle")
             /\ UNCHANGED <<roster, tally>>

Waiting == {"open", "stat", "break"}
Section == {"load", "save", "unlock", "raise"}

Deadline(p) == /\ at[p] \in Waiting /\ ~late[p]
               /\ late' = [late EXCEPT ![p] = TRUE]
               /\ UNCHANGED <<roster, lock, old, at, op, doc, judged, told, tally>>

Die(p) == /\ at[p] \notin {"idle", "dead"} /\ tally.deaths < MaxDeaths
          /\ tally' = [tally EXCEPT !.deaths = @ + 1]
          /\ Leave(p, "dead")
          /\ UNCHANGED <<roster, lock, old, told>>

Abandoned == lock \in Admins /\ at[lock] = "dead"

\* Twice the timeout passes over a lock file: its holder died, or is slow.
Age == /\ lock # NoOwner /\ ~old
       /\ Abandoned \/ tally.stalls < MaxStalls
       /\ old' = TRUE
       /\ tally' = [tally EXCEPT !.stalls = IF Abandoned THEN @ ELSE @ + 1]
       /\ UNCHANGED <<roster, lock, at, op, doc, late, judged, told>>

Try(p) == Open(p) \/ OpenFails(p) \/ TimeOut(p)
Probe(p) == Stat(p) \/ Break(p)
Work(p) == Load(p) \/ Save(p) \/ Unlock(p)

Admin(p) == \/ \E o \in Calls : Call(p, o)
            \/ Try(p) \/ Probe(p) \/ Work(p)
            \/ Deadline(p) \/ LoadOrSaveFails(p) \/ Die(p)

RosterNext == Age \/ \E p \in Admins : Admin(p)

RosterSpec == RosterInit /\ [][RosterNext]_rosterVars

(***************************************************************************)
(* Fairness.  A process that runs keeps running, and its clock advances.   *)
(* Nothing obliges it to be called, nothing obliges the processes outside  *)
(* Running to take a step, nor a lock file to grow old.                    *)
(***************************************************************************)
Fair(Running) == \A p \in Running : /\ WF_rosterVars(Try(p) \/ Probe(p) \/ Work(p))
                                    /\ WF_rosterVars(Deadline(p))

(***************************************************************************)
(* What must hold.                                                         *)
(***************************************************************************)
TypeOK == /\ roster \in Rosters
          /\ lock \in Admins \cup {NoOwner} /\ old \in BOOLEAN
          /\ at \in [Admins -> Waiting \cup Section \cup {"idle", "dead"}]
          /\ op \in [Admins -> Operations \cup {Idle}]
          /\ doc \in [Admins -> Rosters]
          /\ late \in [Admins -> BOOLEAN]
          /\ judged \in [Admins -> Admins \cup {NoOwner}]
          /\ told \subseteq Operations
          /\ tally \in [deaths : 0..MaxDeaths, stalls : 0..MaxStalls, stolen : {0, 1}]

\* Only the lock file of a dead process was ever broken, and the one judged.
Orderly == tally.stalls = 0 /\ tally.stolen = 0

\* _locked is a "cross-process mutex over the whole load-mutate-save cycle",
\* across processes that die in it and the breaking of their lock files.
Exclusive == Orderly => \A p \in Admins : at[p] \in Section => lock = p

\* What add_key or revoke_key reported done is in the keys file, whatever the
\* processes after it loaded, changed and saved.
Kept == /\ \A o \in told : roster[o.key] # "absent"
        /\ \A o \in told : o.verb = "revoke" => roster[o.key] = "revoked"
ReportedIsKept == Orderly => Kept

\* A key that was revoked is not active again: revocation has no way back.
RevocationIsFinal ==
  [][Orderly => \A k \in Keys : roster[k] = "revoked" => roster'[k] = "revoked"]_rosterVars

\* A running process's call ends, with its work done or with TimeoutError, although lock files
\* come and go, or stay, in front of it.
CallReturns(Running) == \A p \in Running : at[p] = "open" ~> at[p] \in {"idle", "dead"}
=============================================================================
