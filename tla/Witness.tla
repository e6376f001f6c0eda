------------------------------- MODULE Witness -------------------------------
(***************************************************************************)
(* Pinning a log's head outside: publish_head, WitnessStore.record and     *)
(* verify_against_witness, at work beside the program that appends to the  *)
(* log.  Source: src/src/arcaeon/record/ledger/witness.py, and Ledger.head *)
(* in record/ledger/__init__.py.                                           *)
(*                                                                         *)
(* The library's own append is one step here, which is what Ledger shows   *)
(* of it.  head(), record() and verify_against_witness() are not: each     *)
(* reads a file several times, and nothing locks the pin file.  The pin    *)
(* file is a sequence of lines as in LedgerLog; a pin's digest is the pin  *)
(* without its derived fields.  Its as_of counts seconds, so two heads can *)
(* bear the same stamp; a stamp of 0 is that of a pin made before all that *)
(* happens here.  Whether a pin was edited is not in the file: properties  *)
(* speak of it.                                                            *)
(***************************************************************************)
EXTENDS LedgerLog

CONSTANTS Publishers,    \* processes that call publish_head
          Overlapping,   \* what may run at the same time, see Beside
          Clock,         \* the second it is when the n-th head is taken
          MaxRows, MaxPublishes, MaxAudits, MaxMishaps  \* bounds

ASSUME OverlappingIsKnown == Overlapping \subseteq {"append/publish", "publish/audit"}
ASSUME ClockAssumption == /\ MaxPublishes \in Nat
                          /\ Clock \in [1..MaxPublishes -> Nat \ {0}]

VARIABLES file,    \* the log
          pins,    \* the pin file
          pub,     \* each publisher's progress and what it read
          audit,   \* the progress of verify_against_witness and what it read
          damage,  \* steps that rewrote or cut the log, or edited the pin file
          mixed,   \* what did run at the same time
          crashes, publishes, audits,   \* counters
          returned \* what record returned: the pin and the log it was taken from

vars == <<file, pins, pub, audit, damage, mixed, crashes, publishes, audits, returned>>

(***************************************************************************)
(* The pin file.                                                           *)
(***************************************************************************)
WitnessGenesis == [rows |-> -1, chain |-> Genesis, stamp |-> 0]  \* _WITNESS_GENESIS
NoDigest == [rows |-> -2, chain |-> Genesis, stamp |-> 0]  \* of a pin older than the pin chain

Digest(p) == [rows |-> p.rows, chain |-> p.chain, stamp |-> p.stamp]     \* _digest_record
MakePin(rows, chain, stamp, prev) ==
  [kind |-> "pin", rows |-> rows, chain |-> chain, stamp |-> stamp, prev |-> prev,
   self |-> [rows |-> rows, chain |-> chain, stamp |-> stamp], edited |-> FALSE]

IsPin(s, i) == Kind(s[i]) = "pin"

LastPin(s, n) == CHOOSE i \in 1..n : IsPin(s, i) /\ \A j \in i+1..n : ~IsPin(s, j)

\* The digest of the last pin of the first n lines: _tail_digest, and what
\* verify expects the next pin's prev to be.
TailDigest(s, n) == IF \E i \in 1..n : IsPin(s, i)
                    THEN Digest(s[LastPin(s, n)][1]) ELSE WitnessGenesis

ChainedPin(s, i) == IsPin(s, i) /\ s[i][1].prev # NoDigest

PinBroken(s, i) ==
  \/ Kind(s[i]) = "scrap"
  \/ IsPin(s, i) /\ ~ChainedPin(s, i) /\ \E j \in 1..i-1 : ChainedPin(s, j)
  \/ ChainedPin(s, i) /\ \/ s[i][1].prev # TailDigest(s, i-1)
                         \/ s[i][1].self # Digest(s[i][1])

\* WitnessStore.verify.  An absent file is a False that holds no pins.
PinCount(s) == Lines(s, LAMBDA i : IsPin(s, i))

StoreOk(s) == IF s = <<>> \/ \E i \in 1..Len(s) : PinBroken(s, i) THEN "False"
              ELSE IF \A i \in 1..Len(s) : ~ChainedPin(s, i) THEN "None"
              ELSE IF \E i \in 1..Len(s) : IsPin(s, i) /\ ~ChainedPin(s, i) THEN "None"
              ELSE "True"

\* history: the lines that hold pins; latest is the last of them.
History(s) == {i \in 1..Len(s) : IsPin(s, i)}

(***************************************************************************)
(* Initially the log and the store are absent, or hold a row and a pin of  *)
(* it from before pins were chained.                                       *)
(***************************************************************************)
IdlePublisher == [at |-> "idle", rows |-> 0, ok |-> "False", chain |-> Genesis, stamp |-> 0,
                  prev |-> WitnessGenesis, taken |-> <<>>]
IdleAudit == [at |-> "idle", latest |-> MakePin(0, Genesis, 0, NoDigest), rows |-> 0,
              pins |-> <<>>, due |-> 0, verdict |-> "none"]

LegacyPin(body) == [MakePin(1, <<body>>, 0, NoDigest) EXCEPT !.self = NoDigest]

Init == /\ \/ file = <<>> /\ pins = <<>>
           \/ \E b \in Content : /\ file = Put(<<>>, FALSE, <<Row(b, Genesis)>>, TRUE)
                                 /\ pins = Put(<<>>, FALSE, <<LegacyPin(b)>>, TRUE)
        /\ pub = [p \in Publishers |-> IdlePublisher]
        /\ audit = IdleAudit
        /\ damage = 0 /\ mixed = {} /\ crashes = 0 /\ publishes = 0 /\ audits = 0
        /\ returned = <<>>

Publishing == \E p \in Publishers : pub[p].at # "idle"
Auditing == audit.at # "idle"

\* Rows are appended between publications and pins are published between
\* audits, or beside them where Overlapping says so.
Beside(pair, busy) == /\ busy => pair \in Overlapping
                      /\ mixed' = IF busy THEN mixed \cup {pair} ELSE mixed

(***************************************************************************)
(* The log.                                                                *)
(***************************************************************************)
LibraryAppend(b) ==
  /\ Len(file) <= MaxRows
  /\ Beside("append/publish", Publishing)
  /\ file' = Put(file, ~EndsInNewline(file), <<Row(b, LastChain(file))>>, TRUE)
  /\ UNCHANGED <<pins, pub, audit, damage, crashes, publishes, audits, returned>>

\* Damage happens before or after a publication or an audit: each speaks of the
\* files as they were while it ran.
Damages == /\ damage + crashes < MaxMishaps /\ ~Auditing /\ ~Publishing /\ damage' = damage + 1
           /\ UNCHANGED <<pub, audit, mixed, crashes, publishes, audits, returned>>

\* Line i and all after it cut off.
Truncate(i) == /\ i < Len(file) /\ Damages
               /\ file' = [SubSeq(file, 1, i) EXCEPT ![i] = <<>>]
               /\ UNCHANGED pins

\* The log cut at line i and the rest minted again, every chain recomputed.
Remint(i, b) == /\ i < Len(file) /\ Damages
                /\ LET kept == [SubSeq(file, 1, i) EXCEPT ![i] = <<>>]
                   IN  file' = Put(kept, FALSE, <<Row(b, LastChain(kept))>>, TRUE)
                /\ UNCHANGED pins

\* A stored pin edited to agree with what the log says now, or removed while
\* pins follow it.
EditPin(i) == /\ IsPin(pins, i) /\ Damages
              /\ LET now == [pins[i][1] EXCEPT !.rows = RowCount(file), !.chain = LastChain(file),
                                               !.edited = TRUE]
                 IN  Digest(now) # Digest(pins[i][1]) /\ pins' = [pins EXCEPT ![i] = <<now>>]
              /\ UNCHANGED file

DropPin(i) == /\ IsPin(pins, i) /\ Damages
              /\ \E j \in i+1..Len(pins) : IsPin(pins, j)
              /\ pins' = [j \in 1..Len(pins)-1 |-> pins[IF j < i THEN j ELSE j+1]]
              /\ UNCHANGED file

(***************************************************************************)
(* publish_head: head() counts the rows of a verified file, then reads the *)
(* tail; record() reads the history, then the last pin, then writes.       *)
(***************************************************************************)
Step(p, new) == /\ pub' = [pub EXCEPT ![p] = new]
                /\ UNCHANGED <<file, audit, damage, audits>>

HeadVerify(p) == /\ pub[p].at = "idle" /\ publishes < MaxPublishes
                 /\ Beside("publish/audit", Auditing)
                 /\ publishes' = publishes + 1
                 /\ Step(p, [IdlePublisher EXCEPT !.at = "tip", !.rows = RowCount(file),
                                                  !.ok = HeadOk(file)])
                 /\ UNCHANGED <<pins, crashes, returned>>

\* The tail, and publish_head's refusals: a head that does not verify, and one
\* of no rows.
HeadTip(p) == /\ pub[p].at = "tip"
              /\ LET refused == pub[p].ok = "False" \/ pub[p].rows = 0
                 IN  Step(p, IF refused THEN IdlePublisher
                             ELSE [pub[p] EXCEPT !.at = "guard", !.chain = LastChain(file),
                                                 !.stamp = Clock[publishes], !.taken = file])
              /\ UNCHANGED <<pins, mixed, crashes, publishes, returned>>

\* Mutant of Backward: off by one row.
BackwardByMore(s, p) == \E i \in 1..Len(s) : IsPin(s, i) /\ s[i][1].rows > pub[p].rows + 1
Backward(s, p) == \E i \in 1..Len(s) : IsPin(s, i) /\ s[i][1].rows > pub[p].rows
Equivocates(s, p) == \E i \in 1..Len(s) : /\ IsPin(s, i) /\ s[i][1].rows = pub[p].rows
                                          /\ s[i][1].chain # pub[p].chain

\* The guards over the history: never backward, one head per height.
RecordGuards(p) ==
  /\ pub[p].at = "guard"
  /\ Step(p, IF Backward(pins, p) \/ Equivocates(pins, p) THEN IdlePublisher
             ELSE [pub[p] EXCEPT !.at = "link"])
  /\ UNCHANGED <<pins, mixed, crashes, publishes, returned>>

RecordLink(p) == /\ pub[p].at = "link"
                 /\ Step(p, [pub[p] EXCEPT !.at = "write", !.prev = TailDigest(pins, Len(pins))])
                 /\ UNCHANGED <<pins, mixed, crashes, publishes, returned>>

NewPin(p) == MakePin(pub[p].rows, pub[p].chain, pub[p].stamp, pub[p].prev)

\* One write at the end of the file, whatever it ends in.
RecordWrite(p) == /\ pub[p].at = "write"
                  /\ pins' = Put(pins, FALSE, <<NewPin(p)>>, TRUE)
                  /\ returned' = Append(returned, [pin |-> NewPin(p), taken |-> pub[p].taken])
                  /\ Step(p, IdlePublisher)
                  /\ UNCHANGED <<mixed, crashes, publishes>>

\* The publisher is killed, in the write with any part of the pin landed.
Crash(p) == /\ pub[p].at # "idle" /\ damage + crashes < MaxMishaps
            /\ crashes' = crashes + 1
            /\ pins' \in IF pub[p].at = "write" THEN Landings(pins, FALSE, NewPin(p)) ELSE {pins}
            /\ Step(p, IdlePublisher)
            /\ UNCHANGED <<mixed, publishes, returned>>

Publisher(p) == \/ HeadVerify(p) \/ HeadTip(p) \/ RecordGuards(p)
                \/ RecordLink(p) \/ RecordWrite(p) \/ Crash(p)

(***************************************************************************)
(* verify_against_witness: the pin file's own chain, the log's own chain,  *)
(* the latest pin, the local head, the history, and a comparison of each   *)
(* pin at its own height.                                                  *)
(***************************************************************************)
AuditStep(new) == /\ audit' = new
                  /\ UNCHANGED <<file, pins, pub, damage, crashes, publishes, returned>>

Say(v) == AuditStep([IdleAudit EXCEPT !.verdict = v, !.due = audit.due])

AuditStore == /\ audit.at = "idle" /\ audits < MaxAudits
              /\ Beside("publish/audit", Publishing)
              /\ audits' = audits + 1
              /\ LET start == [IdleAudit EXCEPT !.due = Len(returned)]
                 IN  AuditStep(IF StoreOk(pins) = "False" /\ PinCount(pins) > 0
                               THEN [start EXCEPT !.verdict = "witness_broken"]
                               ELSE [start EXCEPT !.at = "local"])

AuditLocal == /\ audit.at = "local" /\ UNCHANGED <<audits, mixed>>
              /\ IF Ok(file, FALSE) = "False" THEN Say("local_broken")
                 ELSE AuditStep([audit EXCEPT !.at = "latest"])

AuditLatest == /\ audit.at = "latest" /\ UNCHANGED <<audits, mixed>>
               /\ IF PinCount(pins) = 0 THEN Say("no_record")
                  ELSE AuditStep([audit EXCEPT !.at = "head",
                                               !.latest = pins[LastPin(pins, Len(pins))][1]])

AuditHead == /\ audit.at = "head" /\ UNCHANGED <<audits, mixed>>
             /\ AuditStep([audit EXCEPT !.at = "history", !.rows = RowCount(file)])

AuditHistory ==
  /\ audit.at = "history" /\ UNCHANGED <<audits, mixed>>
  /\ LET h == History(pins)
     IN  IF \E i, j \in h : /\ pins[i][1].rows = pins[j][1].rows /\ pins[i][1].rows # 0
                            /\ pins[i][1].chain # pins[j][1].chain
         THEN Say("witness_broken")
         ELSE AuditStep([audit EXCEPT !.at = "compare", !.pins = pins])

\* _compare, for one pin; "neither" is a pin that is not comparable.
Compare(p) ==
  LET here == ChainAt(file, p.rows)
  IN  CASE p.rows = 0 -> "no_record"
        [] p.rows > audit.rows -> "truncated"
        [] p.rows \in 1..audit.rows ->
             IF here = NoChain THEN IF p.chain = Genesis THEN "neither" ELSE "truncated"
             ELSE IF here # p.chain THEN "rewritten" ELSE "consistent"

Accusations == {"truncated", "rewritten"}

\* Mutant of Verdict: only the latest pin is compared.
VerdictOfLatest == IF Compare(audit.latest) = "neither" THEN "no_record" ELSE Compare(audit.latest)

\* The latest pin first, then the others in order.
Verdict ==
  LET last == Compare(audit.latest)
      Found == {i \in History(audit.pins) : Compare(audit.pins[i][1]) \in Accusations}
      first == CHOOSE i \in Found : \A j \in Found : i <= j
      agreed == \E i \in History(audit.pins) : Compare(audit.pins[i][1]) = "consistent"
  IN  IF last \in Accusations THEN last
      ELSE IF Found # {} THEN Compare(audit.pins[first][1])
      ELSE IF last # "neither" THEN last
      ELSE IF agreed THEN "consistent" ELSE "no_record"

AuditCompare == audit.at = "compare" /\ UNCHANGED <<audits, mixed>> /\ Say(Verdict)

Auditor == AuditStore \/ AuditLocal \/ AuditLatest \/ AuditHead \/ AuditHistory \/ AuditCompare

Next == \/ \E b \in Content : LibraryAppend(b)
        \/ \E i \in 1..Len(file) : Truncate(i)
        \/ \E i \in 1..Len(file), b \in Content : Remint(i, b)
        \/ \E i \in 1..Len(pins) : EditPin(i) \/ DropPin(i)
        \/ \E p \in Publishers : Publisher(p)
        \/ Auditor

Spec == Init /\ [][Next]_vars
(***************************************************************************)
(* What must hold.                                                         *)
(***************************************************************************)
\* A pin nobody has edited.
Genuine(i) == IsPin(pins, i) /\ ~pins[i][1].edited

\* WitnessStore.record: "a witness never goes backward", and "never holds two
\* different heads at one row count".
NeverBackward ==
  \A i, j \in 1..Len(pins) :
    (i < j /\ Genuine(i) /\ Genuine(j)) =>
      \/ pins[i][1].rows < pins[j][1].rows
      \/ <<pins[i][1].rows, pins[i][1].chain>> = <<pins[j][1].rows, pins[j][1].chain>>

\* "consistent" is never said of a log that lost or changed a row under a pin
\* the witness had taken before the audit began, even when the log was re-minted
\* and pinned again, or a stored pin was edited to agree with it.
ConsistentIsTrue ==
  [][AuditCompare /\ audit'.verdict = "consistent" =>
       \A n \in 1..audit.due :
         \A k \in 1..returned[n].pin.rows :
           ChainAt(file, k) # NoChain /\ ChainAt(file, k) = ChainAt(returned[n].taken, k)]_vars

\* "truncated" and "rewritten" are positive detections, and a witness file is
\* broken when it was tampered with: none is said of a log that was only ever
\* appended to and of a store only record wrote, if no write was torn.
NeverAccused == (damage = 0 /\ crashes = 0 /\ mixed = {}) =>
                  audit.verdict \notin Accusations \cup {"witness_broken"}
=============================================================================
