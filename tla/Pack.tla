-------------------------------- MODULE Pack --------------------------------
(***************************************************************************)
(* An evidence pack: what build_pack writes of a log and its pins, what    *)
(* can happen to the folder afterwards, and what verify_pack says of it.   *)
(* Source: src/src/arcaeon/prove/evidence_pack.py, evidence_pack_verify.py *)
(* and the export in prove/audit/__init__.py.                              *)
(*                                                                         *)
(* A folder is a record of file contents, Null where a file is absent.     *)
(* The sha256 of a file is its content, so a hash differs exactly when the *)
(* content does.  Page one is its sentences, each with its bearer class.   *)
(* The log is a file of LedgerLog and all its rows are chained; a body     *)
(* says who acted, when (Null: a time that cannot be read) and what event  *)
(* the mandate gate rowed.  Left out: remote witnesses, the folded deal    *)
(* and readings, pins over rows that carry no chain, and zip files.        *)
(***************************************************************************)
EXTENDS LedgerLog, SequencesExt

CONSTANTS Null,        \* no file, no bound, no option
          Own, Alt,    \* the log's namespace, and another one
          Subjects,    \* what a log may be about: [bodies, options, rows, pins, rewrites, folder]
          MaxTime, MaxEdits                              \* bounds

\* bodies holds what may be written at each second.
ASSUME BodiesAreContent ==
  MaxTime \in Nat /\ \A s \in Subjects : s.bodies \in [0..MaxTime -> SUBSET Content]

\* One clock: no row carries a time later than the second it is written at.
ASSUME BodiesAreDated ==
  \A s \in Subjects : \A t \in 0..MaxTime : \A b \in s.bodies[t] : b.ts \in {Null} \cup 0..t

Verdicts == {"consistent", "truncated", "rewritten", "no_record", "local_broken",
             "witness_broken"}

ASSUME NullIsApart == Null \notin {Own, Alt} \cup Verdicts

VARIABLES subject,  \* the one of Subjects this log is about
          log,      \* the ledger
          pins,     \* the pin file: pins in the order they were recorded
          intact,   \* whether the pin file's own chain holds
          clock,    \* whole seconds
          pack,     \* the pack folder, Null before the build
          rewrites, \* steps that rewrote the ledger
          edits     \* steps that changed the folder

packVars == <<subject, log, pins, intact, clock, pack, rewrites, edits>>

V == "VERIFIED"
B == "BROKEN"
C == "COULD NOT LOOK"

Worst(words) == IF B \in words THEN B ELSE IF C \in words THEN C ELSE V    \* _worst

\* _lines: the lines of a file, the open last one only when it holds bytes.
FileLines(f) == IF f # <<>> /\ f[Len(f)] = <<>> THEN Len(f) - 1 ELSE Len(f)
BodyOf(f, n) == Body(f, CHOOSE i \in 1..Len(f) : IsRow(f, i) /\ RowNumber(f, i) = n)
BodiesOf(f) == [n \in 1..RowCount(f) |-> BodyOf(f, n)]

\* A set of numbers in its order, and what a sequence holds at them.
InOrder(S) == [k \in 1..Cardinality(S) |-> CHOOSE n \in S : Cardinality({m \in S : m < n}) = k - 1]
Picked(s, S) == LET at == InOrder(S) IN [k \in DOMAIN at |-> s[at[k]]]

(***************************************************************************)
(* The witness, as Witness shows it: the audit of a file against the pins  *)
(* of a namespace among those at J, in one step because nothing else runs. *)
(***************************************************************************)
OfNs(P, J, ns) == {i \in J : P[i].ns = ns}
Namespaces(P) == {P[i].ns : i \in DOMAIN P}

Disagrees(f, p) == p.rows > RowCount(f) \/ ChainAt(f, p.rows) # p.chain

Audit(f, P, J, whole, ns) ==
  LET H == OfNs(P, J, ns)
      Say(v, p) == [verdict |-> v, rows |-> p.rows, chain |-> p.chain, at |-> p.at]
      None(v) == [verdict |-> v, rows |-> Null, chain |-> Null, at |-> Null]
      bad == {i \in H : Disagrees(f, P[i])}
      first == P[IF Max(H) \in bad THEN Max(H) ELSE Min(bad)]
  IN  IF ~whole /\ J # {} THEN None("witness_broken")
      ELSE IF Ok(f, FALSE) = "False" THEN None("local_broken")
      ELSE IF H = {} THEN None("no_record")
      ELSE IF bad = {} THEN Say("consistent", P[Max(H)])
      ELSE Say(IF first.rows > RowCount(f) THEN "truncated" ELSE "rewritten", first)

(***************************************************************************)
(* The export: integrity.json over the copy of the log.                    *)
(***************************************************************************)
\* derive_finding; verdict is Null when no witness was asked.
FindingOf(ok, empty, verdict) ==
  CASE verdict = "rewritten" -> "REWRITE_DETECTED"
    [] verdict = "truncated" -> "TRUNCATION_DETECTED"
    [] verdict \in {"witness_broken", "local_broken", "no_record"} -> "WITNESS_CHECK_FAILED"
    [] verdict \in {Null, "consistent"} /\ ok = "None" ->
         IF empty THEN "EMPTY_LOG" ELSE "UNVERIFIED_SCOPE"
    [] verdict \in {Null, "consistent"} /\ ok = "False" -> "FAIL"
    [] verdict = Null /\ ok = "True" -> "VERIFIED_MODULO_TRUNCATION"
    [] OTHER -> "PASS"
Finding(f, verdict) == FindingOf(Ok(f, FALSE), RowCount(f) = 0, verdict)

\* word_for_finding
WordOf(finding) ==
  CASE finding \in {"PASS", "VERIFIED_MODULO_TRUNCATION"} -> V
    [] finding \in {"FAIL", "TRUNCATION_DETECTED", "REWRITE_DETECTED"} -> B
    [] OTHER -> C

\* rederived_independence, and what the export itself says of a local file
Independence(kind) == IF kind = "none" THEN "none" ELSE "self_asserted"

NoWitness == [kind |-> "none", independence |-> "none", ns |-> Null, verdict |-> Null,
              rows |-> Null, chain |-> Null, at |-> Null]

WitnessBlock(f, P, whole, ns) ==
  IF ns = Null THEN NoWitness
  ELSE LET a == Audit(f, P, DOMAIN P, whole, ns)
       IN  [kind |-> "local_file", independence |-> "self_asserted", ns |-> ns,
            verdict |-> a.verdict, rows |-> a.rows, chain |-> a.chain, at |-> a.at]

Integrity(f, block) ==
  LET finding == Finding(f, block.verdict)
  IN  [finding |-> finding, verdict |-> WordOf(finding), rows |-> RowCount(f),
       ok |-> Ok(f, FALSE), sha |-> f, witness |-> block]

\* _pins: the pin the export was compared with.
PinsOf(block) == IF block.rows = Null THEN <<>>
                 ELSE <<[ns |-> block.ns, rows |-> block.rows, chain |-> block.chain,
                         at |-> block.at]>>

(***************************************************************************)
(* The window.                                                             *)
(***************************************************************************)
Bounds(o) == o.from # Null \/ o.to # Null
OfAgent(f, o, i) == IsRow(f, i) /\ (o.agent = Null \/ Body(f, i).who = o.agent)
InBounds(f, o, i) == /\ o.from = Null \/ Body(f, i).ts >= o.from
                     /\ o.to = Null \/ Body(f, i).ts <= o.to
\* Rows of the agent that a bounded window can place neither in nor out.
Unplaced(f, o) ==
  InOrder({i \in 1..FileLines(f) : OfAgent(f, o, i) /\ Bounds(o) /\ Body(f, i).ts = Null})

\* select_window, by line numbers
Selected(f, o) ==
  InOrder({i \in 1..FileLines(f) :
             /\ OfAgent(f, o, i)
             /\ Bounds(o) => Body(f, i).ts # Null /\ InBounds(f, o, i)})

WindowRows(f, lines) == [k \in DOMAIN lines |-> [line |-> lines[k], raw |-> f[lines[k]]]]

(***************************************************************************)
(* The mandate rows section, over the lines of the window.  A loaded row   *)
(* names the file the gate judged by; an inside call is counted on the     *)
(* session_end row only.                                                   *)
(***************************************************************************)
Section(f, lines, copy) ==
  LET At(evt) == Picked(lines, {k \in DOMAIN lines : /\ lines[k] \in 1..FileLines(f)
                                                    /\ Body(f, lines[k]).evt = evt})
      named == {Body(f, i).names : i \in Range(At("mandate_loaded"))}
  IN  [sha |-> copy, named |-> named, inside |-> Len(At("session_end")),
       outside |-> WindowRows(f, At("mandate_outside")),
       open |-> /\ At("mandate_loaded") \o At("mandate_outside") # <<>>
                /\ At("session_end") = <<>>]

Check(name, word, reason) == [check |-> name, verdict |-> word, reason |-> reason]

\* mandate_checks
MandateChecks(s) ==
  IF s.sha = Null THEN <<Check("mandate file read", C, "missing")>>
  ELSE <<IF s.named = {} THEN Check("mandate file is the one the gate loaded", C, "missing")
         ELSE IF s.sha \notin s.named
         THEN Check("mandate file is the one the gate loaded", C, "name_not_found")
         ELSE Check("mandate file is the one the gate loaded", V, Null)>>
       \o (IF s.open THEN <<Check("mandate inside count", C, "bounded")>> ELSE <<>>)

(***************************************************************************)
(* The checks of a build and its word.                                     *)
(***************************************************************************)
ReasonOf(finding, verdict) ==          \* _could_not_look_fields
  CASE finding = "EMPTY_LOG" -> "empty"
    [] finding = "UNVERIFIED_SCOPE" -> "bounded"
    [] finding = "WITNESS_CHECK_FAILED" /\ verdict = "no_record" -> "name_not_found"
    [] OTHER -> "unreadable"

\* _checks; a check that looked has no reason
BaseChecks(integrity, window, unplaced) ==
  <<Check("records chain and witness cross-check", integrity.verdict,
          IF integrity.verdict = C
          THEN ReasonOf(integrity.finding, integrity.witness.verdict) ELSE Null),
    IF window = <<>> THEN Check("window has rows", C, "empty")
    ELSE Check("window has rows", V, Null)>>
  \o (IF unplaced = <<>> THEN <<>>
      ELSE <<Check("every agent row placed in or out of the window", C, "unreadable")>>)

BaseNames == {"records chain and witness cross-check", "window has rows",
              "every agent row placed in or out of the window"}

\* The build's word: of the records, of an empty window and of every further
\* check.  A row left out of the window does not enter into it.
BuildWord(integrity, hasWindow, checks) ==
  Worst({IF ~hasWindow /\ integrity.verdict # B THEN C ELSE integrity.verdict}
        \cup {c.verdict : c \in {c \in Range(checks) : c.check \notin BaseNames}})

Saying(checks, w) == {k \in DOMAIN checks : checks[k].verdict = w}
Missed(checks) == Picked(checks, Saying(checks, C))                 \* _write_cnl
Counts(checks) == [w \in {V, B, C} |-> Cardinality(Saying(checks, w))]

(***************************************************************************)
(* Page one: its sentences, each with the class of what bears it, and an   *)
(* asserted one with the file that could show it false.                    *)
(***************************************************************************)
Bearer(id) == CASE id \in {"agent", "bounds"} -> [class |-> "asserted", file |-> "cnl"]
                [] id = "legend"              -> [class |-> "asserted", file |-> "twin"]
                [] OTHER                      -> [class |-> "bytes", file |-> Null]

Untagged == [class |-> Null, file |-> Null]

\* page_one_sentences, with the fields of the pack each sentence states
Sentences(word, o, lines, unplaced, section) ==
  [id \in {"legend", "agent", "bounds", "rows", "verdict"}
          \cup (IF unplaced = <<>> THEN {} ELSE {"unplaced"})
          \cup (IF section = Null THEN {} ELSE {"mandate"}) |->
     CASE id = "agent" -> o.agent       [] id = "bounds" -> <<o.from, o.to>>
       [] id = "rows" -> lines          [] id = "verdict" -> word
       [] id = "unplaced" -> unplaced   [] id = "mandate" -> section
       [] id = "legend" -> Null]

Tagged(texts) == [id \in DOMAIN texts |-> [text |-> texts[id], bearer |-> Bearer(id)]]
PlainPage(texts) == [id \in DOMAIN texts \ {"legend"} |->
                       [text |-> texts[id], bearer |-> Untagged]]

\* render_summary: what ARTICLE_12_SUMMARY.md is rendered from
Summary(f, integrity) == <<integrity.finding, integrity.witness, RowCount(f)>>

(***************************************************************************)
(* The agent-audit-trail export: the rows in file order, and its gaps file *)
(* with what the chain check said of the source.                           *)
(***************************************************************************)
Aat(f) == [records |-> BodiesOf(f), head |-> BodiesOf(f)]
Gaps(f) == <<BodiesOf(f), Ok(f, FALSE), RowCount(f)>>

(***************************************************************************)
(* The folder.                                                             *)
(***************************************************************************)
Present(p) == {n \in DOMAIN p : p[n] # Null}
Loose == {"manifest", "sum"}          \* written last and not in the file table

\* Mutant of HashTable: the table lists the files written after it too.
HashTableOfAll(p) == [n \in Present(p) |-> p[n]]

HashTable(p) == [n \in Present(p) \ Loose |-> p[n]]
Stamped(p, m) == [p EXCEPT !.manifest = m, !.sum = m]

\* _write_manifest's file table and manifest.sha256, over the files as they are.
Rehashed(p) == IF p.manifest = Null THEN p
               ELSE Stamped(p, [p.manifest EXCEPT !.files = HashTable(p)])

\* The end of build_pack, from what the pack holds so far: the checks and
\* their counts, could_not_look.json, page one, its twin and the manifest.
Seal(p) ==
  LET m == p.manifest
      checks == BaseChecks(p.integrity, p.window, m.win.unplaced)
                \o (IF p.mandate = Null THEN <<>> ELSE MandateChecks(p.mandate))
      word == BuildWord(p.integrity, p.window # <<>>, checks)
      texts == Sentences(word, m.win, m.win.lines, m.win.unplaced, p.mandate)
  IN  Rehashed([p EXCEPT
        !.cnl = Missed(checks), !.page = Tagged(texts), !.twin = Tagged(texts),
        !.summary = Summary(p.records, p.integrity),
        !.manifest = [m EXCEPT
          !.verdict = word, !.checks = checks, !.counts = Counts(checks),
          !.head = [chain |-> LastChain(p.records), rows |-> RowCount(p.records)],
          !.pins = PinsOf(p.integrity.witness), !.mandate = p.mandate,
          !.independence = Independence(p.integrity.witness.kind),
          !.aat = IF p.aat = Null THEN Null ELSE p.aat.head]])

\* build_pack: the export, the window and the optional parts.
Built(f, P, whole, o, now) ==
  LET integrity == Integrity(f, WitnessBlock(f, P, whole, o.ns))
      lines == Selected(f, o)
  IN  Seal([records |-> f, integrity |-> integrity,
            witness |-> IF o.ns = Null THEN Null ELSE integrity.witness,
            window |-> WindowRows(f, lines),
            aat |-> IF o.aat THEN Aat(f) ELSE Null,
            gaps |-> IF o.aat THEN Gaps(f) ELSE Null,
            mandate |-> IF o.mandate THEN Section(f, lines, o.copy) ELSE Null,
            copy |-> o.copy, cnl |-> Null, page |-> Null, twin |-> Null,
            summary |-> Null, stray |-> Null, sum |-> Null,
            manifest |-> [schema |-> 2, built |-> now, operator |-> "UNKNOWN",
              win |-> [agent |-> o.agent, from |-> o.from, to |-> o.to,
                       lines |-> lines, unplaced |-> Unplaced(f, o)],
              complete |-> TRUE, files |-> Null, verdict |-> Null, checks |-> Null,
              counts |-> Null, head |-> Null, pins |-> Null, mandate |-> Null,
              independence |-> Null, aat |-> Null]])

(***************************************************************************)
(* The steps of verify_pack.  Each takes the folder and says one word.     *)
(***************************************************************************)
Lacks(p, names) == names \cap Present(p) # names
Judge(p, names, problems) ==
  IF Lacks(p, names) THEN C ELSE IF problems THEN B ELSE V

StepHashes(p) ==
  LET t == p.manifest.files
      there == Present(p) \ Loose
  IN  IF there # DOMAIN t \/ \E n \in there \cap DOMAIN t : p[n] # t[n] THEN B ELSE V

StepManifestHash(p) == Judge(p, {"sum"}, p.sum # p.manifest)

StepChain(p) ==
  IF Lacks(p, {"records"}) THEN C
  ELSE CASE Ok(p.records, FALSE) = "False" -> B
         [] Ok(p.records, FALSE) = "None"  -> C
         [] OTHER -> Judge(p, {}, p.manifest.head # [chain |-> LastChain(p.records),
                                                     rows |-> RowCount(p.records)])

\* Every window row is the line it names, and the lines are the listed ones.
LinesOf(window) == [k \in DOMAIN window |-> window[k].line]
StepWindow(p) ==
  Judge(p, {"window", "records"},
        \/ \E k \in DOMAIN p.window :
             LET w == p.window[k]
             IN  w.line \notin 1..FileLines(p.records) \/ w.raw # p.records[w.line]
        \/ p.manifest.win.lines # LinesOf(p.window))

\* _rederive: what the build must have missed, found again.
Hidden(p) ==
  LET words == {p.cnl[k].reason : k \in DOMAIN p.cnl}
  IN  /\ ~Lacks(p, {"records", "window"})
      /\ \/ Unplaced(p.records, p.manifest.win) # <<>> /\ "unreadable" \notin words
         \/ LinesOf(p.window) # Selected(p.records, p.manifest.win)
         \/ p.window = <<>> /\ "empty" \notin words

StepBuild(p) ==
  LET m == p.manifest
  IN  IF ~m.complete THEN B
      ELSE IF Lacks(p, {"cnl"}) THEN C
      ELSE IF \/ Missed(m.checks) # p.cnl \/ Hidden(p)
              \/ Len(p.cnl) # m.counts[C] \/ Counts(m.checks) # m.counts
           THEN B
      ELSE IF m.counts[B] > 0 \/ m.verdict = B THEN B
      ELSE IF p.cnl # <<>> THEN C ELSE V

StepAat(p) ==
  IF p.manifest.aat = Null THEN V
  ELSE Judge(p, {"aat", "gaps", "records"},
             \/ p.aat # Aat(p.records) \/ p.gaps # Gaps(p.records)
             \/ p.manifest.aat # p.aat.head)

MandateNames == {"mandate file read", "mandate file is the one the gate loaded",
                 "mandate inside count"}

\* Mutant of StepMandate: the section is taken on the pack's word.
StepMandateAsSaid(p) ==
  IF p.manifest.mandate = Null THEN V
  ELSE Judge(p, {"mandate", "records"}, p.mandate # p.manifest.mandate)

StepMandate(p) ==
  LET m == p.manifest
      s == Section(p.records, m.win.lines, p.copy)
  IN  IF m.mandate = Null THEN V
      ELSE Judge(p, {"mandate", "records"} \cup
                    (IF m.mandate.sha = Null THEN {} ELSE {"copy"}),
                 \/ p.mandate # s \/ m.mandate # s
                 \/ Picked(m.checks, {k \in DOMAIN m.checks : m.checks[k].check \in MandateNames})
                      # MandateChecks(s))

(***************************************************************************)
(* The re-derived fields and pages.  Records that fail their hash or chain *)
(* are named by those steps, and nothing is re-derived from them.          *)
(***************************************************************************)
NewestTs(f) == LET times == {BodiesOf(f)[k].ts : k \in DOMAIN BodiesOf(f)} \ {Null}
               IN  IF times = {} THEN 0 ELSE Max(times)

RecordsBad(p) == \/ "records" \notin DOMAIN p.manifest.files
                 \/ p.manifest.files["records"] # p.records
                 \/ Ok(p.records, FALSE) = "False"

\* _pre_bearer_schema: built before page one had classes.
PreBearer(p) == /\ p.manifest.schema < 2 /\ p.twin = Null /\ p.page # Null
                /\ \A id \in DOMAIN p.page : p.page[id].bearer = Untagged

PageDrift(p, word) ==
  LET m == p.manifest
      texts == Sentences(word, m.win, Selected(p.records, m.win),
                         Unplaced(p.records, m.win), m.mandate)
  IN  IF PreBearer(p) THEN p.page # PlainPage(texts)
      ELSE p.page # Tagged(texts) \/ p.twin # Tagged(texts)

\* What disagrees with the records: integrity.json, the summary, the word and
\* page one.
Drift(p) ==
  LET m == p.manifest
      block == p.integrity.witness
      want == Integrity(p.records, IF block.ns = Null THEN [block EXCEPT !.verdict = Null]
                                   ELSE block)
      word == BuildWord(p.integrity, Selected(p.records, m.win) # <<>>, m.checks)
  IN  \/ [p.integrity EXCEPT !.witness = block] # [want EXCEPT !.witness = block]
      \/ p.summary # Summary(p.records, [want EXCEPT !.witness = block])
      \/ m.verdict # word
      \/ PageDrift(p, word)

\* The manifest's head is a listed pin's head, or past it.
HeadShort(m) == \E k \in DOMAIN m.pins :
                   \/ m.head.rows < m.pins[k].rows
                   \/ m.head.rows = m.pins[k].rows /\ m.head.chain # m.pins[k].chain

StepRederived(p) ==
  LET m == p.manifest
      block == p.integrity.witness
      kind == block.kind
  IN  IF Lacks(p, {"records", "integrity"}) THEN C
      ELSE IF \/ m.independence # Independence(kind)
              \/ block.independence # Independence(kind)
              \/ p.witness # Null /\ \/ p.witness.kind # kind
                                     \/ p.witness.independence # block.independence
              \/ m.operator # "UNKNOWN"
              \/ m.built < NewestTs(p.records)
              \/ HeadShort(m)
              \/ ~RecordsBad(p) /\ Drift(p)
      THEN B
      ELSE IF RecordsBad(p) \/ \E k \in DOMAIN m.pins : m.built < m.pins[k].at THEN C
      ELSE V

\* Every sentence of page one is classed, as its twin and the fixed map class
\* it, and what could show an asserted one false is in the pack.
StepBearer(p) ==
  IF PreBearer(p) THEN V
  ELSE IF Lacks(p, {"page"}) THEN C
  ELSE IF Lacks(p, {"twin"}) THEN B
  ELSE Judge(p, {},
             \/ DOMAIN p.page # DOMAIN p.twin
             \/ \E id \in DOMAIN p.page :
                  LET bearer == p.page[id].bearer
                  IN  \/ bearer # Bearer(id) \/ p.twin[id].bearer # bearer
                      \/ bearer.file # Null /\ Lacks(p, {bearer.file}))

(***************************************************************************)
(* The pins step.  given says whether verify was handed the pin file, and  *)
(* ns is its --namespace, or Null.                                         *)
(***************************************************************************)
\* _in_pack_pins: what the pack's own files say of its pins.
InPackPins(p) ==
  LET m == p.manifest
      block == p.integrity.witness
  IN  \/ {m.pins[k] : k \in DOMAIN m.pins} # Range(PinsOf(block))
      \/ p.witness # Null /\ <<p.witness.ns, p.witness.rows, p.witness.chain>>
                                # <<block.ns, block.rows, block.chain>>
      \/ p.integrity.rows # m.head.rows
      \/ ~Lacks(p, {"records"}) /\ \E k \in DOMAIN m.pins :
            ChainAt(p.records, m.pins[k].rows) # m.pins[k].chain

\* Mutant of UpTo: a pack is held to the pins past its head too.
UpToAny(P, n) == DOMAIN P

UpTo(P, n) == {i \in DOMAIN P : P[i].rows <= n}

\* The audit of the pins the pack can be held to; records that fail their own
\* chain are compared row by row.
AuditUpTo(f, ns) ==
  LET upto == UpTo(pins, RowCount(f))
      a == Audit(f, pins, upto, intact, ns).verdict
  IN  IF a # "local_broken" THEN a
      ELSE IF \E i \in OfNs(pins, upto, ns) : Disagrees(f, pins[i]) THEN "rewritten"
      ELSE "consistent"

\* Mutant of PinnedBefore: every pin past the head is taken to be younger.
PinnedBeforeNever(f, pin, names) == FALSE

\* A pin past the head, recorded before the pin the pack names.
PinnedBefore(f, pin, names) ==
  \E i, j \in DOMAIN pins :
     /\ i < j /\ <<pins[j].ns, pins[j].rows, pins[j].chain>> = <<pin.ns, pin.rows, pin.chain>>
     /\ pins[i].ns \in names /\ pins[i].rows > RowCount(f)

CheckLocal(f, pin, given, ns) ==
  LET names == Namespaces(pins)
      checked == {pin.ns} \cup ({ns} \ {Null})
      words == {AuditUpTo(f, n) : n \in checked}
  IN  IF ~given \/ ~intact THEN C
      ELSE IF IF ns = Null THEN Cardinality(names) > 1 ELSE ns \notin names THEN C
      ELSE IF pin.ns \notin names THEN C
      ELSE IF \/ ~\E i \in DOMAIN pins : <<pins[i].ns, pins[i].rows, pins[i].chain>>
                                          = <<pin.ns, pin.rows, pin.chain>>
              \/ PinnedBefore(f, pin, checked)
              \/ words \cap {"truncated", "rewritten", "witness_broken"} # {}
      THEN B
      ELSE IF \/ words # {"consistent"}
              \/ \A i \in DOMAIN pins : pins[i].ns \in checked => pins[i].rows > RowCount(f)
      THEN C ELSE V

\* A pack that names no pin, held to the pin file all the same.
Unlisted(f, built, ns) ==
  LET names == Namespaces(pins)
      Held(q) == ~Disagrees(f, q)
      mine == IF ns # Null THEN {ns}
              ELSE {n \in names : \E i \in DOMAIN pins : pins[i].ns = n /\ Held(pins[i])}
      ours == {i \in DOMAIN pins : pins[i].ns \in mine}
      past == {i \in ours : pins[i].rows > RowCount(f)}
  IN  IF ~intact THEN C
      ELSE IF IF ns = Null THEN Cardinality(names) > 1 ELSE ns \notin names THEN C
      ELSE IF mine = {} THEN C
      ELSE IF \/ \E i \in ours \ past : ~Held(pins[i])
              \/ \E i \in past : pins[i].at <= built
      THEN B
      ELSE IF past # {} \/ ours = {} THEN C ELSE V

StepPins(p, given, ns) ==
  LET listed == p.manifest.pins
      f == IF p.records = Null THEN <<>> ELSE p.records
  IN  IF Lacks(p, {"integrity"}) THEN C
      ELSE IF InPackPins(p) THEN B
      ELSE IF listed = <<>> THEN IF given THEN Unlisted(f, p.manifest.built, ns) ELSE V
      ELSE Worst({CheckLocal(f, listed[k], given, ns) : k \in DOMAIN listed})

\* verify_pack
OtherSteps(p) == {StepHashes(p), StepChain(p), StepWindow(p), StepBuild(p),
                  StepManifestHash(p), StepAat(p), StepMandate(p), StepRederived(p),
                  StepBearer(p)}
Verify(p, given, ns) == IF p.manifest = Null THEN C
                        ELSE Worst(OtherSteps(p) \cup {StepPins(p, given, ns)})
Verified(p, given, ns) == /\ p.manifest # Null /\ StepPins(p, given, ns) = V
                          /\ OtherSteps(p) = {V}

(***************************************************************************)
(* What happens to the log and its pins before the build.                  *)
(***************************************************************************)
Honest == rewrites = 0 /\ intact
NotBuilt == pack = Null

\* Bound: after the build the log lives on as long as pins may still come.
Going == edits = 0 /\ (NotBuilt \/ Len(pins) < subject.pins)

\* The program goes on after the build too; the pack does not change.
Write(body) == /\ Going /\ RowCount(log) < subject.rows
               /\ log' = Put(log, FALSE, <<Row(body, LastChain(log))>>, TRUE)
               /\ UNCHANGED <<subject, pins, intact, clock, pack, rewrites, edits>>

\* publish_head, with the guards of WitnessStore.record.
Publish(ns) ==
  LET n == RowCount(log)
      before == OfNs(pins, DOMAIN pins, ns)
  IN  /\ edits = 0 /\ intact /\ Len(pins) < subject.pins
      /\ \A i \in before : pins[i].chain # LastChain(log)  \* bound: no pin twice
      /\ HeadOk(log) # "False" /\ n > 0
      /\ \A i \in before : /\ pins[i].rows <= n
                          /\ pins[i].rows = n => pins[i].chain = LastChain(log)
      /\ pins' = Append(pins, [ns |-> ns, rows |-> n, chain |-> LastChain(log), at |-> clock])
      /\ UNCHANGED <<subject, log, intact, clock, pack, rewrites, edits>>

Tick == /\ Going /\ clock < MaxTime /\ clock' = clock + 1
        /\ UNCHANGED <<subject, log, pins, intact, pack, rewrites, edits>>

\* A log minted anew from given bodies.
Minted(bodies) ==
  LET minted[k \in 0..Len(bodies)] ==
        IF k = 0 THEN << <<>> >>
        ELSE Put(minted[k-1], FALSE, <<Row(bodies[k], LastChain(minted[k-1]))>>, TRUE)
  IN  minted[Len(bodies)]

\* The log is cut short, edited in place, or minted anew over an edited body.
Rewritten(bodies) ==
  LET old == BodiesOf(log)
      changed == UNION {{[old EXCEPT ![i] = b] : b \in bodies} : i \in DOMAIN old}
  IN  ({Minted(SubSeq(old, 1, n)) : n \in 1..Len(old)}
       \cup {Minted(c) : c \in changed}
       \cup {[log EXCEPT ![i] = <<[log[i][1] EXCEPT !.body = b]>>] :
              i \in {j \in 1..Len(log) : IsRow(log, j)}, b \in bodies}) \ {log}

Rewrite == /\ NotBuilt /\ rewrites < subject.rewrites /\ rewrites' = rewrites + 1
           /\ log' \in Rewritten(subject.bodies[clock])
           /\ UNCHANGED <<subject, pins, intact, clock, pack, edits>>

BreakPinFile == /\ edits = 0 /\ intact /\ pins # <<>> /\ rewrites < subject.rewrites
                /\ intact' = FALSE /\ rewrites' = rewrites + 1
                /\ UNCHANGED <<subject, log, pins, clock, pack, edits>>

Build(o) == /\ NotBuilt /\ log # <<>>
            /\ pack' = Built(log, pins, intact, o, clock)
            /\ UNCHANGED <<subject, log, pins, intact, clock, rewrites, edits>>

(***************************************************************************)
(* What may happen to the folder: a file is lost or put in, the manifest   *)
(* changes, or one thing in it no longer says what the build wrote, with   *)
(* the hashes recomputed or every derived file written again around it.    *)
(***************************************************************************)
WindowEdits(p) ==
  LET m == p.manifest
      dropped(k) == RemoveAt(p.window, k)
  IN  {[p EXCEPT !.window = dropped(k), !.manifest.win.lines = LinesOf(dropped(k))] :
         k \in DOMAIN p.window}
      \cup {[p EXCEPT !.manifest.win.agent = Null], [p EXCEPT !.manifest.win.from = Null],
            [p EXCEPT !.manifest.win.to = Null], [p EXCEPT !.manifest.win.unplaced = <<>>]}

WitnessEdits(p) ==
  LET As(block) == [p EXCEPT !.integrity.witness = block, !.integrity.verdict = V,
                             !.integrity.finding = Finding(p.records, block.verdict),
                             !.witness = IF block.ns = Null THEN Null ELSE block]
      block == p.integrity.witness
  IN  {[p EXCEPT !.manifest.built = t] : t \in 0..MaxTime}
      \cup
      {[p EXCEPT !.manifest.pins = <<>>], As(NoWitness), As([block EXCEPT !.verdict = "consistent"]),
       [p EXCEPT !.integrity.verdict = V, !.integrity.finding = "PASS"],
       [p EXCEPT !.integrity.witness.independence = "externally_verifiable",
                 !.manifest.independence = "externally_verifiable"]}
      \cup {As([kind |-> "local_file", independence |-> "self_asserted", ns |-> pins[i].ns,
                verdict |-> "consistent", rows |-> pins[i].rows, chain |-> pins[i].chain,
                at |-> pins[i].at]) : i \in DOMAIN pins}

RecordEdits(p) ==
  LET f == p.records
  IN  {[p EXCEPT !.records = Minted(SubSeq(BodiesOf(f), 1, n))] : n \in 0..RowCount(f)-1}
      \cup {[p EXCEPT !.records = r, !.integrity.sha = r, !.integrity.rows = RowCount(r),
                      !.window = WindowRows(r, Selected(r, p.manifest.win)),
                      !.manifest.win.lines = Selected(r, p.manifest.win)] :
            r \in {Minted(SubSeq(BodiesOf(f), 1, n)) : n \in 0..RowCount(f)-1}}

PartEdits(p) ==
  (IF p.mandate = Null THEN {}
   ELSE {[p EXCEPT !.mandate.outside = <<>>], [p EXCEPT !.mandate.open = FALSE],
         [p EXCEPT !.mandate.named = {p.copy}], [p EXCEPT !.mandate = Null]})
  \cup (IF p.aat = Null THEN {}
        ELSE {[p EXCEPT !.aat.records = <<>>], [p EXCEPT !.gaps = Gaps(<< <<>> >>)]})

PageEdits(p) ==
  LET Say(word) == [id \in DOMAIN p.page |->
                      IF id = "verdict" THEN [p.page[id] EXCEPT !.text = word] ELSE p.page[id]]
      plain == PlainPage([id \in DOMAIN p.page |-> p.page[id].text])
  IN  {[p EXCEPT !.page = Say(V)], [p EXCEPT !.page = Say(V), !.twin = Say(V)],
       [p EXCEPT !.page = plain, !.twin = Null, !.manifest.schema = 1],
       [p EXCEPT !.cnl = <<>>], [p EXCEPT !.summary = <<>>],
       [p EXCEPT !.cnl = <<>>, !.manifest.checks = Picked(@, DOMAIN @ \ Saying(@, C)),
                 !.manifest.counts = [@ EXCEPT ![C] = 0], !.manifest.verdict = V],
       [p EXCEPT !.manifest.verdict = V],
       [p EXCEPT !.manifest.head.rows = @ + 1], [p EXCEPT !.manifest.operator = "someone"],
       [p EXCEPT !.manifest.complete = FALSE], [p EXCEPT !.stray = "file"]}

\* Bound: only what bears on pins changes in the pack of a log about pins.
Changed(p) == WitnessEdits(p) \cup RecordEdits(p)
              \cup (IF subject.folder THEN WindowEdits(p) \cup PartEdits(p) \cup PageEdits(p)
                    ELSE {})

Whole(p) == p.manifest # Null /\ ~Lacks(p, {"records", "integrity", "window", "page", "twin"})

\* Bound: one fault at a time, either in the pin file or in the folder.
Touched == ~NotBuilt /\ intact /\ edits < MaxEdits /\ edits' = edits + 1

Edit == /\ Touched /\ Whole(pack)
        /\ \/ \E q \in Changed(pack) : pack' \in {Rehashed(q), Seal(q)}
           \/ pack' \in {[pack EXCEPT !.stray = "file"], [pack EXCEPT !.manifest.pins = <<>>]}
        /\ UNCHANGED <<subject, log, pins, intact, clock, rewrites>>

Lose == /\ subject.folder /\ Touched
        /\ \/ \E n \in Present(pack) \ {"sum"} : pack' = Rehashed([pack EXCEPT ![n] = Null])
           \/ pack' = [pack EXCEPT !.sum = Null]
        /\ UNCHANGED <<subject, log, pins, intact, clock, rewrites>>

PackInit == /\ subject \in Subjects /\ log = <<>> /\ pins = <<>> /\ intact = TRUE
            /\ clock = 0 /\ pack = Null /\ rewrites = 0 /\ edits = 0

PackNext == \/ \E b \in subject.bodies[clock] : Write(b)
            \/ \E ns \in {Own, Alt} : Publish(ns)
            \/ \E o \in subject.options : Build(o)
            \/ Tick \/ Rewrite \/ BreakPinFile \/ Edit \/ Lose

PackSpec == PackInit /\ [][PackNext]_packVars

(***************************************************************************)
(* What must hold.                                                         *)
(***************************************************************************)
(* A pack as the build left it is read back as the build called it, without  *)
(* the pin file: broken when its records are, and otherwise never better and *)
(* never worse than the build's word, the checks the build could not make    *)
(* and the pins it lists, which nobody has looked at.                        *)
UntouchedAgrees ==
  ~NotBuilt /\ edits = 0 =>
    Verify(pack, FALSE, Null) =
      IF Ok(pack.records, FALSE) = "False" THEN B
      ELSE Worst({pack.manifest.verdict}
                 \cup (IF pack.cnl # <<>> \/ pack.manifest.pins # <<>> THEN {C} ELSE {}))

(* An untouched pack of a log nobody rewrote is not BROKEN by the pin file   *)
(* it was pinned in, however many rows and pins came after it; only a pack   *)
(* that lists no pin is, by a pin past its head of the second it was built   *)
(* in or before.                                                             *)
HonestIsNotBroken ==
  ~NotBuilt /\ edits = 0 /\ Honest =>
    \A ns \in {Null, Own, Alt} :
      Verify(pack, TRUE, ns) = B =>
        /\ pack.manifest.pins = <<>>
        /\ \E i \in DOMAIN pins : /\ pins[i].rows > RowCount(pack.records)
                                  /\ pins[i].at = pack.manifest.built

(* A pack verified against the pin file, under the log's namespace or none,  *)
(* holds every pin of that namespace up to its head, and every pin past its  *)
(* head is younger than the pin it names: it is neither a rewrite nor a      *)
(* truncation of what the witness has seen, whoever wrote the folder.        *)
PinsHold ==
  ~NotBuilt =>
    \A ns \in {Null, Own} :
      Verified(pack, TRUE, ns) =>
        \A i \in DOMAIN pins :
          pins[i].ns = Own =>
            IF pins[i].rows <= RowCount(pack.records)
            THEN SubSeq(BodiesOf(pack.records), 1, pins[i].rows) = pins[i].chain
            ELSE \E j \in 1..i-1 : \E k \in DOMAIN pack.manifest.pins :
                   pack.manifest.pins[k].rows = pins[j].rows
                   /\ pack.manifest.pins[k].chain = pins[j].chain

(* VERIFIED hides nothing: the chain holds over every row, the window is the *)
(* selection the manifest states and is not empty, no row of the agent was   *)
(* left out for its time, the witness agreed or was not asked, the mandate   *)
(* counts are the window's, against the file the gate loaded, and page one   *)
(* says all that.                                                            *)
NothingHidden ==
  ~NotBuilt /\ (\E given \in BOOLEAN, ns \in {Null, Own} : Verified(pack, given, ns)) =>
    LET m == pack.manifest
        rows == Selected(pack.records, m.win)
    IN  /\ Ok(pack.records, FALSE) = "True"
        /\ rows # <<>> /\ pack.window = WindowRows(pack.records, rows)
        /\ Unplaced(pack.records, m.win) = <<>>
        /\ pack.integrity.finding \in {"PASS", "VERIFIED_MODULO_TRUNCATION"}
        /\ pack.integrity.witness.verdict \in {Null, "consistent"}
        /\ m.mandate # Null => /\ m.mandate = Section(pack.records, rows, pack.copy)
                               /\ pack.copy \in m.mandate.named
        /\ pack.page["verdict"].text = V /\ pack.page["rows"].text = rows
        /\ pack.page["agent"].text = m.win.agent
=============================================================================
