-------------------------------- MODULE Deal --------------------------------
(***************************************************************************)
(* A deal between a buyer and a seller, written by each on a ledger of its *)
(* own, what can happen to the two ledgers, and the verdict of dispute().  *)
(* Source: src/src/arcaeon/record/deal.py, with the tape reader and the    *)
(* pin check it takes from prove/reconcile.py.                             *)
(*                                                                         *)
(* The ledgers are ledgers of LedgerLog on which only rows were appended:  *)
(* a tape is the sequence of them with the chain each claims, and harm     *)
(* says what else reading its file meets.  The chain is the sequence of    *)
(* the bodies so far, and a digest is what it digests.                     *)
(***************************************************************************)
EXTENDS Integers, FiniteSetsExt, SequencesExt

CONSTANTS Null,      \* nothing cited, not readable, no side
          TheDeal,   \* the deal's id
          Garbled,   \* what an altered row says
          Mandates,  \* [merchant, currency, cap, from, until, sealed]: what a buyer allows
          Terms,     \* [seller, currency, total]: what is bought
          Times,     \* when a commit is made, Garbled when that cannot be read
          Lanes      \* bound: what is done [first, steps, ids, details, rows, mishaps, pins]

Parties == {"buyer", "seller"}

ASSUME NullIsApart == Null \notin Parties \cup {"inside", "unknown", "after_cancel"}
ASSUME AmountsAreNumbers == /\ \A m \in Mandates : m.cap \in Int \cup {Null}
                            /\ \A t \in Terms : t.total \in Int \cup {Null}

Other(p) == IF p = "buyer" THEN "seller" ELSE "buyer"
Steps == <<"mandate", "commit", "pay", "ship", "deliver", "cancel", "dispute">>   \* STEPS
StepNames == ToSet(Steps)
BothSides == {"commit", "pay"}
Mirrored == {"ship", "deliver", "cancel"}

VARIABLES lane,    \* the one of Lanes that is followed
          tape,    \* party -> the rows of its ledger
          wrote,   \* party -> the rows its own program wrote
          job,     \* party -> the row it is about to append, Null if none
          harm,    \* party -> "none", or what else is wrong with the file
          given,   \* the files named as the buyer's and as the seller's
          pin,     \* the pin that was taken, or NoPin
          mishaps  \* the parties whose row or file something happened to

dealVars == <<lane, tape, wrote, job, harm, given, pin, mishaps>>

NoPin == [side |-> Null, of |-> Null, rows |-> 0, chain |-> <<>>]
NoCite == [chain |-> <<>>, row |-> 0, ledger |-> <<>>]
Shared(what, md) == [what |-> what, md |-> md]

ChainOf(rows) == IF rows = <<>> THEN <<>> ELSE Last(rows).chain
RowAfter(rows, body) == [body |-> body, chain |-> Append(ChainOf(rows), body)]

\* verify_file of such a ledger: every row hashes to the chain it claims.
Intact(rows) == \A n \in DOMAIN rows :
                  rows[n].chain = Append(ChainOf(SubSeq(rows, 1, n-1)), rows[n].body)

\* The members of a finite set of numbers in their order, and the rows there.
InOrder(S) == [k \in 1..Cardinality(S) |-> CHOOSE n \in S : Cardinality({m \in S : m < n}) = k - 1]
RowsAt(rows, S) == LET at == InOrder(S) IN [k \in DOMAIN at |-> rows[at[k]]]

OfStep(rows, id, step) ==
  RowsAt(rows, {n \in DOMAIN rows : rows[n].body.deal = id /\ rows[n].body.step = step})

(***************************************************************************)
(* Writing.                                                                *)
(***************************************************************************)
Rechained(bodies) == [n \in DOMAIN bodies |-> [body |-> bodies[n], chain |-> SubSeq(bodies, 1, n)]]

DealInit ==
  /\ lane \in Lanes
  /\ tape = [p \in Parties |-> Rechained(lane.first)] /\ wrote = tape
  /\ job = [p \in Parties |-> Null] /\ harm = [p \in Parties |-> "none"]
  /\ given = [p \in Parties |-> p]
  /\ pin = NoPin /\ mishaps = <<>>

\* Both tapes are as they were written: nothing is appended after a damage.
Untouched == tape = wrote /\ harm = [p \in Parties |-> "none"] /\ given = [p \in Parties |-> p]

Body(id, step, role, shared, note, cites) ==
  [deal |-> id, step |-> step, party |-> role, shared |-> shared, digest |-> shared,
   note |-> note, cites |-> cites]
Of(p, step, shared, note) == Body(TheDeal, step, p, shared, note, NoCite)

\* The rows both ledgers begin with are another program's.
ASSUME FirstRowsAreOthers ==
  \A l \in Lanes :
    /\ l.first \in Seq(ToSet(l.first))
    /\ \A b \in ToSet(l.first) :
         /\ b = Body(b.deal, b.step, b.party, b.shared, b.note, b.cites)
         /\ b.shared = Shared(b.shared.what, b.shared.md)
         /\ b.deal \notin l.ids \cup {TheDeal} /\ b.step \notin StepNames /\ b.note = Null

\* Ledger.append of one row.
Write(p, body) == /\ Untouched /\ Len(tape[p]) < lane.rows[p]
                  /\ tape' = [tape EXCEPT ![p] = Append(@, RowAfter(@, body))]
                  /\ wrote' = tape'
                  /\ UNCHANGED <<lane, harm, given, pin>>

\* What was read from the tape goes into a row that is appended later.
Prepare(p, body) == /\ Untouched /\ job[p] = Null
                    /\ job' = [job EXCEPT ![p] = body]
                    /\ UNCHANGED <<lane, tape, wrote, harm, given, pin>>

Finish(p) == /\ job[p] # Null /\ Write(p, job[p])
             /\ job' = [job EXCEPT ![p] = Null] /\ UNCHANGED mishaps

\* The process dies before it appends.
Die(p) == /\ job[p] # Null /\ job' = [job EXCEPT ![p] = Null]
          /\ UNCHANGED <<lane, tape, wrote, harm, given, pin, mishaps>>

\* check_mandate: the first rule that is broken or cannot be checked decides.
CheckMandate(m, t, at) ==
  IF t.seller # m.merchant \/ t.currency # m.currency THEN "outside"
  ELSE IF Null \in {t.total, m.cap} THEN "unknown"
  ELSE IF t.total > m.cap THEN "outside"
  ELSE IF Garbled \in {at, m.from, m.until} THEN "unknown"
  ELSE IF (m.from # Null /\ at < m.from) \/ (m.until # Null /\ at > m.until)
       THEN "outside" ELSE "inside"

\* Mutant of Cited: the last mandate, whatever digest was asked for.
CitedLast(md) ==
  LET rows == OfStep(tape["buyer"], TheDeal, "mandate")
  IN  IF rows = <<>> THEN Null ELSE Last(rows).body.shared.md

\* The mandate row a commit cites: the last one, or the last one with the
\* digest asked for.
Cited(md) ==
  LET rows == OfStep(tape["buyer"], TheDeal, "mandate")
      fit == {k \in DOMAIN rows : md = Null \/ rows[k].body.shared.md = md}
  IN  IF fit = {} THEN Null ELSE rows[Max(fit)].body.shared.md

InsideMandate(cited, terms, at, disclosed) ==
  CASE cited = Null -> "outside"
    [] cited # Null -> IF cited.sealed /\ ~disclosed THEN "unknown"
                       ELSE CheckMandate(cited, terms, at)

\* Deal.commit of the buyer: a digest that is asked for is cited even when no mandate
\* of the tape has it, and the note says "outside".
CommitBody(terms, md, at, disclosed) ==
  LET cited == Cited(md)
  IN  Of("buyer", "commit", Shared(terms, IF md = Null THEN cited ELSE md),
         InsideMandate(cited, terms, at, disclosed))


\* Deal.ship
ShipBody(p, shared) ==
  Of(p, "ship", shared,
     IF OfStep(tape[p], TheDeal, "cancel") # <<>> THEN "after_cancel" ELSE Null)

\* Who writes a step first; the other party copies it, or nobody does.
Begins(p, step) == CASE step \in {"mandate", "commit", "pay", "cancel"} -> p = "buyer"
                     [] step \in {"ship", "deliver"} -> p = "seller"
                     [] step = "dispute" -> TRUE

Mandate(m) == /\ Write("buyer", Of("buyer", "mandate", Shared(Null, m), Null))
              /\ UNCHANGED <<job, mishaps>>

BeginCommit == \E t \in Terms, md \in Mandates \cup {Null}, at \in Times, d \in BOOLEAN :
                 Prepare("buyer", CommitBody(t, md, at, d)) /\ UNCHANGED mishaps

\* Deal.pay, deliver, cancel and raise_dispute
Record(p, step, x) == /\ Write(p, Of(p, step, Shared(x, Null), Null))
                      /\ UNCHANGED <<job, mishaps>>

BeginShip(x) == Prepare("seller", ShipBody("seller", Shared(x, Null))) /\ UNCHANGED mishaps

\* The next row of the step the other party has and this one has not, as it
\* was sent or wrongly.
Copied(p, step) == LET mine == OfStep(tape[p], TheDeal, step)
                       theirs == OfStep(tape[Other(p)], TheDeal, step)
                   IN  {theirs[k].body.shared : k \in {Len(mine) + 1} \cap DOMAIN theirs}

Altered(s) == {[s EXCEPT !.what = Garbled]}
              \cup {[s EXCEPT !.md = m] : m \in IF s.md = Null THEN {} ELSE Mandates \ {s.md}}

\* Something goes wrong on p's side.
Mishap(p) == Len(mishaps) < lane.mishaps /\ mishaps' = Append(mishaps, p)

Copy(p, step) ==
  /\ ~Begins(p, step) /\ step \in BothSides \cup Mirrored
  /\ \E s \in Copied(p, step) : \E t \in {s} \cup Altered(s) :
       /\ IF t = s THEN UNCHANGED mishaps ELSE Mishap(p)
       /\ IF step = "ship" THEN Prepare(p, ShipBody(p, t))
                           ELSE Write(p, Of(p, step, t, Null)) /\ UNCHANGED job

Deals == \/ \E p \in Parties : Finish(p) \/ Die(p)
         \/ \E step \in lane.steps, p \in Parties :
              \/ Copy(p, step)
              \/ /\ Begins(p, step)
                 /\ \/ step = "mandate" /\ \E m \in Mandates : Mandate(m)
                    \/ step = "commit" /\ BeginCommit
                    \/ step = "ship" /\ \E x \in lane.details : BeginShip(x)
                    \/ /\ step \in {"pay", "deliver", "cancel", "dispute"}
                       /\ \E x \in lane.details : Record(p, step, x)

(***************************************************************************)
(* Pins, and what can happen to the files.                                 *)
(***************************************************************************)
\* Bound: files are pinned and harmed when nothing is about to be written.
Resting == job = [p \in Parties |-> Null]

TakePin(p) == /\ lane.pins /\ Resting /\ Untouched /\ pin = NoPin /\ tape[p] # <<>>
              /\ \E side \in {p, Null} :
                   pin' = [side |-> side, of |-> p, rows |-> Len(tape[p]), chain |-> ChainOf(tape[p])]
              /\ UNCHANGED <<lane, tape, wrote, job, harm, given, mishaps>>

Damaged(p, rows) == /\ Resting /\ Mishap(p)
                    /\ tape' = [tape EXCEPT ![p] = rows]
                    /\ UNCHANGED <<lane, wrote, job, harm, given, pin>>

\* The last rows are gone.
Cut(p, n) == Damaged(p, SubSeq(tape[p], 1, n))

Resaid(b, s, d) == [b EXCEPT !.shared = s, !.digest = d]

Changed(body) == {Resaid(body, s, d) : s \in Altered(body.shared),
                                       d \in {body.digest} \cup Altered(body.shared)}

\* A row is edited where it stands, with its chain or with all chains after it.
Edit(p, n) == \E b \in Changed(tape[p][n].body) : Damaged(p, [tape[p] EXCEPT ![n].body = b])

Remint(p, n) ==
  \E b \in Changed(tape[p][n].body) :
    Damaged(p, Rechained([k \in DOMAIN tape[p] |-> IF k = n THEN b ELSE tape[p][k].body]))

\* The file is gone, holds a line that does not parse, or a declared break.
Spoil(p) == /\ Resting /\ harm[p] = "none"
            /\ \E h \in {"gone", "scrap", "declared"} : harm' = [harm EXCEPT ![p] = h]
            /\ Mishap(p) /\ UNCHANGED <<lane, tape, wrote, job, given, pin>>

\* The file of one party is named as the other's.
Misname(p) == /\ Resting /\ given[p] = p /\ given' = [given EXCEPT ![p] = Other(p)]
              /\ Mishap(p) /\ UNCHANGED <<lane, tape, wrote, job, harm, pin>>

Damage == \E p \in Parties :
            \/ Spoil(p) \/ Misname(p)
            \/ \E n \in 0..Len(tape[p])-1 : Cut(p, n)
            \/ \E n \in DOMAIN tape[p] : Edit(p, n) \/ Remint(p, n)

(***************************************************************************)
(* dispute().                                                              *)
(***************************************************************************)
Finding(v, step, k, side) == [verdict |-> v, step |-> step, k |-> k, side |-> side]

\* _load_side: broken and refused, as the deal and the handshake read it.
LoadSide(f, id, p) ==
  LET broken == harm[f] = "scrap" \/ ~Intact(tape[f])
      alien == \E n \in DOMAIN tape[f] : LET b == tape[f][n].body
                                         IN  /\ b.deal = id
                                             /\ b.step \notin StepNames \/ b.party # p
      refused == harm[f] # "none" \/ broken \/ alien
  IN  [file |-> f, side |-> p, refused |-> refused, broken |-> broken /\ harm[f] # "gone",
       rows |-> IF refused THEN <<>> ELSE tape[f],
       mine |-> IF refused THEN {} ELSE {n \in DOMAIN tape[f] : tape[f][n].body.deal = id}]

\* _self_consistent of all rows: one whose digest is not of its body is a
\* finding and is left out.
Consistent(t) == {n \in t.mine : t.rows[n].body.digest = t.rows[n].body.shared}
By(t, step) == RowsAt(t.rows, {n \in Consistent(t) : t.rows[n].body.step = step})

SelfConsistent(t) ==
  LET bad == InOrder(t.mine \ Consistent(t))
      step(i) == t.rows[bad[i]].body.step
      k(i) == 1 + Cardinality({n \in Consistent(t) : n < bad[i] /\ t.rows[n].body.step = step(i)})
  IN  [i \in DOMAIN bad |-> Finding("ALTERED", step(i), k(i), t.side)]

Longest(B, S) == IF Len(B) > Len(S) THEN Len(B) ELSE Len(S)

\* _compare: the rows of one step by their order.
Compare(step, B, S) ==
  LET apart == InOrder({k \in 1..Longest(B, S) : \/ k > Len(B) \/ k > Len(S)
                                                \/ B[k].body.digest # S[k].body.digest})
  IN  [i \in DOMAIN apart |->
         CASE apart[i] > Len(B) -> Finding("MISSING", step, apart[i], "buyer")
           [] apart[i] > Len(S) -> Finding("MISSING", step, apart[i], "seller")
           [] OTHER -> Finding("ALTERED", step, apart[i], Null)]

\* Mutant of CheckPin: only the length is compared.
CheckPinLength(t) == IF ~t.refused /\ Len(t.rows) < pin.rows
                     THEN <<Finding("MISSING", "row", Len(t.rows) + 1, t.side)>> ELSE <<>>

\* _check_pin of reconcile.
CheckPin(t) ==
  CASE t.refused -> <<>>
    [] ~t.refused /\ Len(t.rows) < pin.rows ->
         <<Finding("MISSING", "row", Len(t.rows) + 1, t.side)>>
    [] ~t.refused /\ Len(t.rows) >= pin.rows /\ t.rows[pin.rows].chain # pin.chain ->
         <<Finding("ALTERED", "row", pin.rows, t.side)>>
    [] OTHER -> <<>>

\* _check_pins: a pin that names no side is held against both tapes.
CheckPins(B, S) == CASE pin = NoPin -> <<>>
                     [] pin.side = "buyer" -> CheckPin(B)
                     [] pin.side = "seller" -> CheckPin(S)
                     [] OTHER -> CheckPin(B) \o CheckPin(S)

\* A commit of the seller cites a mandate the buyer's tape holds, if it holds any.
CitesHeld(mandates, commits) ==
  LET held == {m.body.shared.md : m \in ToSet(mandates)}
      unheld == InOrder({k \in DOMAIN commits : held # {} /\ commits[k].body.shared.md \notin held})
  IN  [i \in DOMAIN unheld |-> Finding("ALTERED", "commit", unheld[i], "seller")]

\* _key: the earliest step and row, ALTERED before MISSING.
Order(f) == IF f.step \in StepNames THEN CHOOSE i \in DOMAIN Steps : Steps[i] = f.step
            ELSE Len(Steps) + 1
Before(f, g) == \/ Order(f) < Order(g)
                \/ /\ Order(f) = Order(g)
                   /\ f.k < g.k \/ (f.k = g.k /\ f.verdict = "ALTERED" /\ g.verdict = "MISSING")
Headline(found) == found[Min({k \in DOMAIN found :
                                \A j \in DOMAIN found : ~Before(found[j], found[k])})]

CouldNotLook == Finding("COULD_NOT_LOOK", Null, 0, Null)
Matched == Finding("MATCHED", Null, 0, Null)

\* The steps that are compared: of BOTH_SIDES if either tape holds one, of
\* MIRRORED if both do.
Compared(B, S) ==
  {step \in BothSides : By(B, step) # <<>> \/ By(S, step) # <<>>}
  \cup {step \in Mirrored : By(B, step) # <<>> /\ By(S, step) # <<>>}

InStep(B, S, step) ==
  IF step \in Compared(B, S) THEN Compare(step, By(B, step), By(S, step)) ELSE <<>>

Readable(B, S) == ~B.refused /\ ~S.refused

Found(B, S) ==
  SelfConsistent(B) \o SelfConsistent(S)
  \o (IF Readable(B, S)
      THEN InStep(B, S, "commit") \o InStep(B, S, "pay") \o InStep(B, S, "ship")
           \o InStep(B, S, "deliver") \o InStep(B, S, "cancel")
           \o CitesHeld(By(B, "mandate"), By(S, "commit"))
      ELSE <<>>)
  \o CheckPins(B, S)

Dispute ==
  LET B == LoadSide(given["buyer"], TheDeal, "buyer")
      S == LoadSide(given["seller"], TheDeal, "seller")
      found == Found(B, S)
  IN  CASE found # <<>> -> Headline(found)
        [] found = <<>> /\ (~Readable(B, S) \/ Compared(B, S) = {}) -> CouldNotLook
        [] OTHER -> Matched

(***************************************************************************)
(* What must hold.                                                         *)
(***************************************************************************)
Says(p, step) == LET rows == OfStep(tape[p], TheDeal, step)
                 IN  [k \in DOMAIN rows |-> rows[k].body.shared]

\* MATCHED is never said of two tapes that differ in a commit or a payment, or
\* in a mirrored step both of them hold; of a tape that is not one party's own,
\* was edited where it stands, or lost or changed a row that was pinned; or of
\* a commit of the seller under a mandate the buyer never gave.
DisputeIsTrue ==
  Dispute = Matched =>
    /\ given = [p \in Parties |-> p]
    /\ \A p \in Parties : harm[p] = "none" /\ Intact(tape[p])
    /\ \A step \in BothSides : Says("buyer", step) = Says("seller", step)
    /\ \A step \in Mirrored : \/ Says("buyer", step) = Says("seller", step)
                              \/ <<>> \in {Says("buyer", step), Says("seller", step)}
    /\ Says("buyer", "mandate") # <<>> =>
         \A s \in ToSet(Says("seller", "commit")) :
           \E m \in ToSet(Says("buyer", "mandate")) : m.md = s.md
    /\ pin # NoPin => IsPrefix(pin.chain, ChainOf(tape[pin.of]))

Earlier(p, n, step) == OfStep(SubSeq(wrote[p], 1, n-1), TheDeal, step)

\* A note is of the tape it is on: a commit says it is inside a mandate, or that it
\* could not tell, only of a mandate an earlier row of that tape holds, whatever digest
\* was asked for, and "inside" only when that mandate allows the seller, the currency
\* and the total; a shipment says it came after a cancellation only when a row above it
\* cancels; although other rows are appended between the reading and the writing.
NotesAreTrue ==
  \A p \in Parties : \A n \in DOMAIN wrote[p] :
    LET b == wrote[p][n].body
        held == {r.body.shared.md : r \in ToSet(Earlier(p, n, "mandate"))}
        m == b.shared.md
        t == b.shared.what
    IN  /\ b.note \in {"inside", "unknown"} => m \in held
        /\ b.note = "inside" =>
             m.merchant = t.seller /\ m.currency = t.currency /\ t.total <= m.cap
        /\ b.note = "after_cancel" => Earlier(p, n, "cancel") # <<>>

\* The buyer's k-th commit cites no mandate of the buyer's tape, although it holds one.
CitesUnheld(k) ==
  /\ k \in DOMAIN Says("buyer", "commit") /\ Says("buyer", "mandate") # <<>>
  /\ \A s \in ToSet(Says("buyer", "mandate")) : s.md # Says("buyer", "commit")[k].md

\* Of two parties that copied each step in its order and whose files are as they were
\* written, nobody is said to have altered a row, save the seller its true copy of a
\* commit the buyer wrote under no mandate of its own; and what is missing is a row its
\* side still has to copy.  (A pin that names no side is held against both.)
HonestDealIsNotAccused ==
  (mishaps = <<>> /\ (pin = NoPin \/ pin.side # Null)) =>
    /\ \/ Dispute.verdict \in {"MATCHED", "MISSING", "COULD_NOT_LOOK"}
       \/ /\ Dispute.verdict = "ALTERED" /\ Dispute.step = "commit"
          /\ CitesUnheld(Dispute.k)
          /\ Says("seller", "commit")[Dispute.k] = Says("buyer", "commit")[Dispute.k]
    /\ Dispute.verdict = "MISSING" => Copied(Dispute.side, Dispute.step) # {}
    /\ Dispute.verdict = "COULD_NOT_LOOK" =>
         \/ \A step \in BothSides : Says("buyer", step) = <<>> /\ Says("seller", step) = <<>>
         \/ \E p \in Parties, r \in lane.ids : r = TheDeal
=============================================================================
