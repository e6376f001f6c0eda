------------------------------ MODULE Handshake ------------------------------
(***************************************************************************)
(* Two agents countersign terms: a proposal on the ledger of one, an offer *)
(* that is carried to the other, its acceptance on the other's ledger, and *)
(* the verdict of verify() over the two ledgers.  The rows are written and *)
(* read by Deal, on the same ledgers.                                      *)
(* Source: src/src/arcaeon/record/handshake.py.                            *)
(*                                                                         *)
(* The names of the agents and the offer's "to" are left out: accept       *)
(* compares them only when both are given.                                 *)
(***************************************************************************)
EXTENDS Deal

VARIABLES proposing, \* party -> the proposal it appended and has to hand over, or Null
          offers,    \* the offers that are on their way
          accepted   \* what was countersigned: [by, row, offer]

vars == <<dealVars, proposing, offers, accepted>>

Init == /\ DealInit
        /\ proposing = [p \in Parties |-> Null] /\ offers = {} /\ accepted = {}

(***************************************************************************)
(* propose: the row, and then what the offer cites of the ledger.          *)
(***************************************************************************)
Proposal(h, p, x) == Shared([handshake |-> h, proposer |-> p, terms |-> x], Null)

ASSUME GarbledIsNoProposal ==
  \A l \in Lanes : \A h \in l.ids, p \in Parties, x \in l.details : Proposal(h, p, x).what # Garbled

Propose(p, h, x) ==
  LET shared == Proposal(h, p, x)
  IN  /\ proposing[p] = Null
      /\ Write(p, Body(h, "propose", "proposer", shared, Null, NoCite))
      /\ proposing' = [proposing EXCEPT ![p] =
                         [id |-> h, shared |-> shared, chain |-> ChainOf(tape'[p])]]
      /\ UNCHANGED <<job, mishaps, offers, accepted>>

\* Mutant of Position: the length of the ledger by now.
PositionOfLast(rows, chain) == Len(rows)

\* _position: the last row with the chain
Position(rows, chain) == Max({n \in DOMAIN rows : rows[n].chain = chain})

HandOver(p) ==
  /\ proposing[p] # Null /\ Untouched
  /\ LET o == proposing[p]
     IN  offers' = offers \cup
           {[id |-> o.id, shared |-> o.shared, digest |-> o.shared, chain |-> o.chain,
             row |-> Position(tape[p], o.chain), ledger |-> tape[p][1].chain]}
  /\ proposing' = [proposing EXCEPT ![p] = Null]
  /\ UNCHANGED <<dealVars, accepted>>

\* The proposer dies with its row appended and no offer made.
Drop(p) == /\ proposing[p] # Null /\ proposing' = [proposing EXCEPT ![p] = Null]
           /\ UNCHANGED <<dealVars, offers, accepted>>

\* An offer is changed on its way: its terms, or what it cites.
Twisted(o) == {Resaid(o, s, d) : s \in Altered(o.shared),
                                 d \in {o.digest, Null} \cup Altered(o.shared)}
              \cup {[o EXCEPT !.chain = q.chain] : q \in offers}
              \cup {[o EXCEPT !.ledger = q.ledger] : q \in offers}
              \cup {[o EXCEPT !.row = n] : n \in 0..lane.rows["buyer"]}
AlterOffer(o) == /\ \E t \in Twisted(o) \ {o} : offers' = offers \cup {t}
                 /\ Mishap("wire")
                 /\ UNCHANGED <<lane, tape, wrote, job, harm, given, pin, proposing, accepted>>

Accept(p, o) ==
  /\ o.digest \in {Null, o.shared}
  /\ o.row > 0
  /\ Write(p, Body(o.id, "accept", "acceptor", o.shared, Null,
                   [chain |-> o.chain, row |-> o.row, ledger |-> o.ledger]))
  /\ accepted' = accepted \cup {[by |-> p, row |-> Len(tape'[p]), offer |-> o]}
  /\ UNCHANGED <<job, mishaps, proposing, offers>>

(***************************************************************************)
(* verify().                                                               *)
(***************************************************************************)
Agreed == "AGREED TERMS"
Different == "DIFFERENT TERMS"
Missing == "MISSING"
Unseen == "COULD NOT LOOK"

NoDeal == "no deal"    \* a deal no row is of

ASSUME NoDealIsNone ==
  /\ NoDeal # TheDeal
  /\ \A l \in Lanes : NoDeal \notin l.ids \cup {b.deal : b \in ToSet(l.first)}

\* _read: a ledger that was edited is read all the same, unless a line of it
\* does not parse.
Read(f) == LET t == LoadSide(f, NoDeal, f)
               cnl == t.refused /\ (~t.broken \/ harm[f] = "scrap")
           IN  [cnl |-> cnl, broken |-> t.broken, rows |-> IF cnl THEN <<>> ELSE tape[f]]

Rows(r, h, step) == {n \in DOMAIN r.rows : r.rows[n].body.deal = h /\ r.rows[n].body.step = step}

\* Mutant of Binding: any row with the hash will do.
BindingOfHash(P, np, cites) ==
  IF \E n \in DOMAIN P.rows : P.rows[n].chain = cites.chain THEN Agreed ELSE Different

\* _binding: the ledger, then the row, then that it is the last proposal.
Binding(P, np, cites) ==
  CASE cites.ledger # P.rows[1].chain -> Different
    [] cites.ledger = P.rows[1].chain /\ cites.row \notin DOMAIN P.rows -> Missing
    [] cites.ledger = P.rows[1].chain /\ cites.row \in DOMAIN P.rows ->
         IF P.rows[cites.row].chain # cites.chain \/ cites.row # np THEN Different ELSE Agreed

\* _one, of the last proposal on P and the last acceptance on O.
LineUp(h, P, O) ==
  LET np == Max(Rows(P, h, "propose"))
      p == P.rows[np].body
      q == O.rows[Max(Rows(O, h, "accept"))].body
      bound == Binding(P, np, q.cites)
  IN  IF p.shared # q.shared \/ p.digest # p.shared \/ q.digest # q.shared THEN Different
      ELSE IF bound # Agreed THEN bound
      ELSE IF P.broken \/ O.broken THEN Unseen ELSE Agreed

Pairs(h, P, O) == Rows(P, h, "propose") # {} /\ Rows(O, h, "accept") # {}

One(h, A, B) == IF Pairs(h, A, B) THEN LineUp(h, A, B)
                ELSE IF Pairs(h, B, A) THEN LineUp(h, B, A) ELSE Missing

\* The order _verify looks for the worst word in.
Severity(w) == CASE w = Different -> 4 [] w = Missing -> 3 [] w = Unseen -> 2 [] w = Agreed -> 1

\* _verify, of the handshakes asked for or, if none is, of all on the ledgers.
Verify(asked) ==
  LET A == Read(given["buyer"])
      B == Read(given["seller"])
      seen == {h \in lane.ids : \E r \in {A, B} : Rows(r, h, "propose") \cup Rows(r, h, "accept") # {}}
      ids == IF asked = {} THEN seen ELSE asked
      words == {One(h, A, B) : h \in ids}
  IN  IF A.cnl \/ B.cnl \/ ids = {} \/ ~(ids \subseteq seen) THEN Unseen
      ELSE CHOOSE w \in words : \A v \in words : Severity(w) >= Severity(v)

Handshakes == \/ \E p \in Parties : \/ HandOver(p) \/ Drop(p)
                                    \/ \E h \in lane.ids, x \in lane.details : Propose(p, h, x)
                                    \/ \E o \in offers : Accept(p, o)
              \/ \E o \in offers : AlterOffer(o)

Next == \/ (Deals \/ Damage \/ \E p \in Parties : TakePin(p)) /\ UNCHANGED <<proposing, offers, accepted>>
        \/ Handshakes

Spec == Init /\ [][Next]_vars

(***************************************************************************)
(* What must hold.                                                         *)
(***************************************************************************)
LastOn(p, h, step) == Max({0} \cup {n \in DOMAIN tape[p] :
                            tape[p][n].body.deal = h /\ tape[p][n].body.step = step})

\* The last acceptance on O's ledger is one O gave, and it was given for the row
\* that is the last proposal on P's ledger, as P wrote it.
Countersigned(h, P, O) ==
  LET n == LastOn(P, h, "propose")
  IN  \E a \in accepted : /\ a.by = O /\ a.row = LastOn(O, h, "accept") /\ a.offer.id = h
                          /\ n \in DOMAIN wrote[P]
                          /\ a.offer.chain = wrote[P][n].chain
                          /\ a.offer.shared = wrote[P][n].body.shared

\* AGREED TERMS is never said, of one handshake or of all on the ledgers, unless
\* one party wrote the proposal that now is its last and the other countersigned
\* exactly that row, whatever was done to the offer on its way, to the ledgers
\* afterwards, or by proposing again.
AgreedIsCountersigned ==
  \A h \in lane.ids : \A asked \in {{}, {h}} :
    (/\ Verify(asked) = Agreed /\ given["buyer"] # given["seller"]
     /\ \E p \in Parties : LastOn(p, h, "propose") + LastOn(p, h, "accept") > 0)
        => \E p \in Parties : Countersigned(h, p, Other(p))

\* When one party proposed and nothing went wrong, verify finds the agreement
\* exactly if the other party's last acceptance is of the last proposal, however
\* the two and other programs wrote on the ledgers in between.
HonestHandshakeIsNotAccused ==
  mishaps = <<>> =>
    \A h \in lane.ids, p \in Parties :
      (LastOn(p, h, "propose") > 0 /\ LastOn(Other(p), h, "propose") = 0) =>
        Verify({h}) = IF LastOn(Other(p), h, "accept") = 0 THEN Missing
                      ELSE IF Countersigned(h, p, Other(p)) THEN Agreed ELSE Different

\* The verdicts over two honest parties, of a deal and of a handshake.
HonestIsNotAccused == HonestDealIsNotAccused /\ HonestHandshakeIsNotAccused
=============================================================================
