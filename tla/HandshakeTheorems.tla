-------------------------- MODULE HandshakeTheorems --------------------------
(***************************************************************************)
(* Theorems about the deal and the handshake of Deal and Handshake: each   *)
(* verdict is true of every deal and every handshake, for any rows, any    *)
(* interleaving and any number of mishaps, by one inductive invariant.     *)
(***************************************************************************)
EXTENDS Handshake, FiniteSetTheorems, WellFoundedInduction, TLAPS

Listing(s) == \E T : s \in Seq(T)
OnParties(f) == f = [p \in Parties |-> f[p]]

\* The chain c spells the first n rows.
Spells(c, rows, n) == Listing(c) /\ Len(c) = n /\ \A k \in 1..n : c[k] = rows[k].body
Spelled(rows) == \A n \in 1..Len(rows) : Spells(rows[n].chain, rows, n)

Shaped(s) == s = Shared(s.what, s.md)
Plain(b) == /\ b = [deal |-> b.deal, step |-> b.step, party |-> b.party, shared |-> b.shared,
                    digest |-> b.digest, note |-> b.note, cites |-> b.cites]
            /\ Shaped(b.shared)
Row(r) == r = [body |-> r.body, chain |-> r.chain]

FirstRow(l, b) == \E n \in 1..Len(l.first) : b = l.first[n]
DealRow(p, b) == b.deal = TheDeal /\ b.step \in StepNames /\ b.party = p
ProposeRow(l, p, b) ==
  /\ b.deal \in l.ids /\ b.step = "propose"
  /\ \E x \in l.details :
       b.shared = Proposal(b.deal, p, x)
AcceptRow(l, b) == b.deal \in l.ids /\ b.step = "accept" /\ b.shared.md = Null

Written(l, p, b) ==
  /\ Plain(b) /\ b.digest = b.shared
  /\ FirstRow(l, b) \/ DealRow(p, b) \/ ProposeRow(l, p, b) \/ AcceptRow(l, b)

\* A row of the deal that a party is about to append.
JobOK(p, b) == b # Null => /\ Plain(b) /\ b.digest = b.shared /\ DealRow(p, b)
                           /\ b.step \in {"commit", "ship"} /\ (b.step = "commit" => p = "buyer")

\* What the programs wrote.
WroteOK ==
  /\ lane \in Lanes /\ OnParties(wrote) /\ OnParties(job)
  /\ \A p \in Parties :
       /\ Listing(wrote[p]) /\ Spelled(wrote[p])
       /\ \A n \in 1..Len(wrote[p]) : Row(wrote[p][n]) /\ Written(lane, p, wrote[p][n].body)
       /\ JobOK(p, job[p])

\* b is a row that was written as o and altered since, or was not.
Version(b, o) ==
  /\ Plain(b)
  /\ b.deal = o.deal /\ b.step = o.step /\ b.party = o.party /\ b.note = o.note /\ b.cites = o.cites
  /\ b.shared.what \in {o.shared.what, Garbled}
  /\ o.shared.md = Null => b.shared.md = Null

TapeOK ==
  /\ OnParties(tape) /\ OnParties(harm) /\ OnParties(given)
  /\ \A p \in Parties :
       /\ given[p] \in Parties
       /\ Listing(tape[p]) /\ Len(tape[p]) <= Len(wrote[p])
       /\ \A n \in 1..Len(tape[p]) : Row(tape[p][n]) /\ Version(tape[p][n].body, wrote[p][n].body)

PinOK ==
  pin # NoPin =>
    /\ pin.of \in Parties /\ pin.side \in {pin.of, Null}
    /\ pin.rows \in 1..Len(wrote[pin.of]) /\ pin.chain = wrote[pin.of][pin.rows].chain

\* Nothing happened to the ledgers or the files.
Honest == Listing(mishaps) /\ (mishaps = <<>> => Untouched)

(* Notes *)
Held(rows, n, md) == \E k \in 1..n : /\ rows[k].body.deal = TheDeal /\ rows[k].body.step = "mandate"
                                     /\ rows[k].body.shared.md = md
Canceled(rows, n) == \E k \in 1..n : rows[k].body.deal = TheDeal /\ rows[k].body.step = "cancel"
Noted(p, b, rows, n) ==
  /\ b.note \in {"inside", "unknown"} => Held(rows, n, b.shared.md)
  /\ b.note = "inside" => /\ b.shared.md.merchant = b.shared.what.seller
                          /\ b.shared.md.currency = b.shared.what.currency
                          /\ b.shared.what.total <= b.shared.md.cap
  /\ b.note = "after_cancel" => Canceled(rows, n)
  /\ b.step = "mandate" => b.shared.md \in Mandates
NotesOK ==
  \A p \in Parties :
    /\ \A n \in 1..Len(wrote[p]) : Noted(p, wrote[p][n].body, wrote[p], n-1)
    /\ job[p] # Null => Noted(p, job[p], wrote[p], Len(wrote[p]))

(* Handshakes *)
Proposed(l, W, p, n) == /\ n \in 1..Len(W[p]) /\ W[p][n].body.step = "propose" /\ W[p][n].body.deal \in l.ids
OfProposal(l, W, c) == \E p \in Parties : \E n \in 1..Len(W[p]) :
                         Proposed(l, W, p, n) /\ W[p][n].chain = c
Offer(o) == o = [id |-> o.id, shared |-> o.shared, digest |-> o.digest, chain |-> o.chain,
                 row |-> o.row, ledger |-> o.ledger]
Offered(l, W, o) == /\ Offer(o) /\ o.id \in l.ids /\ Shaped(o.shared) /\ o.shared.md = Null
                    /\ OfProposal(l, W, o.chain)
AcceptBody(o) == Body(o.id, "accept", "acceptor", o.shared, Null,
                      [chain |-> o.chain, row |-> o.row, ledger |-> o.ledger])
Accepts(W, a) == /\ a = [by |-> a.by, row |-> a.row, offer |-> a.offer]
                 /\ a.by \in Parties /\ a.row \in 1..Len(W[a.by])
                 /\ W[a.by][a.row].body = AcceptBody(a.offer)

ProposingOK ==
  /\ OnParties(proposing)
  /\ \A p \in Parties : proposing[p] # Null =>
       \E n \in 1..Len(wrote[p]) :
         /\ Proposed(lane, wrote, p, n)
         /\ proposing[p] = [id |-> wrote[p][n].body.deal, shared |-> wrote[p][n].body.shared,
                            chain |-> wrote[p][n].chain]
OffersOK ==
  /\ \A o \in offers : Offered(lane, wrote, o)
  /\ \A a \in accepted : Accepts(wrote, a) /\ Offered(lane, wrote, a.offer)
  /\ \A p \in Parties : \A n \in 1..Len(wrote[p]) :
       (wrote[p][n].body.step = "accept" /\ wrote[p][n].body.deal \in lane.ids) =>
         \E a \in accepted : a.by = p /\ a.row = n

\* An offer nobody altered.
Exact(l, W, o) == \E p \in Parties : \E n \in 1..Len(W[p]) :
  /\ Proposed(l, W, p, n)
  /\ o = [id |-> W[p][n].body.deal, shared |-> W[p][n].body.shared, digest |-> W[p][n].body.shared,
          chain |-> W[p][n].chain, row |-> n, ledger |-> W[p][1].chain]
ExactOK == mishaps = <<>> => /\ \A o \in offers : Exact(lane, wrote, o)
                             /\ \A a \in accepted : Exact(lane, wrote, a.offer)

(* Copies *)
Places(rows, step) == {n \in 1..Len(rows) : rows[n].body.deal = TheDeal /\ rows[n].body.step = step}
Said(rows, step) == [k \in 1..Len(OfStep(rows, TheDeal, step)) |-> OfStep(rows, TheDeal, step)[k].body.shared]
CopiedOK ==
  mishaps = <<>> =>
    \A step \in BothSides \cup Mirrored : \A p \in Parties : ~Begins(p, step) =>
      LET mine == OfStep(wrote[p], TheDeal, step)
          theirs == OfStep(wrote[Other(p)], TheDeal, step)
      IN  /\ Len(mine) <= Len(theirs)
          /\ \A k \in 1..Len(mine) : mine[k].body.shared = theirs[k].body.shared
          /\ job[p] # Null /\ job[p].step = step =>
               /\ Len(mine) < Len(theirs)
               /\ job[p].shared = theirs[Len(mine)+1].body.shared

Below(S, x) == {y \in S : y < x}

\* The members of a finite set below one of its members are fewer than the set.
LEMMA BelowCounts ==
  ASSUME NEW S \in SUBSET Nat, IsFiniteSet(S), NEW x \in S
  PROVE  /\ IsFiniteSet(Below(S, x))
         /\ Cardinality(Below(S, x)) \in 0..Cardinality(S)-1
<1>1. Below(S, x) \subseteq S \ {x}
  BY DEF Below
<1>2. IsFiniteSet(S \ {x}) /\ Cardinality(S \ {x}) = Cardinality(S) - 1
  BY FS_RemoveElement
<1>3. /\ IsFiniteSet(Below(S, x)) /\ Cardinality(Below(S, x)) <= Cardinality(S \ {x})
  BY <1>1, <1>2, FS_Subset
<1>4. Cardinality(Below(S, x)) \in Nat /\ Cardinality(S) \in Nat
  BY <1>3, FS_CardinalityType
<1> QED
  BY <1>2, <1>3, <1>4

\* A later member has more of the set below it.
LEMMA BelowGrows ==
  ASSUME NEW S \in SUBSET Nat, IsFiniteSet(S), NEW x \in S, NEW z \in S, x < z
  PROVE  Cardinality(Below(S, x)) < Cardinality(Below(S, z))
<1> PICK B : B = Below(S, x)
  OBVIOUS
<1>1. IsFiniteSet(B) /\ x \notin B /\ B \cup {x} \subseteq Below(S, z)
  <2>1. \A y \in S : y \in Nat /\ (y < x => y < z) /\ ~(x < x)
    OBVIOUS
  <2>2. \A y : y \in B => y \in S /\ y < x
    BY DEF Below
  <2>3. \A y : y \in Below(S, z) <=> y \in S /\ y < z
    BY DEF Below
  <2>4. IsFiniteSet(B)
    BY BelowCounts
  <2> QED
    BY <2>1, <2>2, <2>3, <2>4
<1>2. IsFiniteSet(B \cup {x}) /\ Cardinality(B \cup {x}) = Cardinality(B) + 1
  BY <1>1, FS_AddElement
<1>3. Cardinality(B \cup {x}) <= Cardinality(Below(S, z))
  BY <1>1, BelowCounts, FS_Subset
<1>4. Cardinality(B) \in Nat /\ Cardinality(Below(S, z)) \in Nat
  BY <1>1, BelowCounts, FS_CardinalityType
<1> QED
  BY <1>2, <1>3, <1>4

\* A set of numbers that is not empty has a least member.
LEMMA LeastOf ==
  ASSUME NEW T \in SUBSET Nat, T # {}
  PROVE  \E x \in T : \A y \in T : x <= y
<1> DEFINE R == OpToRel(<, Nat)
<1>1. IsWellFoundedOn(R, Nat)
  BY NatLessThanWellFounded
<1>2. \A x, y \in Nat : <<y, x>> \in R <=> y < x
  BY Zenon DEF OpToRel
<1> HIDE DEF R
<1>3. PICK x \in T : \A y \in T : <<y, x>> \notin R
  BY <1>1, WFMin
<1>4. ASSUME NEW y \in T PROVE x <= y
  <2>1. x \in Nat /\ y \in Nat
    OBVIOUS
  <2>2. ~(y < x)
    BY <1>2, <1>3, <2>1
  <2> QED
    BY <2>1, <2>2
<1> QED
  BY <1>4

Rank(S, x) == Cardinality(Below(S, x))

\* Every number below the cardinality is the rank of one element.
LEMMA RanksAreAll ==
  ASSUME NEW S \in SUBSET Nat, IsFiniteSet(S)
  PROVE  /\ Cardinality(S) \in Nat
         /\ \A x, z \in S : Rank(S, x) = Rank(S, z) => x = z
         /\ \A x, z \in S : x < z => Rank(S, x) < Rank(S, z)
         /\ \A x \in S : Rank(S, x) \in 0..Cardinality(S)-1
         /\ \A k \in 0..Cardinality(S)-1 : \E x \in S : Rank(S, x) = k
<1> PICK n \in Nat : n = Cardinality(S)
  BY FS_CardinalityType
<1> DEFINE rank == [x \in S |-> Rank(S, x)]
<1>1. \A x, z \in S : x < z => rank[x] < rank[z]
  BY BelowGrows DEF Rank
<1>2. rank \in [S -> 0..n-1]
  BY BelowCounts DEF Rank
<1>0. \A x, z \in S : x < z \/ z < x \/ x = z
  OBVIOUS
<1>3. \A x, z \in S : rank[x] = rank[z] => x = z
  <2> HIDE DEF rank
  <2> SUFFICES ASSUME NEW x \in S, NEW z \in S, rank[x] = rank[z] PROVE x = z
    OBVIOUS
  <2>1. rank[x] \in Nat /\ rank[z] \in Nat
    BY <1>2
  <2>2. ~(rank[x] < rank[z]) /\ ~(rank[z] < rank[x])
    BY <2>1
  <2> QED
    BY <1>0, <1>1, <2>2
<1>3a. rank \in Injection(S, 0..n-1)
  <2> HIDE DEF rank
  <2> QED
    BY <1>2, <1>3 DEF Injection, IsInjective
<1>4. IsFiniteSet(0..n-1) /\ Cardinality(0..n-1) = n
  <2>1. 0 \in Int /\ n-1 \in Int
    OBVIOUS
  <2>2. /\ IsFiniteSet(0..n-1)
        /\ Cardinality(0..n-1) = (IF 0 > n-1 THEN 0 ELSE (n-1) - 0 + 1)
    BY <2>1, FS_Interval, Zenon
  <2> QED
    BY <2>2
<1>5. rank \in Surjection(S, 0..n-1)
  <2> HIDE DEF rank
  <2> QED
    BY <1>3a, <1>4, FS_Injection, Zenon
<1>6. \A k \in 0..n-1 : \E x \in S : rank[x] = k
  <2> HIDE DEF rank
  <2> QED
    BY <1>5 DEF Surjection
<1>7. \A x \in S : rank[x] = Rank(S, x)
  OBVIOUS
<1> HIDE DEF rank
<1> QED
  BY <1>1, <1>2, <1>3, <1>6, <1>7

\* InOrder(S) lists the elements by their rank.
ByRank(l, S, n) == /\ n \in Nat /\ l \in [1..n -> S]
                   /\ \A k \in 1..n : Rank(S, l[k]) = k - 1

\* InOrder lists a finite set by rank: one member for each place.
LEMMA InOrderRanks ==
  ASSUME NEW S \in SUBSET Nat, IsFiniteSet(S)
  PROVE  ByRank(InOrder(S), S, Cardinality(S))
<1> PICK n \in Nat : n = Cardinality(S)
  BY FS_CardinalityType
<1>1. \A k \in 1..n : InOrder(S)[k] \in S /\ Rank(S, InOrder(S)[k]) = k-1
  <2> SUFFICES ASSUME NEW k \in 1..n
               PROVE  InOrder(S)[k] \in S /\ Rank(S, InOrder(S)[k]) = k-1
    OBVIOUS
  <2>1. InOrder(S)[k] = CHOOSE x \in S : Rank(S, x) = k-1
    BY DEF InOrder, Below, Rank
  <2>2. k-1 \in 0..n-1
    OBVIOUS
  <2>3. \E x \in S : Rank(S, x) = k-1
    BY <2>2, RanksAreAll
  <2> QED
    BY <2>1, <2>3
<1>2. InOrder(S) \in [1..n -> S]
  BY <1>1 DEF InOrder
<1> QED
  BY <1>1, <1>2 DEF ByRank

\* InOrder is what its name says.
Listed(l, S) ==
  /\ \E n \in Nat : l \in [1..n -> S]
  /\ \A x \in S : \E i \in DOMAIN l : l[i] = x
  /\ \A i, j \in DOMAIN l : i < j => l[i] < l[j]

\* InOrder lists every member once, the smaller ones first.
LEMMA InOrderLists ==
  ASSUME NEW S \in SUBSET Nat, IsFiniteSet(S)
  PROVE  Listed(InOrder(S), S)
<1> PICK n, l : n = Cardinality(S) /\ l = InOrder(S)
  OBVIOUS
<1>1. n \in Nat /\ l \in [1..n -> S] /\ \A k \in 1..n : Rank(S, l[k]) = k-1
  BY InOrderRanks DEF ByRank
<1>2. \A x \in S : l[Rank(S, x) + 1] = x /\ Rank(S, x) + 1 \in 1..n
  <2> SUFFICES ASSUME NEW x \in S PROVE l[Rank(S, x) + 1] = x /\ Rank(S, x) + 1 \in 1..n
    OBVIOUS
  <2>1. PICK k \in 0..n-1 : Rank(S, x) = k
    BY RanksAreAll
  <2>2. k + 1 \in 1..n /\ k + 1 - 1 = k
    BY <1>1
  <2>3. l[k+1] \in S /\ Rank(S, l[k+1]) = k
    BY <1>1, <2>2
  <2>4. l[k+1] = x
    <3>1. \A y, z \in S : Rank(S, y) = Rank(S, z) => y = z
      BY RanksAreAll
    <3> QED
      BY <2>1, <2>3, <3>1
  <2> QED
    BY <2>1, <2>2, <2>4
<1>3. \A i, j \in 1..n : i < j => l[i] < l[j]
  <2> SUFFICES ASSUME NEW i \in 1..n, NEW j \in 1..n, i < j PROVE l[i] < l[j]
    OBVIOUS
  <2>1. l[i] \in S /\ l[j] \in S /\ Rank(S, l[i]) = i-1 /\ Rank(S, l[j]) = j-1
    BY <1>1
  <2>2. Rank(S, l[i]) # Rank(S, l[j]) /\ ~(Rank(S, l[j]) < Rank(S, l[i]))
    BY <2>1
  <2>3. l[i] # l[j] /\ ~(l[j] < l[i])
    BY <2>1, <2>2, RanksAreAll
  <2>4. l[i] < l[j] \/ l[j] < l[i] \/ l[i] = l[j]
    <3>1. l[i] \in Nat /\ l[j] \in Nat
      BY <2>1
    <3> QED
      BY <3>1
  <2> QED
    BY <2>3, <2>4
<1> QED
  BY <1>1, <1>2, <1>3 DEF Listed

\* A greater number comes last.
LEMMA InOrderGrows ==
  ASSUME NEW S \in SUBSET Nat, IsFiniteSet(S), NEW z \in Nat, \A x \in S : x < z
  PROVE  LET l == InOrder(S)
             m == InOrder(S \cup {z})
         IN  /\ Cardinality(S \cup {z}) = Cardinality(S) + 1 /\ Cardinality(S) \in Nat
             /\ \A k \in 1..Cardinality(S) : m[k] = l[k]
             /\ m[Cardinality(S) + 1] = z
<1> PICK n, l, T : n = Cardinality(S) /\ l = InOrder(S) /\ T = S \cup {z}
  OBVIOUS
<1> PICK m : m = InOrder(T)
  OBVIOUS
<1>1. z \notin S /\ T \in SUBSET Nat
  OBVIOUS
<1>2. IsFiniteSet(T) /\ Cardinality(T) = n + 1
  BY <1>1, FS_AddElement
<1>3. n \in Nat /\ l \in [1..n -> S] /\ \A k \in 1..n : Rank(S, l[k]) = k-1
  BY InOrderRanks DEF ByRank
<1>4. m \in [1..n+1 -> T] /\ \A k \in 1..n+1 : Rank(T, m[k]) = k-1
  BY <1>1, <1>2, InOrderRanks DEF ByRank
<1>5. \A x \in S : Below(T, x) = Below(S, x)
  BY <1>1 DEF Below
<1>6. Below(T, z) = S
  <2>1. ~(z < z)
    OBVIOUS
  <2>2. \A y : y \in Below(T, z) <=> y \in T /\ y < z
    BY DEF Below
  <2> QED
    BY <2>1, <2>2
<1>7. \A x, y \in T : Rank(T, x) = Rank(T, y) => x = y
  BY <1>1, <1>2, RanksAreAll
<1>8. \A k \in 1..n : m[k] = l[k]
  <2> SUFFICES ASSUME NEW k \in 1..n PROVE m[k] = l[k]
    OBVIOUS
  <2>1. l[k] \in S /\ l[k] \in T /\ Rank(T, l[k]) = k - 1
    BY <1>3, <1>5 DEF Rank
  <2>2. k \in 1..n+1
    BY <1>3
  <2>3. m[k] \in T /\ Rank(T, m[k]) = k - 1
    BY <1>4, <2>2
  <2> QED
    BY <1>7, <2>1, <2>3
<1> PICK q : q = n + 1
  OBVIOUS
<1>9. m[q] = z
  <2>1. q \in 1..n+1 /\ q - 1 = n
    BY <1>3
  <2>2. m[q] \in T /\ Rank(T, m[q]) = q - 1
    BY <1>4, <2>1
  <2>3. Rank(T, z) = n /\ z \in T
    BY <1>6 DEF Rank
  <2> QED
    BY <1>7, <2>1, <2>2, <2>3
<1> QED
  BY <1>2, <1>3, <1>8, <1>9

\* The Max and the Min of a finite set of numbers are its last and first member.
LEMMA LastAndFirst ==
  ASSUME NEW S \in SUBSET Nat, IsFiniteSet(S), S # {}
  PROVE  /\ Max(S) \in S /\ \A y \in S : y <= Max(S)
         /\ Min(S) \in S /\ \A y \in S : Min(S) <= y
<1> PICK l : l = InOrder(S)
  OBVIOUS
<1>1. PICK n \in Nat : l \in [1..n -> S]
  BY InOrderLists DEF Listed
<1>2. /\ \A x \in S : \E i \in 1..n : l[i] = x
      /\ \A i, j \in 1..n : i < j => l[i] < l[j]
  BY <1>1, InOrderLists DEF Listed
<1>3. n > 0 /\ 1 \in 1..n /\ n \in 1..n
  <2>1. PICK x \in S : TRUE
    OBVIOUS
  <2>2. PICK i \in 1..n : l[i] = x
    BY <1>2, <2>1
  <2> QED
    BY <2>2
<1>4. ASSUME NEW y \in S PROVE l[1] <= y /\ y <= l[n]
  <2>1. PICK i \in 1..n : l[i] = y
    BY <1>2
  <2>2. l[1] \in Nat /\ l[n] \in Nat /\ l[i] \in Nat
    BY <1>1, <1>3
  <2>3. (i = 1 \/ l[1] < l[i]) /\ (i = n \/ l[i] < l[n])
    BY <1>2, <1>3
  <2> QED
    BY <2>1, <2>2, <2>3
<1>5. l[n] \in S /\ l[1] \in S
  BY <1>1, <1>3
<1>6. (\E x \in S : \A y \in S : x >= y) /\ (\E x \in S : \A y \in S : x =< y)
  BY <1>4, <1>5
<1>7. Max(S) \in S /\ \A y \in S : Max(S) >= y
  BY <1>6 DEF Max
<1>8. Min(S) \in S /\ \A y \in S : Min(S) =< y
  BY <1>6 DEF Min
<1> QED
  BY <1>7, <1>8

(***************************************************************************)
(* Lists and the rows of a list at some places.                            *)
(***************************************************************************)
Follows(t, s, x) ==
  /\ Listing(s) /\ Listing(t) /\ Len(s) \in Nat /\ Len(t) = Len(s) + 1
  /\ \A k \in 1..Len(s) : t[k] = s[k]
  /\ t[Len(s) + 1] = x

\* Append adds one element at the end of a list.
LEMMA AppendFollows == ASSUME NEW s, Listing(s), NEW x PROVE Follows(Append(s, x), s, x)
<1>1. PICK T : s \in Seq(T)
  BY DEF Listing
<1>2. s \in Seq(T \cup {x}) /\ Append(s, x) \in Seq(T \cup {x})
  BY <1>1
<1>3. Listing(Append(s, x))
  BY <1>2 DEF Listing
<1> QED
  BY <1>2, <1>3 DEF Follows

\* A list has a length, places 1 to the length, and is empty iff the length is 0.
LEMMA ListDomain ==
  ASSUME NEW s, Listing(s)
  PROVE  Len(s) \in Nat /\ DOMAIN s = 1..Len(s) /\ (s = <<>> <=> Len(s) = 0)
<1>1. PICK T : s \in Seq(T)
  BY DEF Listing
<1> QED
  BY <1>1

\* Lists with the same elements at the same places are the same.
LEMMA SameList ==
  ASSUME NEW s, NEW t, Listing(s), Listing(t), Len(s) = Len(t), \A k \in 1..Len(s) : s[k] = t[k]
  PROVE  s = t
<1>1. PICK S : s \in Seq(S)
  BY DEF Listing
<1>2. PICK T : t \in Seq(T)
  BY DEF Listing
<1>3. s \in Seq(S \cup T) /\ t \in Seq(S \cup T)
  BY <1>1, <1>2
<1> QED
  BY <1>3

\* The first n rows of a list.
LEMMA FrontIs ==
  ASSUME NEW s, Listing(s), NEW n \in 0..Len(s)
  PROVE  /\ Listing(SubSeq(s, 1, n)) /\ Len(SubSeq(s, 1, n)) = n
         /\ \A k \in 1..n : SubSeq(s, 1, n)[k] = s[k]
<1>1. PICK T : s \in Seq(T)
  BY DEF Listing
<1>2. SubSeq(s, 1, n) \in Seq(T)
  BY <1>1
<1>3. Listing(SubSeq(s, 1, n))
  BY <1>2 DEF Listing
<1> QED
  BY <1>1, <1>3

\* A function on 1..n is a list of length n.
LEMMA FunctionLists ==
  ASSUME NEW n \in Nat, NEW f, f = [k \in 1..n |-> f[k]]
  PROVE  Listing(f) /\ Len(f) = n
<1> DEFINE T == {f[k] : k \in 1..n}
<1>1. f \in Seq(T)
  OBVIOUS
<1>2. DOMAIN f = 1..n
  OBVIOUS
<1>3. Len(f) = n
  <2> HIDE DEF T
  <2>1. Len(f) \in Nat /\ DOMAIN f = 1..Len(f)
    BY <1>1
  <2> QED
    BY <1>2, <2>1
<1> QED
  BY <1>1, <1>3 DEF Listing

\* Any places of a list are a finite set of numbers.
LEMMA PlacesFinite ==
  ASSUME NEW m \in Nat, NEW S, S \subseteq 1..m
  PROVE  S \in SUBSET Nat /\ IsFiniteSet(S) /\ Cardinality(S) \in Nat /\ (Cardinality(S) = 0 <=> S = {})
<1>1. IsFiniteSet(1..m)
  BY FS_Interval
<1>2. IsFiniteSet(S)
  BY <1>1, FS_Subset
<1>3. Cardinality(S) \in Nat /\ (Cardinality(S) = 0 <=> S = {})
  BY <1>2, FS_CardinalityType, FS_EmptySet, Zenon
<1> QED
  BY <1>2, <1>3

Selected(s, rows, S) ==
  /\ Listing(s) /\ Len(s) = Cardinality(S) /\ Len(s) \in Nat
  /\ \A k \in 1..Len(s) : \E n \in S : s[k] = rows[n]
  /\ \A n \in S : \E k \in 1..Len(s) : s[k] = rows[n]

\* RowsAt is a list as long as the set of places.
LEMMA RowsAtIs ==
  ASSUME NEW rows, NEW S \in SUBSET Nat, IsFiniteSet(S)
  PROVE  /\ Cardinality(S) \in Nat
         /\ RowsAt(rows, S) = [k \in 1..Cardinality(S) |-> rows[InOrder(S)[k]]]
         /\ Listing(RowsAt(rows, S)) /\ Len(RowsAt(rows, S)) = Cardinality(S)
<1> PICK n, l : n = Cardinality(S) /\ l = InOrder(S)
  OBVIOUS
<1>1. n \in Nat /\ DOMAIN l = 1..n
  BY FS_CardinalityType DEF InOrder
<1> PICK s : s = RowsAt(rows, S)
  OBVIOUS
<1>2. s = [k \in 1..n |-> rows[l[k]]]
  BY <1>1 DEF RowsAt
<1>3. s = [k \in 1..n |-> s[k]]
  BY <1>2
<1>4. Listing(s) /\ Len(s) = n
  BY <1>1, <1>3, FunctionLists
<1> QED
  BY <1>1, <1>2, <1>4

\* RowsAt holds the rows at the places, all of them and nothing else.
LEMMA RowsAtSelects ==
  ASSUME NEW rows, NEW S \in SUBSET Nat, IsFiniteSet(S)
  PROVE  Selected(RowsAt(rows, S), rows, S)
<1> PICK n, l, s : n = Cardinality(S) /\ l = InOrder(S) /\ s = RowsAt(rows, S)
  OBVIOUS
<1>1. n \in Nat /\ s = [k \in 1..n |-> rows[l[k]]] /\ Listing(s) /\ Len(s) = n
  BY RowsAtIs
<1>2. Listed(l, S) /\ DOMAIN l = 1..n
  BY InOrderLists DEF InOrder
<1>3. \A k \in 1..n : l[k] \in S
  BY <1>2 DEF Listed
<1>4. \A x \in S : \E k \in 1..n : l[k] = x
  BY <1>2 DEF Listed
<1>5. \A k \in 1..n : \E x \in S : s[k] = rows[x]
  BY <1>1, <1>3
<1>6. \A x \in S : \E k \in 1..n : s[k] = rows[x]
  BY <1>1, <1>4
<1> QED
  BY <1>1, <1>5, <1>6 DEF Selected

\* One more place after the others adds its row at the end.
LEMMA RowsAtGrows ==
  ASSUME NEW rows, NEW t, NEW S \in SUBSET Nat, IsFiniteSet(S), NEW z \in Nat,
         \A x \in S : x < z /\ t[x] = rows[x]
  PROVE  Follows(RowsAt(t, S \cup {z}), RowsAt(rows, S), t[z])
<1> PICK n, l, s : n = Cardinality(S) /\ l = InOrder(S) /\ s = RowsAt(rows, S)
  OBVIOUS
<1>a. PICK T : T = S \cup {z}
  OBVIOUS
<1> PICK m, u : m = InOrder(T) /\ u = RowsAt(t, T)
  OBVIOUS
<1>1. n \in Nat /\ s = [k \in 1..n |-> rows[l[k]]] /\ Listing(s) /\ Len(s) = n
  BY RowsAtIs
<1>2. T \in SUBSET Nat /\ IsFiniteSet(T)
  BY <1>a, FS_AddElement
<1> PICK q : q = n + 1
  OBVIOUS
<1>3. Cardinality(T) = q /\ (\A k \in 1..n : m[k] = l[k]) /\ m[q] = z
  BY <1>a, InOrderGrows
<1>4. u = [k \in 1..q |-> t[m[k]]] /\ Listing(u) /\ Len(u) = q
  <2>1. /\ RowsAt(t, T) = [k \in 1..Cardinality(T) |-> t[InOrder(T)[k]]]
        /\ Listing(RowsAt(t, T)) /\ Len(RowsAt(t, T)) = Cardinality(T)
    BY <1>2, RowsAtIs
  <2> QED
    BY <1>3, <2>1
<1>5. \A k \in 1..n : l[k] \in S
  BY InOrderRanks DEF ByRank
<1>6. \A k \in 1..n : u[k] = s[k]
  <2> SUFFICES ASSUME NEW k \in 1..n PROVE u[k] = s[k]
    OBVIOUS
  <2>0. k \in 1..q
    BY <1>1
  <2>1. u[k] = t[m[k]] /\ s[k] = rows[l[k]]
    BY <1>1, <1>4, <2>0
  <2> QED
    BY <1>3, <1>5, <2>1
<1>7. u[q] = t[z]
  <2>1. q \in 1..q
    BY <1>1
  <2>2. u[q] = t[m[q]]
    BY <1>4, <2>1
  <2> QED
    BY <1>3, <2>2
<1> QED
  BY <1>1, <1>4, <1>6, <1>7, <1>a DEF Follows

\* RowsAt depends on the rows at the places only.
LEMMA RowsAtSame ==
  ASSUME NEW rows, NEW t, NEW S \in SUBSET Nat, IsFiniteSet(S), \A x \in S : t[x] = rows[x]
  PROVE  RowsAt(t, S) = RowsAt(rows, S)
<1> PICK n, l : n = Cardinality(S) /\ l = InOrder(S)
  OBVIOUS
<1>1. \A k \in 1..n : l[k] \in S
  BY InOrderRanks DEF ByRank
<1>2. /\ RowsAt(t, S) = [k \in 1..n |-> t[l[k]]]
      /\ RowsAt(rows, S) = [k \in 1..n |-> rows[l[k]]]
  BY RowsAtIs
<1>3. \A k \in 1..n : t[l[k]] = rows[l[k]]
  BY <1>1
<1> QED
  BY <1>2, <1>3

(***************************************************************************)
(* The rows of a step of the deal, and the chains.                         *)
(***************************************************************************)
StepRow(r, step) == r.body.deal = TheDeal /\ r.body.step = step
InStepOf(s, rows, step) ==
  /\ Listing(s) /\ Len(s) \in Nat
  /\ \A k \in 1..Len(s) : \E n \in 1..Len(rows) : StepRow(rows[n], step) /\ s[k] = rows[n]
  /\ \A n \in 1..Len(rows) : StepRow(rows[n], step) => \E k \in 1..Len(s) : s[k] = rows[n]

\* The rows of a step of the deal are the rows at its places.
LEMMA PlacesAre ==
  ASSUME NEW rows, Listing(rows), NEW step
  PROVE  /\ OfStep(rows, TheDeal, step) = RowsAt(rows, Places(rows, step))
         /\ Places(rows, step) \in SUBSET Nat /\ IsFiniteSet(Places(rows, step))
         /\ \A n : n \in Places(rows, step) <=> n \in 1..Len(rows) /\ StepRow(rows[n], step)
<1>1. Len(rows) \in Nat /\ DOMAIN rows = 1..Len(rows)
  BY ListDomain
<1>2. OfStep(rows, TheDeal, step) = RowsAt(rows, Places(rows, step))
  BY <1>1 DEF OfStep, Places
<1>3. Places(rows, step) \subseteq 1..Len(rows)
  BY DEF Places
<1>4. \A n : n \in Places(rows, step) <=> n \in 1..Len(rows) /\ StepRow(rows[n], step)
  BY DEF Places, StepRow
<1> QED
  BY <1>1, <1>2, <1>3, <1>4, PlacesFinite

\* OfStep holds the deal's rows of that step, all of them and nothing else.
LEMMA StepRows ==
  ASSUME NEW rows, Listing(rows), NEW step
  PROVE  InStepOf(OfStep(rows, TheDeal, step), rows, step)
<1> PICK S : S = Places(rows, step)
  OBVIOUS
<1>1. /\ OfStep(rows, TheDeal, step) = RowsAt(rows, S) /\ S \in SUBSET Nat /\ IsFiniteSet(S)
      /\ \A n : n \in S <=> n \in 1..Len(rows) /\ StepRow(rows[n], step)
  BY PlacesAre
<1> PICK s : s = OfStep(rows, TheDeal, step)
  OBVIOUS
<1>2. Selected(s, rows, S)
  BY <1>1, RowsAtSelects
<1>3. /\ Listing(s) /\ Len(s) \in Nat
      /\ \A k \in 1..Len(s) : \E n \in S : s[k] = rows[n]
      /\ \A n \in S : \E k \in 1..Len(s) : s[k] = rows[n]
  BY <1>2 DEF Selected
<1>4. \A k \in 1..Len(s) : \E n \in 1..Len(rows) : StepRow(rows[n], step) /\ s[k] = rows[n]
  BY <1>1, <1>3
<1>5. \A n \in 1..Len(rows) : StepRow(rows[n], step) => \E k \in 1..Len(s) : s[k] = rows[n]
  BY <1>1, <1>3
<1> QED
  BY <1>3, <1>4, <1>5 DEF InStepOf

\* An appended row of the step is the last of OfStep.
LEMMA StepRowsGrow ==
  ASSUME NEW rows, NEW t, NEW r, Follows(t, rows, r), NEW step, StepRow(r, step)
  PROVE  Follows(OfStep(t, TheDeal, step), OfStep(rows, TheDeal, step), r)
<1> PICK z : z = Len(rows) + 1
  OBVIOUS
<1>1. /\ Listing(rows) /\ Listing(t) /\ z \in Nat /\ Len(t) = z /\ z \in 1..z
      /\ \A k \in 1..Len(rows) : t[k] = rows[k] /\ k \in 1..z /\ k < z
      /\ t[z] = r /\ \A k \in 1..z : k \in 1..Len(rows) \/ k = z
  BY DEF Follows
<1>2. PICK S : S = Places(rows, step)
  OBVIOUS
<1>3. PICK T : T = Places(t, step)
  OBVIOUS
<1>4. /\ OfStep(rows, TheDeal, step) = RowsAt(rows, S) /\ S \in SUBSET Nat /\ IsFiniteSet(S)
      /\ \A n : n \in S <=> n \in 1..Len(rows) /\ StepRow(rows[n], step)
  BY <1>1, <1>2, PlacesAre
<1>5. /\ OfStep(t, TheDeal, step) = RowsAt(t, T)
      /\ \A n : n \in T <=> n \in 1..z /\ StepRow(t[n], step)
  BY <1>1, <1>3, PlacesAre
<1>6. T = S \cup {z}
  BY <1>1, <1>4, <1>5
<1>7. \A x \in S : x < z /\ t[x] = rows[x]
  BY <1>1, <1>4
<1>8. Follows(RowsAt(t, S \cup {z}), RowsAt(rows, S), t[z])
  BY <1>1, <1>4, <1>7, RowsAtGrows
<1> QED
  BY <1>1, <1>4, <1>5, <1>6, <1>8

\* Any other appended row leaves OfStep alone.
LEMMA StepRowsSame ==
  ASSUME NEW rows, NEW t, NEW r, Follows(t, rows, r), NEW step, ~StepRow(r, step)
  PROVE  OfStep(t, TheDeal, step) = OfStep(rows, TheDeal, step)
<1> PICK z : z = Len(rows) + 1
  OBVIOUS
<1>1. /\ Listing(rows) /\ Listing(t) /\ z \in Nat /\ Len(t) = z /\ z \in 1..z
      /\ \A k \in 1..Len(rows) : t[k] = rows[k] /\ k \in 1..z /\ k < z
      /\ t[z] = r /\ \A k \in 1..z : k \in 1..Len(rows) \/ k = z
  BY DEF Follows
<1>2. PICK S : S = Places(rows, step)
  OBVIOUS
<1>3. PICK T : T = Places(t, step)
  OBVIOUS
<1>4. /\ OfStep(rows, TheDeal, step) = RowsAt(rows, S) /\ S \in SUBSET Nat /\ IsFiniteSet(S)
      /\ \A n : n \in S <=> n \in 1..Len(rows) /\ StepRow(rows[n], step)
  BY <1>1, <1>2, PlacesAre
<1>5. /\ OfStep(t, TheDeal, step) = RowsAt(t, T)
      /\ \A n : n \in T <=> n \in 1..z /\ StepRow(t[n], step)
  BY <1>1, <1>3, PlacesAre
<1>6. T = S
  BY <1>1, <1>4, <1>5
<1>7. \A x \in S : t[x] = rows[x]
  BY <1>1, <1>4
<1>8. RowsAt(t, S) = RowsAt(rows, S)
  BY <1>4, <1>7, RowsAtSame
<1> QED
  BY <1>4, <1>5, <1>6, <1>8

\* A ledger's chain is the chain of its last row.
LEMMA ChainOfIs ==
  ASSUME NEW rows, Listing(rows)
  PROVE  ChainOf(rows) = IF Len(rows) = 0 THEN <<>> ELSE rows[Len(rows)].chain
BY ListDomain DEF ChainOf, Last

\* The empty list is a list.
LEMMA NothingListed == Listing(<<>>) /\ Len(<<>>) = 0
<1>1. <<>> \in Seq({})
  OBVIOUS
<1> QED
  BY <1>1 DEF Listing

\* Where every row's chain spells the rows so far, the ledger's spells all rows.
LEMMA ChainSpells ==
  ASSUME NEW rows, Listing(rows), Spelled(rows)
  PROVE  Spells(ChainOf(rows), rows, Len(rows))
<1>1. Len(rows) \in Nat
  BY ListDomain
<1>2. CASE Len(rows) = 0
  BY <1>2, ChainOfIs, NothingListed DEF Spells
<1>3. CASE Len(rows) # 0
  BY <1>1, <1>3, ChainOfIs DEF Spelled
<1> QED
  BY <1>2, <1>3

\* The chain of a row that is appended spells the rows up to it.
LEMMA SpellsOn ==
  ASSUME NEW rows, NEW t, Listing(t), NEW n \in Nat, NEW c, Spells(c, rows, n), n < Len(t),
         \A k \in 1..n : t[k].body = rows[k].body
  PROVE  Spells(Append(c, t[n+1].body), t, n+1)
<1> PICK b, q, d : b = t[n+1].body /\ q = n + 1 /\ d = Append(c, b)
  OBVIOUS
<1>1. Listing(c) /\ Len(c) = n /\ \A k \in 1..n : c[k] = rows[k].body
  BY DEF Spells
<1>2. Follows(d, c, b)
  BY <1>1, AppendFollows
<1>3. Listing(d) /\ Len(d) = q /\ (\A k \in 1..n : d[k] = c[k]) /\ d[q] = b
  BY <1>1, <1>2 DEF Follows
<1>4. \A k \in 1..q : k \in 1..n \/ k = q
  OBVIOUS
<1>5. \A k \in 1..q : d[k] = t[k].body
  BY <1>1, <1>3, <1>4
<1> QED
  BY <1>3, <1>5 DEF Spells

\* Ledger.append of one row keeps every chain spelling its rows.
LEMMA RowAfterSpells ==
  ASSUME NEW rows, NEW b, Spelled(rows), NEW t, Follows(t, rows, RowAfter(rows, b))
  PROVE  Spelled(t) /\ t[Len(t)].body = b /\ Row(t[Len(t)])
<1> PICK m, q : m = Len(rows) /\ q = m + 1
  OBVIOUS
<1>1. /\ Listing(rows) /\ Listing(t) /\ m \in Nat /\ Len(t) = q
      /\ (\A k \in 1..m : t[k] = rows[k]) /\ t[q] = RowAfter(rows, b)
  BY DEF Follows
<1>2. t[q].body = b /\ t[q].chain = Append(ChainOf(rows), b) /\ Row(t[q])
  BY <1>1 DEF RowAfter, Row
<1>3. Spells(ChainOf(rows), rows, m)
  BY <1>1, ChainSpells
<1>4. Spells(t[q].chain, t, q)
  BY <1>1, <1>2, <1>3, SpellsOn
<1>5. \A n \in 1..m : Spells(t[n].chain, t, n)
  <2> SUFFICES ASSUME NEW n \in 1..m PROVE Spells(t[n].chain, t, n)
    OBVIOUS
  <2>1. Spells(rows[n].chain, rows, n) /\ t[n] = rows[n]
    BY <1>1 DEF Spelled
  <2>2. \A k \in 1..n : k \in 1..m
    BY <1>1
  <2> QED
    BY <1>1, <2>1, <2>2 DEF Spells
<1>6. \A n \in 1..q : n \in 1..m \/ n = q
  BY <1>1
<1> QED
  BY <1>1, <1>2, <1>4, <1>5, <1>6 DEF Spelled

\* The chain a row is hashed onto is the chain of the row before it.
LEMMA ChainBefore ==
  ASSUME NEW rows, Listing(rows), NEW n \in 1..Len(rows)
  PROVE  ChainOf(SubSeq(rows, 1, n-1)) = IF n = 1 THEN <<>> ELSE rows[n-1].chain
<1>1. n - 1 \in 0..Len(rows) /\ Len(rows) \in Nat
  BY ListDomain
<1> PICK m, s : m = n - 1 /\ s = SubSeq(rows, 1, m)
  OBVIOUS
<1>2. Listing(s) /\ Len(s) = m /\ \A k \in 1..m : s[k] = rows[k]
  BY <1>1, FrontIs
<1>3. ChainOf(s) = IF m = 0 THEN <<>> ELSE s[m].chain
  BY <1>2, ChainOfIs
<1>4. n # 1 => m \in 1..m
  BY <1>1
<1> QED
  BY <1>1, <1>2, <1>3, <1>4

\* verify_file finds a ledger intact iff every chain spells the rows before it.
LEMMA IntactIsSpelled ==
  ASSUME NEW rows, Listing(rows)
  PROVE  Intact(rows) <=> Spelled(rows)
<1>1. Len(rows) \in Nat /\ DOMAIN rows = 1..Len(rows)
  BY ListDomain
<1>2. Intact(rows) <=> \A n \in 1..Len(rows) :
         rows[n].chain = Append(IF n = 1 THEN <<>> ELSE rows[n-1].chain, rows[n].body)
  <2>1. \A n \in 1..Len(rows) : ChainOf(SubSeq(rows, 1, n-1)) = IF n = 1 THEN <<>> ELSE rows[n-1].chain
    BY ChainBefore
  <2> QED
    BY <1>1, <2>1 DEF Intact
\* The chain of the first row, and of one whose row before it is spelled.
<1>3. ASSUME NEW n \in 1..Len(rows), n # 1 => Spells(rows[n-1].chain, rows, n-1)
      PROVE  Spells(Append(IF n = 1 THEN <<>> ELSE rows[n-1].chain, rows[n].body), rows, n)
  <2> PICK m, c : m = n - 1 /\ c = IF n = 1 THEN <<>> ELSE rows[n-1].chain
    OBVIOUS
  <2>1. m \in Nat /\ m < Len(rows) /\ m + 1 = n
    BY <1>1
  <2>2. Spells(c, rows, m)
    <3>1. CASE n = 1
      BY <3>1, NothingListed DEF Spells
    <3>2. CASE n # 1
      BY <1>3, <3>2
    <3> QED
      BY <3>1, <3>2
  <2>3. Spells(Append(c, rows[m+1].body), rows, m+1)
    BY <1>1, <2>1, <2>2, SpellsOn
  <2> QED
    BY <2>1, <2>3
<1>4. ASSUME Intact(rows), ~Spelled(rows) PROVE FALSE
  <2> DEFINE B == {n \in 1..Len(rows) : ~Spells(rows[n].chain, rows, n)}
  <2>1. B # {} /\ B \in SUBSET Nat
    BY <1>4 DEF Spelled
  <2>2. PICK n \in B : \A k \in B : n <= k
    BY <2>1, LeastOf
  <2>3. n \in 1..Len(rows) /\ ~Spells(rows[n].chain, rows, n)
    OBVIOUS
  <2>4. n # 1 => n - 1 \in 1..Len(rows) /\ ~(n <= n - 1)
    BY <1>1, <2>3
  <2>5. n # 1 => Spells(rows[n-1].chain, rows, n-1)
    BY <2>2, <2>4
  <2> HIDE DEF B
  <2> QED
    BY <1>2, <1>3, <1>4, <2>3, <2>5
<1>5. ASSUME Spelled(rows), NEW n \in 1..Len(rows)
      PROVE  rows[n].chain = Append(IF n = 1 THEN <<>> ELSE rows[n-1].chain, rows[n].body)
  <2> PICK c, d : c = rows[n].chain /\ d = Append(IF n = 1 THEN <<>> ELSE rows[n-1].chain, rows[n].body)
    OBVIOUS
  <2>1. n # 1 => n - 1 \in 1..Len(rows)
    BY <1>1
  <2>2. Spells(c, rows, n) /\ (n # 1 => Spells(rows[n-1].chain, rows, n-1))
    BY <1>5, <2>1 DEF Spelled
  <2>3. Spells(d, rows, n)
    BY <1>3, <2>2
  <2>4. Listing(c) /\ Listing(d) /\ Len(c) = Len(d) /\ \A k \in 1..Len(c) : c[k] = d[k]
    BY <2>2, <2>3 DEF Spells
  <2>5. c = d
    BY <2>4, SameList
  <2> QED
    BY <2>5
<1> QED
  BY <1>2, <1>4, <1>5

(***************************************************************************)
(* The steps.                                                              *)
(***************************************************************************)
Aside == UNCHANGED <<proposing, offers, accepted>>
Slip(p) == mishaps' = mishaps \/ Mishap(p)

\* A row of the deal is appended that is not a ship and not a commit of the buyer.
Recorded(p, step, s) ==
  /\ Write(p, Of(p, step, s, Null)) /\ job' = job /\ Aside /\ Slip(p)
  /\ Shaped(s) /\ step \in StepNames \ {"ship"} /\ (step = "commit" => p = "seller")
  /\ step = "mandate" => s.md \in Mandates
  /\ mishaps' = <<>> => Begins(p, step) \/ s \in Copied(p, step)

Committing(b) ==
  /\ Prepare("buyer", b) /\ Aside /\ mishaps' = mishaps
  /\ \E t \in Terms, md \in Mandates \cup {Null}, at \in Times, d \in BOOLEAN :
       b = CommitBody(t, md, at, d)

Shipping(p, s) ==
  /\ Prepare(p, ShipBody(p, s)) /\ Aside /\ Slip(p) /\ Shaped(s)
  /\ mishaps' = <<>> => p = "seller" \/ s \in Copied(p, "ship")

\* What becomes of the files.
Harming == /\ Damage /\ Aside

\* What Shared makes has its two fields.
LEMMA SharedShaped == \A what, md : Shaped(Shared(what, md))
BY DEF Shaped, Shared

\* An altered agreement still has its two fields.
LEMMA AlteredShaped == ASSUME NEW s, Shaped(s), NEW t \in Altered(s) PROVE Shaped(t)
BY DEF Altered, Shaped, Shared

\* So has one that is copied from the other tape.
LEMMA CopiedShaped ==
  ASSUME TapeOK, NEW p \in Parties, NEW step, NEW s \in Copied(p, step)
  PROVE  Shaped(s)
<1> PICK q, rows : q = Other(p) /\ rows = tape[q]
  OBVIOUS
<1>1. q \in Parties
  BY DEF Other, Parties
<1>2. Listing(rows) /\ \A n \in 1..Len(rows) : Shaped(rows[n].body.shared)
  BY <1>1 DEF TapeOK, Version, Plain
<1> PICK theirs : theirs = OfStep(rows, TheDeal, step)
  OBVIOUS
<1>3. InStepOf(theirs, rows, step)
  BY <1>2, StepRows
<1>4. PICK k \in DOMAIN theirs : s = theirs[k].body.shared
  BY DEF Copied
<1>5. DOMAIN theirs = 1..Len(theirs)
  BY <1>3, ListDomain DEF InStepOf
<1>6. PICK n \in 1..Len(rows) : theirs[k] = rows[n]
  BY <1>3, <1>5 DEF InStepOf
<1> QED
  BY <1>2, <1>4, <1>6

\* Every step, by what it does to the ledgers.
DealSteps == \/ \E p \in Parties : (Finish(p) \/ Die(p)) /\ Aside
             \/ \E p \in Parties : \E step, s : Recorded(p, step, s)
             \/ \E b : Committing(b)
             \/ \E p \in Parties : \E s : Shipping(p, s)
Steppings == \/ DealSteps \/ Harming
             \/ \E p \in Parties : TakePin(p) /\ Aside
             \/ Handshakes
             \/ UNCHANGED vars

\* A mishap is not nothing.
LEMMA NoSlip ==
  ASSUME Listing(mishaps), NEW p, Mishap(p)
  PROVE  mishaps' # <<>> /\ Listing(mishaps')
<1>1. mishaps' = Append(mishaps, p)
  BY DEF Mishap
<1>2. Follows(mishaps', mishaps, p)
  BY <1>1, AppendFollows
<1>3. Listing(mishaps') /\ Len(mishaps') # 0
  BY <1>2 DEF Follows
<1> QED
  BY <1>3, ListDomain

\* The names of STEPS, as a set.
LEMMA StepNamesAre ==
  StepNames = {"mandate", "commit", "pay", "ship", "deliver", "cancel", "dispute"}
BY DEF StepNames, Steps, ToSet

\* Copying a step is recording it, or preparing the shipment.
LEMMA CopyIs ==
  ASSUME TapeOK, Listing(mishaps), NEW p \in Parties, NEW step, Copy(p, step), Aside
  PROVE  (\E s : Recorded(p, step, s)) \/ \E s : Shipping(p, s)
<1>1. PICK s \in Copied(p, step) : \E t \in {s} \cup Altered(s) :
        /\ IF t = s THEN UNCHANGED mishaps ELSE Mishap(p)
        /\ IF step = "ship" THEN Prepare(p, ShipBody(p, t))
                            ELSE Write(p, Of(p, step, t, Null)) /\ UNCHANGED job
  BY DEF Copy
<1>2. PICK t \in {s} \cup Altered(s) :
        /\ IF t = s THEN UNCHANGED mishaps ELSE Mishap(p)
        /\ IF step = "ship" THEN Prepare(p, ShipBody(p, t))
                            ELSE Write(p, Of(p, step, t, Null)) /\ UNCHANGED job
  BY <1>1
<1>3. ~Begins(p, step) /\ step \in BothSides \cup Mirrored
  BY DEF Copy
<1>4. Shaped(s) /\ Shaped(t)
  BY CopiedShaped, AlteredShaped
<1>5. Slip(p) /\ (mishaps' = <<>> => t = s)
  BY <1>2, NoSlip DEF Slip
<1>6. CASE step = "ship"
  BY <1>2, <1>4, <1>5, <1>6 DEF Shipping
<1>7. CASE step # "ship"
  <2>1. step \in StepNames /\ (step = "commit" => p = "seller") /\ step # "mandate"
    <3>1. step \in {"commit", "pay", "ship", "deliver", "cancel"}
      BY <1>3 DEF BothSides, Mirrored
    <3>2. step = "commit" => p # "buyer"
      BY <1>3 DEF Begins
    <3> QED
      BY <3>1, <3>2, StepNamesAre DEF Parties
  <2>2. Recorded(p, step, t)
    BY <1>2, <1>4, <1>5, <1>7, <2>1 DEF Recorded
  <2> QED
    BY <2>2
<1> QED
  BY <1>6, <1>7

\* Every step of the deal's program is one of DealSteps.
LEMMA DealsAre ==
  ASSUME TapeOK, Listing(mishaps), Deals, Aside
  PROVE  DealSteps
<1>1. ASSUME NEW p \in Parties, NEW step, Copy(p, step) PROVE DealSteps
  BY <1>1, CopyIs DEF DealSteps
<1>2. ASSUME NEW m \in Mandates, Mandate(m) PROVE DealSteps
  <2>a. PICK s : s = Shared(Null, m)
    OBVIOUS
  <2>b. s.md \in Mandates /\ Shaped(s)
    BY <2>a, SharedShaped DEF Shared
  <2>c. /\ Write("buyer", Of("buyer", "mandate", s, Null)) /\ job' = job /\ Slip("buyer")
    BY <1>2, <2>a DEF Mandate, Slip
  <2>d. "mandate" \in StepNames \ {"ship"} /\ Begins("buyer", "mandate")
    BY StepNamesAre DEF Begins
  <2>1. Recorded("buyer", "mandate", s)
    BY <2>b, <2>c, <2>d DEF Recorded
  <2> QED
    BY <2>1 DEF DealSteps, Parties
<1>3. ASSUME BeginCommit PROVE DealSteps
  <2>1. \E b : Committing(b)
    BY <1>3 DEF BeginCommit, Committing
  <2> QED
    BY <2>1 DEF DealSteps
<1>4. ASSUME NEW x, BeginShip(x) PROVE DealSteps
  <2>1. Shipping("seller", Shared(x, Null))
    BY <1>4, SharedShaped DEF BeginShip, Shipping, Slip
  <2> QED
    BY <2>1 DEF DealSteps, Parties
<1>5. ASSUME NEW p \in Parties, NEW step \in {"pay", "deliver", "cancel", "dispute"}, NEW x,
             Begins(p, step), Record(p, step, x)
      PROVE  DealSteps
  <2>1. Recorded(p, step, Shared(x, Null))
    BY <1>5, SharedShaped, StepNamesAre DEF Record, Recorded, Slip
  <2> QED
    BY <2>1 DEF DealSteps
<1>6. ASSUME NEW p \in Parties, Finish(p) \/ Die(p) PROVE DealSteps
  BY <1>6 DEF DealSteps
<1> QED
  BY <1>1, <1>2, <1>3, <1>4, <1>5, <1>6 DEF Deals

\* Every step of the system is one of Steppings, with what it is known to write.
LEMMA NextIs ==
  ASSUME TapeOK, Listing(mishaps), [Next]_vars
  PROVE  Steppings
BY DealsAre DEF Next, Steppings, Aside, Harming

PartiesAre == \A p \in Parties : Other(p) \in Parties /\ Other(p) # p /\ Other(Other(p)) = p
                                 /\ \A q \in Parties : q = p \/ q = Other(p)

\* Each of the two parties is the other's other.
LEMMA BothParties == PartiesAre
BY DEF PartiesAre, Parties, Other

Appends(p, b) ==
  /\ OnParties(wrote') /\ tape' = wrote' /\ Untouched /\ Untouched'
  /\ lane' = lane /\ harm' = harm /\ given' = given /\ pin' = pin
  /\ Follows(wrote'[p], wrote[p], RowAfter(wrote[p], b)) /\ wrote'[Other(p)] = wrote[Other(p)]

\* Write appends one row to the tape and to what was written, and nothing else.
LEMMA WriteAppends ==
  ASSUME WroteOK, NEW p \in Parties, NEW b, Write(p, b)
  PROVE  Appends(p, b)
<1>1. tape = wrote /\ OnParties(wrote) /\ Listing(wrote[p])
  BY DEF Write, Untouched, WroteOK
<1>2. /\ wrote' = [wrote EXCEPT ![p] = Append(wrote[p], RowAfter(wrote[p], b))]
      /\ tape' = wrote' /\ lane' = lane /\ harm' = harm /\ given' = given /\ pin' = pin /\ Untouched
  BY <1>1 DEF Write
<1>3. OnParties(wrote') /\ wrote'[p] = Append(wrote[p], RowAfter(wrote[p], b))
      /\ wrote'[Other(p)] = wrote[Other(p)]
  BY <1>1, <1>2, BothParties DEF OnParties, PartiesAre
<1>4. Follows(wrote'[p], wrote[p], RowAfter(wrote[p], b))
  BY <1>1, <1>3, AppendFollows
<1>5. Untouched'
  BY <1>2 DEF Untouched
<1> QED
  BY <1>2, <1>3, <1>4, <1>5 DEF Appends

\* Rows are only added.
Grown == /\ lane' = lane
         /\ \A p \in Parties :
              /\ Len(wrote[p]) \in Nat /\ Len(wrote'[p]) \in Nat /\ Len(wrote[p]) <= Len(wrote'[p])
              /\ \A n \in 1..Len(wrote[p]) : n \in 1..Len(wrote'[p]) /\ wrote'[p][n] = wrote[p][n]

\* An append leaves every row that was written where it is.
LEMMA AppendGrows ==
  ASSUME WroteOK, NEW p \in Parties, NEW b, Appends(p, b)
  PROVE  Grown
<1>1. Follows(wrote'[p], wrote[p], RowAfter(wrote[p], b)) /\ lane' = lane
  BY DEF Appends
<1> PICK m : m = Len(wrote[p])
  OBVIOUS
<1>2. m \in Nat /\ Len(wrote'[p]) = m + 1 /\ \A n \in 1..m : wrote'[p][n] = wrote[p][n]
  BY <1>1 DEF Follows
<1>3. \A n \in 1..m : n \in 1..m+1
  BY <1>2
<1>4. wrote'[Other(p)] = wrote[Other(p)] /\ Len(wrote[Other(p)]) \in Nat
  BY BothParties, ListDomain DEF Appends, PartiesAre, WroteOK
<1> QED
  BY <1>1, <1>2, <1>3, <1>4, BothParties DEF Grown, PartiesAre

\* So does a step that writes nothing.
LEMMA SameGrows == ASSUME WroteOK, wrote' = wrote, lane' = lane PROVE Grown
BY ListDomain DEF Grown, WroteOK

\* WroteOK holds on where nothing is written and the jobs are rows of the deal.
LEMMA WroteKept ==
  ASSUME WroteOK, wrote' = wrote, lane' = lane, OnParties(job'), \A q \in Parties : JobOK(q, job'[q])
  PROVE  WroteOK'
BY DEF WroteOK

\* WroteOK holds on where one row a program may write is appended.
LEMMA WroteAppended ==
  ASSUME WroteOK, NEW p \in Parties, NEW b, Appends(p, b), Written(lane, p, b),
         OnParties(job'), \A q \in Parties : JobOK(q, job'[q])
  PROVE  WroteOK'
<1> PICK rows, t, m : rows = wrote[p] /\ t = wrote'[p] /\ m = Len(rows)
  OBVIOUS
<1>1. Follows(t, rows, RowAfter(rows, b)) /\ Spelled(rows)
  BY DEF Appends, WroteOK
<1>2. Spelled(t) /\ t[Len(t)].body = b /\ Row(t[Len(t)])
  BY <1>1, RowAfterSpells
<1>3. m \in Nat /\ Len(t) = m + 1 /\ Listing(t) /\ \A n \in 1..m : t[n] = rows[n]
  BY <1>1 DEF Follows
<1>4. \A n \in 1..m : Row(rows[n]) /\ Written(lane, p, rows[n].body)
  BY DEF WroteOK
<1>5. \A n \in 1..Len(t) : n \in 1..m \/ n = Len(t)
  BY <1>3
<1>6. \A n \in 1..Len(t) : Row(t[n]) /\ Written(lane, p, t[n].body)
  BY <1>2, <1>3, <1>4, <1>5
<1>7. lane' = lane /\ OnParties(wrote') /\ wrote'[Other(p)] = wrote[Other(p)]
  BY DEF Appends
<1>8. ASSUME NEW q \in Parties
      PROVE  /\ Listing(wrote'[q]) /\ Spelled(wrote'[q])
             /\ \A n \in 1..Len(wrote'[q]) : Row(wrote'[q][n]) /\ Written(lane, q, wrote'[q][n].body)
  <2>1. CASE q = p
    BY <1>2, <1>3, <1>6, <2>1
  <2>2. CASE q = Other(p)
    <3>1. wrote'[q] = wrote[q]
      BY <1>7, <2>2
    <3> QED
      BY <3>1 DEF WroteOK
  <2> QED
    BY <2>1, <2>2, BothParties DEF PartiesAre
<1> QED
  BY <1>7, <1>8 DEF WroteOK

\* What is written of the deal.
LEMMA OfIs ==
  ASSUME NEW p, NEW step \in StepNames, NEW s, Shaped(s), NEW note
  PROVE  LET b == Of(p, step, s, note)
         IN  /\ Plain(b) /\ b.digest = s /\ DealRow(p, b)
             /\ b.step = step /\ b.shared = s /\ b.note = note
BY DEF Of, Body, Plain, DealRow

\* What Deal.ship prepares, with its note.
LEMMA ShipIs ==
  ASSUME NEW p, NEW s
  PROVE  \E note : /\ ShipBody(p, s) = Of(p, "ship", s, note) /\ note \in {Null, "after_cancel"}
                   /\ note = "after_cancel" => OfStep(tape[p], TheDeal, "cancel") # <<>>
<1>1. Null # "after_cancel"
  BY NullIsApart
<1> QED
  BY <1>1 DEF ShipBody

\* What Deal.commit prepares, with its note.
LEMMA CommitIs ==
  ASSUME NEW t, NEW md, NEW at, NEW d
  PROVE  CommitBody(t, md, at, d) =
           Of("buyer", "commit", Shared(t, IF md = Null THEN Cited(md) ELSE md),
              InsideMandate(Cited(md), t, at, d))
BY DEF CommitBody

\* One party takes up or drops its job.
LEMMA JobsExcept ==
  ASSUME WroteOK, NEW p \in Parties, NEW b, JobOK(p, b), job' = [job EXCEPT ![p] = b]
  PROVE  /\ OnParties(job') /\ job'[p] = b /\ job'[Other(p)] = job[Other(p)]
         /\ \A q \in Parties : JobOK(q, job'[q])
<1>1. OnParties(job) /\ \A q \in Parties : JobOK(q, job[q])
  BY DEF WroteOK
<1>2. OnParties(job') /\ job'[p] = b /\ job'[Other(p)] = job[Other(p)]
  BY <1>1, BothParties DEF OnParties, PartiesAre
<1>3. \A q \in Parties : q = p \/ q = Other(p)
  BY BothParties DEF PartiesAre
<1> QED
  BY <1>1, <1>2, <1>3

\* The jobs stay as they are.
LEMMA JobsSame ==
  ASSUME WroteOK, job' = job
  PROVE  OnParties(job') /\ \A q \in Parties : JobOK(q, job'[q])
BY DEF WroteOK

Still == UNCHANGED <<lane, wrote, tape, harm, given>>

\* A step appends one row, or harms the files, or leaves them alone.
Moves ==
  \/ \E p \in Parties : \E b : Appends(p, b) /\ Written(lane, p, b)
  \/ Harming
  \/ Still

\* A step of the deal appends a row a program may write, or moves no ledger.
LEMMA DealsMove ==
  ASSUME WroteOK, DealSteps
  PROVE  /\ (\E p \in Parties : \E b : Appends(p, b) /\ Written(lane, p, b)) \/ Still
         /\ OnParties(job') /\ \A q \in Parties : JobOK(q, job'[q])
<1> DEFINE Goal == /\ (\E p \in Parties : \E b : Appends(p, b) /\ Written(lane, p, b)) \/ Still
                   /\ OnParties(job') /\ \A q \in Parties : JobOK(q, job'[q])
<1>0. \A q \in Parties : JobOK(q, Null)
  BY DEF JobOK
<1>1. ASSUME NEW p \in Parties, Finish(p) PROVE Goal
  <2>1. job[p] # Null /\ Write(p, job[p]) /\ job' = [job EXCEPT ![p] = Null]
    BY <1>1 DEF Finish
  <2>2. Written(lane, p, job[p])
    BY <2>1 DEF WroteOK, JobOK, Written
  <2>3. Appends(p, job[p])
    BY <2>1, WriteAppends
  <2>4. OnParties(job') /\ \A q \in Parties : JobOK(q, job'[q])
    BY <1>0, <2>1, JobsExcept
  <2> QED
    BY <2>2, <2>3, <2>4
<1>2. ASSUME NEW p \in Parties, Die(p) PROVE Goal
  <2>1. job' = [job EXCEPT ![p] = Null] /\ Still
    BY <1>2 DEF Die, Still
  <2> QED
    BY <1>0, <2>1, JobsExcept
<1>3. ASSUME NEW p \in Parties, NEW step, NEW s, Recorded(p, step, s) PROVE Goal
  <2> PICK b : b = Of(p, step, s, Null)
    OBVIOUS
  <2>1. Write(p, b) /\ job' = job /\ Shaped(s) /\ step \in StepNames
    BY <1>3 DEF Recorded
  <2>2. Written(lane, p, b)
    BY <2>1, OfIs DEF Written
  <2>3. Appends(p, b)
    BY <2>1, WriteAppends
  <2> QED
    BY <2>1, <2>2, <2>3, JobsSame
<1>4. ASSUME NEW p \in Parties, NEW b, Prepare(p, b), JobOK(p, b) PROVE Goal
  <2>1. job' = [job EXCEPT ![p] = b] /\ Still
    BY <1>4 DEF Prepare, Still
  <2> QED
    BY <1>4, <2>1, JobsExcept
<1>5. ASSUME NEW b, Committing(b) PROVE Goal
  <2>1. Prepare("buyer", b) /\ \E t, md, at, d : b = CommitBody(t, md, at, d)
    BY <1>5 DEF Committing
  <2>2. \E s, note : Shaped(s) /\ b = Of("buyer", "commit", s, note)
    BY <2>1, CommitIs, SharedShaped
  <2>3. JobOK("buyer", b)
    BY <2>2, OfIs, StepNamesAre DEF JobOK
  <2> QED
    BY <1>4, <2>1, <2>3 DEF Parties
<1>6. ASSUME NEW p \in Parties, NEW s, Shipping(p, s) PROVE Goal
  <2>1. Prepare(p, ShipBody(p, s)) /\ Shaped(s)
    BY <1>6 DEF Shipping
  <2>2. JobOK(p, ShipBody(p, s))
    <3>1. PICK note : ShipBody(p, s) = Of(p, "ship", s, note)
      BY ShipIs
    <3>2. "ship" \in StepNames
      BY StepNamesAre
    <3> QED
      BY <2>1, <3>1, <3>2, OfIs DEF JobOK
  <2> QED
    BY <1>4, <2>1, <2>2
<1> QED
  BY <1>1, <1>2, <1>3, <1>5, <1>6 DEF DealSteps

ProposeBody(p, h, x) == Body(h, "propose", "proposer", Proposal(h, p, x), Null, NoCite)

\* propose appends one proposal.
LEMMA ProposeMoves ==
  ASSUME WroteOK, NEW p \in Parties, NEW h \in lane.ids, NEW x \in lane.details, Propose(p, h, x)
  PROVE  Appends(p, ProposeBody(p, h, x)) /\ Written(lane, p, ProposeBody(p, h, x)) /\ job' = job
<1> PICK b : b = ProposeBody(p, h, x)
  OBVIOUS
<1>1. Write(p, b) /\ job' = job
  BY DEF Propose, ProposeBody
<1>2. Appends(p, b)
  BY <1>1, WriteAppends
<1>3. b.deal = h /\ b.step = "propose" /\ b.shared = Proposal(h, p, x) /\ b.digest = b.shared
  BY DEF ProposeBody, Body
<1>4. Plain(b)
  BY DEF ProposeBody, Body, Plain, Shaped, Proposal, Shared
<1> QED
  BY <1>1, <1>2, <1>3, <1>4 DEF Written, ProposeRow

\* accept appends one acceptance of the offer.
LEMMA AcceptMoves ==
  ASSUME WroteOK, NEW p \in Parties, NEW o, Offered(lane, wrote, o), Accept(p, o)
  PROVE  Appends(p, AcceptBody(o)) /\ Written(lane, p, AcceptBody(o)) /\ job' = job
<1> PICK b : b = AcceptBody(o)
  OBVIOUS
<1>1. Write(p, b) /\ job' = job
  BY DEF Accept, AcceptBody
<1>2. Appends(p, b)
  BY <1>1, WriteAppends
<1>3. b.deal = o.id /\ b.step = "accept" /\ b.shared = o.shared /\ b.digest = b.shared
  BY DEF AcceptBody, Body
<1>4. Plain(b)
  BY DEF AcceptBody, Body, Plain, Offered
<1> QED
  BY <1>1, <1>2, <1>3, <1>4 DEF Written, AcceptRow, Offered

\* A damage is a mishap and changes nothing that was written.
LEMMA DamageMoves ==
  ASSUME Damage
  PROVE  UNCHANGED <<lane, wrote, job, pin>> /\ \E p \in Parties : Mishap(p)
BY DEF Damage, Spoil, Misname, Cut, Edit, Remint, Damaged

\* Every step appends one row a program may write, damages, or moves no ledger.
LEMMA NextMoves ==
  ASSUME WroteOK, TapeOK, OffersOK, Listing(mishaps), [Next]_vars
  PROVE  Moves /\ OnParties(job') /\ \A q \in Parties : JobOK(q, job'[q])
<1> DEFINE Jobs == OnParties(job') /\ \A q \in Parties : JobOK(q, job'[q])
<1>1. CASE DealSteps
  BY <1>1, DealsMove DEF Moves
<1>2. CASE Harming
  BY <1>2, DamageMoves, JobsSame DEF Moves, Harming
<1>3. ASSUME NEW p \in Parties, TakePin(p) PROVE Moves /\ Jobs
  <2>1. Still /\ job' = job
    BY <1>3 DEF TakePin, Still
  <2> QED
    BY <2>1, JobsSame DEF Moves
<1>4. ASSUME Handshakes PROVE Moves /\ Jobs
  <2>1. ASSUME NEW p \in Parties, HandOver(p) \/ Drop(p) PROVE Still /\ job' = job
    BY <2>1 DEF HandOver, Drop, dealVars, Still
  <2>2. ASSUME NEW o \in offers, AlterOffer(o) PROVE Still /\ job' = job
    BY <2>2 DEF AlterOffer, Still
  <2>3. ASSUME NEW p \in Parties, NEW h \in lane.ids, NEW x \in lane.details, Propose(p, h, x)
        PROVE  Moves /\ job' = job
    BY <2>3, ProposeMoves DEF Moves
  <2>4. ASSUME NEW p \in Parties, NEW o \in offers, Accept(p, o)
        PROVE  Moves /\ job' = job
    BY <2>4, AcceptMoves DEF Moves, OffersOK
  <2>5. Moves /\ job' = job
    BY <1>4, <2>1, <2>2, <2>3, <2>4 DEF Handshakes, Moves
  <2> QED
    BY <2>5, JobsSame
<1>5. ASSUME UNCHANGED vars PROVE Moves /\ Jobs
  <2>1. Still /\ job' = job
    BY <1>5 DEF vars, dealVars, Still
  <2> QED
    BY <2>1, JobsSame DEF Moves
<1> QED
  BY <1>1, <1>2, <1>3, <1>4, <1>5, NextIs DEF Steppings

\* Every step keeps WroteOK, and what was written only grows.
LEMMA WroteStep ==
  ASSUME WroteOK, TapeOK, OffersOK, Listing(mishaps), [Next]_vars
  PROVE  WroteOK' /\ Grown
<1>1. Moves /\ OnParties(job') /\ \A q \in Parties : JobOK(q, job'[q])
  BY NextMoves
<1>2. ASSUME NEW p \in Parties, NEW b, Appends(p, b), Written(lane, p, b) PROVE WroteOK' /\ Grown
  BY <1>1, <1>2, WroteAppended, AppendGrows
<1>3. CASE wrote' = wrote /\ lane' = lane
  BY <1>1, <1>3, WroteKept, SameGrows
<1> QED
  BY <1>1, <1>2, <1>3, DamageMoves DEF Moves, Harming, Still

\* A mishap is never forgotten.
LEMMA MishapsStep ==
  ASSUME TapeOK, Listing(mishaps), [Next]_vars
  PROVE  /\ Listing(mishaps') /\ (mishaps' = <<>> => mishaps = <<>>)
         /\ mishaps' = <<>> => mishaps' = mishaps
<1>1. mishaps' = mishaps \/ \E p : Mishap(p)
  <2>1. CASE DealSteps
    BY <2>1 DEF DealSteps, Finish, Die, Recorded, Committing, Shipping, Slip
  <2>2. CASE Harming
    BY <2>2, DamageMoves DEF Harming
  <2>3. CASE \E p \in Parties : TakePin(p)
    BY <2>3 DEF TakePin
  <2>4. CASE Handshakes
    BY <2>4 DEF Handshakes, HandOver, Drop, Propose, Accept, AlterOffer, dealVars
  <2>5. CASE UNCHANGED vars
    BY <2>5 DEF vars, dealVars
  <2> QED
    BY <2>1, <2>2, <2>3, <2>4, <2>5, NextIs DEF Steppings
<1> QED
  BY <1>1, NoSlip

\* A row is a version of itself.
LEMMA VersionSelf == ASSUME NEW b, Plain(b) PROVE Version(b, b)
BY DEF Version

\* What a damage makes of a version is a version.
LEMMA VersionChanged ==
  ASSUME NEW b, NEW o, Version(b, o), NEW c \in Changed(b)
  PROVE  Version(c, o)
<1>2. Plain(b) /\ Shaped(b.shared)
  BY DEF Version, Plain
<1>a. PICK A, D : A = Altered(b.shared) /\ D = {b.digest} \cup Altered(b.shared)
  OBVIOUS
<1>c. PICK s \in A, d \in D : c = Resaid(b, s, d)
  BY <1>a DEF Changed
<1>d. s \in Altered(b.shared)
  BY <1>a
<1>1. c = [deal |-> b.deal, step |-> b.step, party |-> b.party, shared |-> s,
           digest |-> d, note |-> b.note, cites |-> b.cites]
  BY <1>c, <1>2 DEF Plain, Resaid
<1>3. Shaped(s) /\ (s.what = b.shared.what \/ s.what = Garbled) /\ (b.shared.md = Null => s.md = Null)
  BY <1>2, <1>d DEF Altered, Shaped, Shared
<1>4. Plain(c) /\ c.shared = s /\ c.deal = b.deal /\ c.step = b.step /\ c.party = b.party
      /\ c.note = b.note /\ c.cites = b.cites
  BY <1>1, <1>2, <1>3 DEF Plain
<1> QED
  BY <1>3, <1>4 DEF Version

\* A ledger whose rows are versions of those that were written.
Versions(rows, w) == /\ Listing(rows) /\ Len(rows) <= Len(w)
                     /\ \A n \in 1..Len(rows) : Row(rows[n]) /\ Version(rows[n].body, w[n].body)

\* Cutting the last rows leaves versions of what was written.
LEMMA CutVersions ==
  ASSUME NEW rows, NEW w, Versions(rows, w), Listing(w), NEW n \in 0..Len(rows)-1
  PROVE  Versions(SubSeq(rows, 1, n), w)
<1>1. Len(rows) \in Nat /\ Len(w) \in Nat /\ Listing(rows)
  BY ListDomain DEF Versions
<1> PICK s : s = SubSeq(rows, 1, n)
  OBVIOUS
<1>2. n \in 0..Len(rows) /\ n <= Len(w) /\ n \in Nat
  BY <1>1 DEF Versions
<1>3. Listing(s) /\ Len(s) = n /\ \A k \in 1..n : s[k] = rows[k]
  BY <1>1, <1>2, FrontIs
<1>4. \A k \in 1..n : k \in 1..Len(rows)
  BY <1>1
<1> QED
  BY <1>2, <1>3, <1>4 DEF Versions

\* So does editing a row where it stands.
LEMMA EditVersions ==
  ASSUME NEW rows, NEW w, Versions(rows, w), Listing(w), NEW n \in 1..Len(rows), NEW b \in Changed(rows[n].body)
  PROVE  Versions([rows EXCEPT ![n].body = b], w)
<1>1. Len(rows) \in Nat /\ Len(w) \in Nat /\ Listing(rows) /\ DOMAIN rows = 1..Len(rows)
  BY ListDomain DEF Versions
<1>c. PICK m, t, r : /\ m = Len(rows) /\ t = [rows EXCEPT ![n].body = b]
                     /\ r = [body |-> b, chain |-> rows[n].chain]
  OBVIOUS
<1>d. rows[n] = [body |-> rows[n].body, chain |-> rows[n].chain]
  BY DEF Versions, Row
<1>f. [rows[n] EXCEPT !.body = b] = r
  BY <1>c, <1>d
<1>e. t = [rows EXCEPT ![n] = r]
  BY <1>c, <1>f, Zenon
<1>2a. t = [k \in 1..m |-> IF k = n THEN r ELSE rows[k]]
  BY <1>1, <1>c, <1>e
<1>2. t = [k \in 1..m |-> t[k]]
  BY <1>2a
<1>2b. m \in Nat
  BY <1>1, <1>c
<1>3. Listing(t) /\ Len(t) = m
  BY <1>2, <1>2b, FunctionLists
<1>4. \A k \in 1..m : k # n => t[k] = rows[k]
  BY <1>2a
<1>5. Row(rows[n]) /\ Version(rows[n].body, w[n].body)
  BY DEF Versions
<1>6. t[n].body = b /\ Row(t[n])
  BY <1>c, <1>2a DEF Row
<1>7. Version(t[n].body, w[n].body)
  BY <1>5, <1>6, VersionChanged
<1>8. \A k \in 1..m : Row(t[k]) /\ Version(t[k].body, w[k].body)
  BY <1>c, <1>4, <1>6, <1>7 DEF Versions
<1> QED
  BY <1>c, <1>3, <1>8 DEF Versions

\* Rechained has the bodies at their places, each with the chain of the bodies so far.
LEMMA RechainedIs ==
  ASSUME NEW m \in Nat, NEW f, f = [k \in 1..m |-> f[k]]
  PROVE  /\ Listing(Rechained(f)) /\ Len(Rechained(f)) = m
         /\ \A k \in 1..m : Rechained(f)[k] = [body |-> f[k], chain |-> SubSeq(f, 1, k)]
<1>1. PICK t : t = Rechained(f)
  OBVIOUS
<1>2. DOMAIN f = 1..m
  OBVIOUS
<1>3. t = [k \in 1..m |-> [body |-> f[k], chain |-> SubSeq(f, 1, k)]]
  BY <1>1, <1>2 DEF Rechained
<1>4. t = [k \in 1..m |-> t[k]]
  BY <1>3
<1>5. Listing(t) /\ Len(t) = m
  BY <1>4, FunctionLists
<1> QED
  BY <1>1, <1>3, <1>5

\* So does editing a row and chaining all rows anew.
LEMMA RemintVersions ==
  ASSUME NEW rows, NEW w, Versions(rows, w), Listing(w), NEW n \in 1..Len(rows), NEW b \in Changed(rows[n].body)
  PROVE  Versions(Rechained([k \in DOMAIN rows |-> IF k = n THEN b ELSE rows[k].body]), w)
<1>1. Len(rows) \in Nat /\ Len(w) \in Nat /\ Listing(rows) /\ DOMAIN rows = 1..Len(rows)
  BY ListDomain DEF Versions
<1>c. PICK m, f, t : /\ m = Len(rows) /\ f = [k \in DOMAIN rows |-> IF k = n THEN b ELSE rows[k].body]
                     /\ t = Rechained(f)
  OBVIOUS
<1>2. m \in Nat /\ f = [k \in 1..m |-> IF k = n THEN b ELSE rows[k].body]
  BY <1>1, <1>c
<1>3. f = [k \in 1..m |-> f[k]]
  BY <1>2
<1>2a. m \in Nat /\ t = Rechained(f)
  BY <1>2, <1>c
<1>4. Listing(t) /\ Len(t) = m /\ \A k \in 1..m : t[k] = [body |-> f[k], chain |-> SubSeq(f, 1, k)]
  BY <1>2a, <1>3, RechainedIs
<1>5. Listing(t) /\ Len(t) = m
  BY <1>4
<1>6. \A k \in 1..m : t[k].body = f[k] /\ Row(t[k])
  BY <1>4 DEF Row
<1>7. \A k \in 1..m : Version(f[k], w[k].body)
  <2> SUFFICES ASSUME NEW k \in 1..m PROVE Version(f[k], w[k].body)
    OBVIOUS
  <2>1. Version(rows[k].body, w[k].body)
    BY <1>c DEF Versions
  <2>2. CASE k = n
    BY <1>2, <2>1, <2>2, VersionChanged
  <2>3. CASE k # n
    BY <1>2, <2>1, <2>3
  <2> QED
    BY <2>2, <2>3
<1> QED
  BY <1>c, <1>5, <1>6, <1>7 DEF Versions

\* TapeOK says that each tape holds versions of the rows that were written.
LEMMA TapeIs ==
  TapeOK <=> /\ OnParties(tape) /\ OnParties(harm) /\ OnParties(given)
             /\ \A p \in Parties : given[p] \in Parties /\ Versions(tape[p], wrote[p])
BY DEF TapeOK, Versions

\* A damage of one tape that leaves versions keeps TapeOK.
LEMMA DamagedTape ==
  ASSUME TapeOK, NEW p \in Parties, NEW rows, Versions(rows, wrote[p]), Damaged(p, rows)
  PROVE  TapeOK'
<1>1. /\ OnParties(tape) /\ OnParties(harm) /\ OnParties(given)
      /\ \A q \in Parties : given[q] \in Parties /\ Versions(tape[q], wrote[q])
  BY TapeIs
<1>2. tape' = [tape EXCEPT ![p] = rows] /\ UNCHANGED <<wrote, harm, given>>
  BY DEF Damaged
<1>3. OnParties(tape')
  BY <1>1, <1>2 DEF OnParties
<1>4. \A q \in Parties : (tape'[q] = rows /\ q = p) \/ tape'[q] = tape[q]
  BY <1>1, <1>2 DEF OnParties
<1>5. \A q \in Parties : Versions(tape'[q], wrote'[q])
  BY <1>1, <1>2, <1>4
<1> QED
  BY <1>1, <1>2, <1>3, <1>5 DEF TapeOK, Versions

\* Every damage keeps TapeOK.
LEMMA DamageTape == ASSUME WroteOK, TapeOK, Damage PROVE TapeOK'
<1>0. \A p \in Parties : Versions(tape[p], wrote[p]) /\ Listing(wrote[p]) /\ DOMAIN tape[p] = 1..Len(tape[p])
  BY TapeIs, ListDomain DEF WroteOK, Versions
<1>1. ASSUME NEW p \in Parties, Spoil(p) PROVE TapeOK'
  <2>1. UNCHANGED <<tape, wrote, given>> /\ \E h : harm' = [harm EXCEPT ![p] = h]
    BY <1>1 DEF Spoil
  <2>2. OnParties(harm')
    BY <2>1 DEF TapeOK, OnParties
  <2> QED
    BY <2>1, <2>2 DEF TapeOK
<1>2. ASSUME NEW p \in Parties, Misname(p) PROVE TapeOK'
  <2>1. UNCHANGED <<tape, wrote, harm>> /\ given' = [given EXCEPT ![p] = Other(p)]
    BY <1>2 DEF Misname
  <2>2. OnParties(given') /\ \A q \in Parties : given'[q] \in Parties
    BY <2>1, BothParties DEF TapeOK, OnParties, PartiesAre
  <2> QED
    BY <2>1, <2>2 DEF TapeOK
<1>3. ASSUME NEW p \in Parties, NEW n \in 0..Len(tape[p])-1, Cut(p, n) PROVE TapeOK'
  BY <1>0, <1>3, CutVersions, DamagedTape DEF Cut
<1>4. ASSUME NEW p \in Parties, NEW n \in DOMAIN tape[p], Edit(p, n) PROVE TapeOK'
  <2>1. n \in 1..Len(tape[p])
    BY <1>0
  <2>2. PICK b \in Changed(tape[p][n].body) : Damaged(p, [tape[p] EXCEPT ![n].body = b])
    BY <1>4 DEF Edit
  <2>3. Versions([tape[p] EXCEPT ![n].body = b], wrote[p])
    BY <1>0, <2>1, EditVersions
  <2> QED
    BY <2>2, <2>3, DamagedTape
<1>5. ASSUME NEW p \in Parties, NEW n \in DOMAIN tape[p], Remint(p, n) PROVE TapeOK'
  <2>1. n \in 1..Len(tape[p])
    BY <1>0
  <2>2. PICK b \in Changed(tape[p][n].body) :
           Damaged(p, Rechained([k \in DOMAIN tape[p] |-> IF k = n THEN b ELSE tape[p][k].body]))
    BY <1>5 DEF Remint
  <2>3. Versions(Rechained([k \in DOMAIN tape[p] |-> IF k = n THEN b ELSE tape[p][k].body]), wrote[p])
    BY <1>0, <2>1, RemintVersions
  <2> QED
    BY <2>2, <2>3, DamagedTape
<1> QED
  BY <1>1, <1>2, <1>3, <1>4, <1>5 DEF Damage

\* Every step keeps TapeOK.
LEMMA TapeStep ==
  ASSUME WroteOK, TapeOK, OffersOK, Listing(mishaps), [Next]_vars
  PROVE  TapeOK'
<1>1. Moves
  BY NextMoves
<1>2. ASSUME NEW p \in Parties, NEW b, Appends(p, b) PROVE TapeOK'
  <2>1. tape' = wrote' /\ harm' = harm /\ given' = given /\ OnParties(wrote')
    BY <1>2 DEF Appends
  <2>2. WroteOK'
    BY WroteStep
  <2>3. \A q \in Parties : Versions(tape'[q], wrote'[q])
    <3> SUFFICES ASSUME NEW q \in Parties PROVE Versions(wrote'[q], wrote'[q])
      BY <2>1
    <3>1. Listing(wrote'[q]) /\ \A n \in 1..Len(wrote'[q]) : Row(wrote'[q][n]) /\ Plain(wrote'[q][n].body)
      BY <2>2 DEF WroteOK, Written
    <3>2. Len(wrote'[q]) \in Nat
      BY <3>1, ListDomain
    <3> QED
      BY <3>1, <3>2, VersionSelf DEF Versions
  <2> QED
    BY <2>1, <2>3 DEF TapeOK, Versions
<1>3. CASE Still
  BY <1>3 DEF Still, TapeOK
<1>4. CASE Harming
  BY <1>4, DamageTape DEF Harming
<1> QED
  BY <1>1, <1>2, <1>3, <1>4 DEF Moves

\* Every step keeps Honest: without a mishap the files are as they were written.
LEMMA HonestStep ==
  ASSUME WroteOK, TapeOK, OffersOK, Honest, [Next]_vars
  PROVE  Honest'
<1>1. Moves /\ Listing(mishaps') /\ (mishaps' = <<>> => mishaps = <<>> /\ mishaps' = mishaps)
  BY NextMoves, MishapsStep DEF Honest
<1>2. ASSUME mishaps' = <<>> PROVE Untouched'
  <2>1. Untouched
    BY <1>1, <1>2 DEF Honest
  <2>2. CASE \E p \in Parties : \E b : Appends(p, b)
    BY <2>2 DEF Appends
  <2>3. CASE Still
    BY <2>1, <2>3 DEF Still, Untouched
  <2>4. CASE Harming
    BY <1>2, <2>4, DamageMoves, NoSlip DEF Harming, Honest
  <2> QED
    BY <1>1, <2>2, <2>3, <2>4 DEF Moves
<1> QED
  BY <1>1, <1>2 DEF Honest

\* Every step keeps PinOK: what a pin names was written and stays so.
LEMMA PinStep ==
  ASSUME WroteOK, TapeOK, OffersOK, Honest, PinOK, [Next]_vars
  PROVE  PinOK'
<1>0. Grown
  BY WroteStep DEF Honest
<1>1. CASE pin' = pin
  <2>1. ASSUME pin # NoPin
        PROVE  pin.rows \in 1..Len(wrote'[pin.of]) /\ pin.chain = wrote'[pin.of][pin.rows].chain
    BY <1>0, <2>1 DEF PinOK, Grown
  <2> QED
    BY <1>1, <2>1 DEF PinOK
<1>2. ASSUME NEW p \in Parties, TakePin(p) PROVE PinOK'
  <2>1. /\ wrote' = wrote /\ tape = wrote /\ tape[p] # <<>>
        /\ \E side \in {p, Null} :
             pin' = [side |-> side, of |-> p, rows |-> Len(tape[p]), chain |-> ChainOf(tape[p])]
    BY <1>2 DEF TakePin, Untouched
  <2>2. Listing(wrote[p])
    BY DEF WroteOK
  <2>3. Len(wrote[p]) \in Nat /\ Len(wrote[p]) # 0
    BY <2>1, <2>2, ListDomain
  <2>4. ChainOf(wrote[p]) = wrote[p][Len(wrote[p])].chain /\ Len(wrote[p]) \in 1..Len(wrote[p])
    BY <2>2, <2>3, ChainOfIs
  <2> QED
    BY <2>1, <2>4 DEF PinOK
<1>3. pin' = pin \/ \E p \in Parties : TakePin(p)
  <2>1. CASE DealSteps
    BY <2>1 DEF DealSteps, Finish, Die, Recorded, Committing, Shipping, Write, Prepare
  <2>2. CASE Harming
    BY <2>2, DamageMoves DEF Harming
  <2>3. CASE Handshakes
    BY <2>3 DEF Handshakes, HandOver, Drop, Propose, Accept, AlterOffer, dealVars, Write
  <2>4. CASE UNCHANGED vars
    BY <2>4 DEF vars, dealVars
  <2> QED
    BY <2>1, <2>2, <2>3, <2>4, NextIs DEF Steppings, Honest
<1> QED
  BY <1>1, <1>2, <1>3

\* A note that is true of the first rows stays true as rows are appended.
LEMMA NotedGrows ==
  ASSUME NEW p, NEW b, NEW rows, NEW t, NEW n \in Nat, NEW m \in Nat, n <= m,
         \A k \in 1..n : t[k] = rows[k], Noted(p, b, rows, n)
  PROVE  Noted(p, b, t, m)
<1>1. \A k \in 1..n : k \in 1..m
  OBVIOUS
<1>2. ASSUME NEW md, Held(rows, n, md) PROVE Held(t, m, md)
  BY <1>1, <1>2 DEF Held
<1>3. Canceled(rows, n) => Canceled(t, m)
  BY <1>1 DEF Canceled
<1> QED
  BY <1>2, <1>3 DEF Noted

\* What the notes of a step need: a row written and a row about to be are noted.
JobsNoted == \A q \in Parties : job'[q] = Null \/ job'[q] = job[q] \/ Noted(q, job'[q], wrote[q], Len(wrote[q]))
RowsNoted == \A q \in Parties : \A n \in 1..Len(wrote'[q]) :
               n <= Len(wrote[q]) \/ (n = Len(wrote[q]) + 1 /\ Noted(q, wrote'[q][n].body, wrote[q], Len(wrote[q])))

\* NotesOK holds on where the new job and the new row are noted truly.
LEMMA NotesKept ==
  ASSUME WroteOK, Grown, NotesOK, JobsNoted, RowsNoted
  PROVE  NotesOK'
<1> SUFFICES ASSUME NEW q \in Parties
             PROVE  /\ \A n \in 1..Len(wrote'[q]) : Noted(q, wrote'[q][n].body, wrote'[q], n-1)
                    /\ job'[q] # Null => Noted(q, job'[q], wrote'[q], Len(wrote'[q]))
  BY DEF NotesOK
<1> PICK w, v, l, m : w = wrote[q] /\ v = wrote'[q] /\ l = Len(w) /\ m = Len(v)
  OBVIOUS
<1>1. l \in Nat /\ m \in Nat /\ l <= m /\ \A k \in 1..l : k \in 1..m /\ v[k] = w[k]
  BY DEF Grown
<1>2. \A n \in 1..l : Noted(q, w[n].body, w, n-1)
  BY DEF NotesOK
<1>3. job'[q] # Null => Noted(q, job'[q], w, l)
  BY DEF NotesOK, JobsNoted
<1>4. job'[q] # Null => Noted(q, job'[q], v, m)
  BY <1>1, <1>3, NotedGrows
<1>5. ASSUME NEW n \in 1..m PROVE Noted(q, v[n].body, v, n-1)
  <2>1. CASE n <= l
    <3>1. n \in 1..l /\ n-1 \in Nat /\ n-1 <= n-1 /\ \A k \in 1..n-1 : v[k] = w[k]
      BY <1>1, <1>5, <2>1
    <3>2. Noted(q, v[n].body, w, n-1)
      BY <1>1, <1>2, <3>1
    <3> QED
      BY <3>1, <3>2, NotedGrows
  <2>2. CASE n = l + 1 /\ Noted(q, v[n].body, w, l)
    <3>1. n-1 = l /\ l <= l
      BY <1>1, <2>2
    <3>2. Noted(q, v[n].body, v, l)
      BY <1>1, <2>2, <3>1, NotedGrows
    <3> QED
      BY <3>1, <3>2
  <2> QED
    BY <1>5, <2>1, <2>2 DEF RowsNoted
<1> QED
  BY <1>4, <1>5

\* An appended row with a true note leaves every note true.
LEMMA AppendNoted ==
  ASSUME WroteOK, NEW p \in Parties, NEW b, Appends(p, b), Noted(p, b, wrote[p], Len(wrote[p]))
  PROVE  RowsNoted
<1>1. /\ Follows(wrote'[p], wrote[p], RowAfter(wrote[p], b)) /\ wrote'[Other(p)] = wrote[Other(p)]
  BY DEF Appends
<1>2. RowAfter(wrote[p], b).body = b
  BY DEF RowAfter
<1>3. \A q \in Parties : q = p \/ q = Other(p)
  BY DEF Parties, Other
<1>4. ASSUME NEW n \in 1..Len(wrote'[p])
      PROVE  n <= Len(wrote[p]) \/ (n = Len(wrote[p]) + 1 /\ Noted(p, wrote'[p][n].body, wrote[p], Len(wrote[p])))
  BY <1>1, <1>2 DEF Follows
<1>5. Listing(wrote[Other(p)])
  BY BothParties DEF WroteOK, PartiesAre
<1>6. \A n \in 1..Len(wrote'[Other(p)]) : n <= Len(wrote[Other(p)])
  BY <1>1, <1>5, ListDomain
<1> QED
  BY <1>3, <1>4, <1>6 DEF RowsNoted

\* So does a step that writes nothing.
LEMMA SameNoted == ASSUME WroteOK, wrote' = wrote PROVE RowsNoted
<1>1. \A q \in Parties : Len(wrote[q]) \in Nat
  BY ListDomain DEF WroteOK
<1> QED
  BY <1>1 DEF RowsNoted

\* The mandate a commit cites is one its tape holds, and the one that was asked for.
LEMMA CitedIs ==
  ASSUME WroteOK, NotesOK, tape = wrote, NEW md
  PROVE  LET c == Cited(md)
         IN  \/ c = Null
             \/ /\ Held(wrote["buyer"], Len(wrote["buyer"]), c) /\ c \in Mandates
                /\ md # Null => c = md
<1>a. PICK w, rows, fit : /\ w = wrote["buyer"] /\ rows = OfStep(w, TheDeal, "mandate")
                          /\ fit = {k \in DOMAIN rows : md = Null \/ rows[k].body.shared.md = md}
  OBVIOUS
<1>b. "buyer" \in Parties
  BY DEF Parties
<1>1. Listing(w) /\ \A n \in 1..Len(w) : w[n].body.step = "mandate" => w[n].body.shared.md \in Mandates
  BY <1>a, <1>b DEF WroteOK, NotesOK, Noted
<1>2. InStepOf(rows, w, "mandate")
  BY <1>1, <1>a, StepRows
<1>3. DOMAIN rows = 1..Len(rows) /\ Len(rows) \in Nat
  BY <1>2, ListDomain DEF InStepOf
<1>4. Cited(md) = IF fit = {} THEN Null ELSE rows[Max(fit)].body.shared.md
  BY <1>a DEF Cited
<1>5. CASE fit # {}
  <2>1. fit \in SUBSET Nat /\ IsFiniteSet(fit)
    <3>1. fit \subseteq 1..Len(rows)
      BY <1>a, <1>3
    <3> QED
      BY <3>1, <1>3, PlacesFinite
  <2>2. PICK k : k = Max(fit)
    OBVIOUS
  <2>3. k \in fit
    BY <1>5, <2>1, <2>2, LastAndFirst
  <2>4. k \in 1..Len(rows) /\ (md # Null => rows[k].body.shared.md = md)
    BY <1>a, <1>3, <2>3
  <2>5. PICK n \in 1..Len(w) : StepRow(w[n], "mandate") /\ rows[k] = w[n]
    BY <1>2, <2>4 DEF InStepOf
  <2>6. Cited(md) = w[n].body.shared.md
    BY <1>4, <1>5, <2>2, <2>5
  <2>7. Held(w, Len(w), Cited(md)) /\ Cited(md) \in Mandates
    BY <1>1, <2>5, <2>6 DEF StepRow, Held
  <2> QED
    BY <1>a, <2>4, <2>5, <2>6, <2>7
<1> QED
  BY <1>4, <1>5

\* check_mandate says "inside" only of terms the mandate allows.
LEMMA InsideIs ==
  ASSUME NEW c \in Mandates \cup {Null}, NEW t \in Terms, NEW at, NEW d, InsideMandate(c, t, at, d) = "inside"
  PROVE  c # Null /\ c.merchant = t.seller /\ c.currency = t.currency /\ t.total <= c.cap
<1>1. c # Null
  BY DEF InsideMandate
<1>2. CheckMandate(c, t, at) = "inside"
  BY <1>1 DEF InsideMandate
<1>3. t.seller = c.merchant /\ t.currency = c.currency
  BY <1>2 DEF CheckMandate
<1>4. t.total # Null /\ c.cap # Null
  BY <1>2, <1>3 DEF CheckMandate
<1>5. ~(t.total > c.cap)
  BY <1>2, <1>3, <1>4 DEF CheckMandate
<1>6. t.total \in Int /\ c.cap \in Int
  BY <1>1, <1>4, AmountsAreNumbers
<1> QED
  BY <1>1, <1>3, <1>5, <1>6

\* Deal.commit notes truly what its tape holds.
LEMMA CommitNoted ==
  ASSUME WroteOK, NotesOK, NEW b, Committing(b)
  PROVE  Noted("buyer", b, wrote["buyer"], Len(wrote["buyer"]))
<1>1. tape = wrote
  BY DEF Committing, Prepare, Untouched
<1>2. PICK t \in Terms, md \in Mandates \cup {Null}, at \in Times, d \in BOOLEAN :
         b = CommitBody(t, md, at, d)
  BY DEF Committing
<1>3. PICK c, x, note : /\ c = Cited(md) /\ x = Shared(t, IF md = Null THEN c ELSE md)
                        /\ note = InsideMandate(c, t, at, d)
  OBVIOUS
<1>4. b = Of("buyer", "commit", x, note)
  BY <1>2, <1>3, CommitIs
<1>5. \/ c = Null
      \/ /\ Held(wrote["buyer"], Len(wrote["buyer"]), c) /\ c \in Mandates
         /\ md # Null => c = md
  BY <1>1, <1>3, CitedIs
<1>6. x.what = t /\ (c # Null => x.md = c)
  BY <1>2, <1>3, <1>5 DEF Shared
<1>7. b.step = "commit" /\ b.shared = x /\ b.note = note
  BY <1>4 DEF Of, Body
<1>8. note \in {"inside", "outside", "unknown"} /\ (c = Null => note = "outside")
  BY <1>3 DEF InsideMandate, CheckMandate
<1>9. note = "inside" => c.merchant = t.seller /\ c.currency = t.currency /\ t.total <= c.cap
  BY <1>3, <1>5, InsideIs
<1> QED
  BY <1>5, <1>6, <1>7, <1>8, <1>9 DEF Noted

\* Deal.ship notes truly what its tape holds.
LEMMA ShipNoted ==
  ASSUME WroteOK, NEW p \in Parties, NEW s, Shipping(p, s)
  PROVE  Noted(p, ShipBody(p, s), wrote[p], Len(wrote[p]))
<1>1. tape = wrote
  BY DEF Shipping, Prepare, Untouched
<1>2. PICK note : /\ ShipBody(p, s) = Of(p, "ship", s, note) /\ note \in {Null, "after_cancel"}
                  /\ note = "after_cancel" => OfStep(wrote[p], TheDeal, "cancel") # <<>>
  BY <1>1, ShipIs
<1>3. note \notin {"inside", "unknown"}
  BY <1>2, NullIsApart
<1>4. PICK w, rows : w = wrote[p] /\ rows = OfStep(w, TheDeal, "cancel")
  OBVIOUS
<1>5. InStepOf(rows, w, "cancel")
  BY <1>4, StepRows DEF WroteOK
<1>6. ASSUME note = "after_cancel" PROVE Canceled(w, Len(w))
  <2>1. Len(rows) # 0 /\ Len(rows) \in Nat
    BY <1>2, <1>4, <1>5, <1>6, ListDomain DEF InStepOf
  <2>2. PICK n \in 1..Len(w) : StepRow(w[n], "cancel")
    BY <1>5, <2>1 DEF InStepOf
  <2> QED
    BY <2>2 DEF StepRow, Canceled
<1>7. ShipBody(p, s).step = "ship" /\ ShipBody(p, s).note = note
  BY <1>2 DEF Of, Body
<1> QED
  BY <1>3, <1>4, <1>6, <1>7 DEF Noted

\* A row without a note that is no mandate needs nothing.
LEMMA PlainNoted ==
  ASSUME NEW p, NEW b, NEW rows, NEW n, b.note = Null, b.step # "mandate"
  PROVE  Noted(p, b, rows, n)
BY NullIsApart DEF Noted

\* Every step of the deal notes truly.
LEMMA DealsNoted ==
  ASSUME WroteOK, NotesOK, DealSteps
  PROVE  JobsNoted /\ RowsNoted
<1>0. \A p \in Parties : JobOK(p, Null)
  BY DEF JobOK
<1>p. \A p, q \in Parties : q = p \/ q = Other(p)
  BY DEF Parties, Other
<1>1. ASSUME NEW p \in Parties, Finish(p) PROVE JobsNoted /\ RowsNoted
  <2>1. job[p] # Null /\ Write(p, job[p]) /\ job' = [job EXCEPT ![p] = Null]
    BY <1>1 DEF Finish
  <2>2. Appends(p, job[p])
    BY <2>1, WriteAppends
  <2>3. Noted(p, job[p], wrote[p], Len(wrote[p]))
    BY <2>1 DEF NotesOK
  <2>4. job'[p] = Null /\ job'[Other(p)] = job[Other(p)]
    BY <1>0, <2>1, JobsExcept
  <2> QED
    BY <1>p, <2>2, <2>3, <2>4, AppendNoted DEF JobsNoted
<1>2. ASSUME NEW p \in Parties, Die(p) PROVE JobsNoted /\ RowsNoted
  <2>1. job' = [job EXCEPT ![p] = Null] /\ wrote' = wrote
    BY <1>2 DEF Die
  <2>2. job'[p] = Null /\ job'[Other(p)] = job[Other(p)]
    BY <1>0, <2>1, JobsExcept
  <2> QED
    BY <1>p, <2>1, <2>2, SameNoted DEF JobsNoted
<1>3. ASSUME NEW p \in Parties, NEW step, NEW s, Recorded(p, step, s) PROVE JobsNoted /\ RowsNoted
  <2>1. PICK b : b = Of(p, step, s, Null)
    OBVIOUS
  <2>2. /\ Write(p, b) /\ job' = job /\ Shaped(s) /\ step \in StepNames /\ step # "ship"
        /\ (step = "commit" => p = "seller") /\ (step = "mandate" => s.md \in Mandates)
    BY <1>3, <2>1 DEF Recorded
  <2>3. b.step = step /\ b.shared = s /\ b.note = Null
    BY <2>1 DEF Of, Body
  <2>4. Noted(p, b, wrote[p], Len(wrote[p]))
    BY <2>2, <2>3, NullIsApart DEF Noted
  <2>5. Appends(p, b)
    BY <2>2, WriteAppends
  <2> QED
    BY <2>2, <2>4, <2>5, AppendNoted DEF JobsNoted
<1>4. ASSUME NEW p \in Parties, NEW b, Prepare(p, b), JobOK(p, b), Noted(p, b, wrote[p], Len(wrote[p]))
      PROVE  JobsNoted /\ RowsNoted
  <2>1. job' = [job EXCEPT ![p] = b] /\ wrote' = wrote
    BY <1>4 DEF Prepare
  <2>2. job'[p] = b /\ job'[Other(p)] = job[Other(p)]
    BY <1>4, <2>1, JobsExcept
  <2> QED
    BY <1>4, <1>p, <2>1, <2>2, SameNoted DEF JobsNoted
<1>5. ASSUME NEW b, Committing(b) PROVE JobsNoted /\ RowsNoted
  <2>1. Prepare("buyer", b) /\ \E t, md, at, d : b = CommitBody(t, md, at, d)
    BY <1>5 DEF Committing
  <2>2. \E s, note : Shaped(s) /\ b = Of("buyer", "commit", s, note)
    BY <2>1, CommitIs, SharedShaped
  <2>3. JobOK("buyer", b)
    BY <2>2, OfIs, StepNamesAre DEF JobOK
  <2> QED
    BY <1>4, <1>5, <2>1, <2>3, CommitNoted DEF Parties
<1>6. ASSUME NEW p \in Parties, NEW s, Shipping(p, s) PROVE JobsNoted /\ RowsNoted
  <2>1. Prepare(p, ShipBody(p, s)) /\ Shaped(s)
    BY <1>6 DEF Shipping
  <2>2. JobOK(p, ShipBody(p, s))
    <3>1. PICK note : ShipBody(p, s) = Of(p, "ship", s, note)
      BY ShipIs
    <3>2. "ship" \in StepNames
      BY StepNamesAre
    <3> QED
      BY <2>1, <3>1, <3>2, OfIs DEF JobOK
  <2> QED
    BY <1>4, <1>6, <2>1, <2>2, ShipNoted
<1> QED
  BY <1>1, <1>2, <1>3, <1>5, <1>6 DEF DealSteps

\* A step that writes and prepares nothing keeps the notes.
LEMMA StillNoted ==
  ASSUME WroteOK, job' = job, wrote' = wrote
  PROVE  JobsNoted /\ RowsNoted
BY SameNoted DEF JobsNoted

\* Every step keeps NotesOK.
LEMMA NotesStep ==
  ASSUME WroteOK, TapeOK, OffersOK, Listing(mishaps), NotesOK, [Next]_vars
  PROVE  NotesOK'
<1>1. CASE DealSteps
  BY <1>1, DealsNoted, WroteStep, NotesKept
<1>2. CASE Harming
  BY <1>2, DamageMoves, StillNoted, WroteStep, NotesKept DEF Harming
<1>3. CASE \E p \in Parties : TakePin(p) /\ Aside
  <2>1. job' = job /\ wrote' = wrote
    BY <1>3 DEF TakePin
  <2> QED
    BY <2>1, StillNoted, WroteStep, NotesKept
<1>4. CASE Handshakes
  <2>1. ASSUME NEW p \in Parties, HandOver(p) \/ Drop(p) PROVE JobsNoted /\ RowsNoted
    BY <2>1, StillNoted DEF HandOver, Drop, dealVars
  <2>2. ASSUME NEW o \in offers, AlterOffer(o) PROVE JobsNoted /\ RowsNoted
    BY <2>2, StillNoted DEF AlterOffer
  <2>3. ASSUME NEW p \in Parties, NEW h \in lane.ids, NEW x \in lane.details, Propose(p, h, x)
        PROVE  JobsNoted /\ RowsNoted
    <3>1. PICK b : b = ProposeBody(p, h, x)
      OBVIOUS
    <3>2. Appends(p, b) /\ job' = job
      BY <2>3, <3>1, ProposeMoves
    <3>3. b.note = Null /\ b.step = "propose"
      BY <3>1 DEF ProposeBody, Body
    <3> QED
      BY <3>2, <3>3, PlainNoted, AppendNoted DEF JobsNoted
  <2>4. ASSUME NEW p \in Parties, NEW o \in offers, Accept(p, o)
        PROVE  JobsNoted /\ RowsNoted
    <3>1. PICK b : b = AcceptBody(o)
      OBVIOUS
    <3>2. Appends(p, b) /\ job' = job
      BY <2>4, <3>1, AcceptMoves DEF OffersOK
    <3>3. b.note = Null /\ b.step = "accept"
      BY <3>1 DEF AcceptBody, Body
    <3> QED
      BY <3>2, <3>3, PlainNoted, AppendNoted DEF JobsNoted
  <2>5. JobsNoted /\ RowsNoted
    BY <1>4, <2>1, <2>2, <2>3, <2>4 DEF Handshakes
  <2> QED
    BY <2>5, WroteStep, NotesKept
<1>5. CASE UNCHANGED vars
  <2>1. job' = job /\ wrote' = wrote
    BY <1>5 DEF vars, dealVars
  <2> QED
    BY <2>1, StillNoted, WroteStep, NotesKept
<1> QED
  BY <1>1, <1>2, <1>3, <1>4, <1>5, NextIs DEF Steppings

\* NotesOK implies NotesAreTrue.
LEMMA NotesHold == ASSUME WroteOK, NotesOK PROVE NotesAreTrue
<1> SUFFICES ASSUME NEW p \in Parties, NEW n \in DOMAIN wrote[p]
             PROVE  LET b == wrote[p][n].body
                        held == {r.body.shared.md : r \in ToSet(Earlier(p, n, "mandate"))}
                        m == b.shared.md
                        t == b.shared.what
                    IN  /\ b.note \in {"inside", "unknown"} => m \in held
                        /\ b.note = "inside" =>
                             m.merchant = t.seller /\ m.currency = t.currency /\ t.total <= m.cap
                        /\ b.note = "after_cancel" => Earlier(p, n, "cancel") # <<>>
  BY DEF NotesAreTrue
<1>1. PICK w, f : w = wrote[p] /\ f = SubSeq(w, 1, n-1)
  OBVIOUS
<1>2. Listing(w) /\ DOMAIN w = 1..Len(w) /\ Len(w) \in Nat
  BY <1>1, ListDomain DEF WroteOK
<1>3. n \in 1..Len(w) /\ n-1 \in 0..Len(w)
  BY <1>1, <1>2
<1>4. Listing(f) /\ Len(f) = n-1 /\ \A k \in 1..n-1 : f[k] = w[k]
  BY <1>1, <1>2, <1>3, FrontIs
<1>5. \A step : Earlier(p, n, step) = OfStep(f, TheDeal, step)
  BY <1>1 DEF Earlier
<1>6. ASSUME NEW step, NEW k \in 1..n-1, StepRow(w[k], step)
      PROVE  w[k] \in ToSet(Earlier(p, n, step)) /\ Earlier(p, n, step) # <<>>
  <2>1. PICK e : e = Earlier(p, n, step)
    OBVIOUS
  <2>2. InStepOf(e, f, step)
    BY <1>4, <1>5, <2>1, StepRows
  <2>3. PICK j \in 1..Len(e) : e[j] = w[k]
    BY <1>4, <1>6, <2>2 DEF InStepOf
  <2>4. DOMAIN e = 1..Len(e)
    BY <2>2, ListDomain DEF InStepOf
  <2>5. w[k] \in ToSet(e) /\ e # <<>>
    BY <2>3, <2>4 DEF ToSet
  <2> QED
    BY <2>1, <2>5
<1>7. Noted(p, w[n].body, w, n-1)
  BY <1>1, <1>3 DEF NotesOK
<1>8. ASSUME NEW md, Held(w, n-1, md)
      PROVE  md \in {r.body.shared.md : r \in ToSet(Earlier(p, n, "mandate"))}
  BY <1>6, <1>8 DEF Held, StepRow
<1>9. Canceled(w, n-1) => Earlier(p, n, "cancel") # <<>>
  BY <1>6 DEF Canceled, StepRow
<1> QED
  BY <1>1, <1>7, <1>8, <1>9 DEF Noted

(***************************************************************************)
(* What dispute() finds.                                                   *)
(***************************************************************************)
IsFinding(f) == f.verdict \in {"ALTERED", "MISSING"} /\ f.k \in Nat
Findings(s) == Listing(s) /\ Len(s) \in Nat /\ \A i \in 1..Len(s) : IsFinding(s[i])

\* Finding makes a finding.
LEMMA FindingIs ==
  ASSUME NEW v \in {"ALTERED", "MISSING"}, NEW step, NEW k \in Nat, NEW side
  PROVE  IsFinding(Finding(v, step, k, side))
BY DEF IsFinding, Finding

\* No findings are a list of findings.
LEMMA NoFindings == Findings(<<>>)
BY NothingListed DEF Findings

\* One finding is a list of findings.
LEMMA OneFinding == ASSUME NEW f, IsFinding(f) PROVE Findings(<<f>>) /\ <<f>> # <<>>
<1>a. <<f>> \in Seq({f})
  OBVIOUS
<1>b. Listing(<<f>>)
  BY <1>a DEF Listing
<1>1. Listing(<<f>>) /\ Len(<<f>>) = 1 /\ <<f>>[1] = f
  BY <1>b
<1> QED
  BY <1>1, ListDomain DEF Findings

\* Lists of findings join to one, empty iff both are.
LEMMA Joined ==
  ASSUME NEW s, NEW t, Findings(s), Findings(t)
  PROVE  Findings(s \o t) /\ (s \o t = <<>> => s = <<>> /\ t = <<>>)
<1>1. PICK A : s \in Seq(A)
  BY DEF Findings, Listing
<1>2. PICK B : t \in Seq(B)
  BY DEF Findings, Listing
<1>3. PICK C : C = A \cup B
  OBVIOUS
<1>4. s \in Seq(C) /\ t \in Seq(C)
  <2>1. A \subseteq C /\ B \subseteq C
    BY <1>3
  <2> QED
    BY <1>1, <1>2, <2>1
<1>5. /\ s \o t \in Seq(C) /\ Len(s \o t) = Len(s) + Len(t)
      /\ \A i \in 1..Len(s) + Len(t) : (s \o t)[i] = IF i <= Len(s) THEN s[i] ELSE t[i - Len(s)]
  BY <1>4
<1>6. Listing(s \o t) /\ Listing(s) /\ Listing(t)
  BY <1>5 DEF Listing, Findings
<1>7. Len(s) \in Nat /\ Len(t) \in Nat
  BY DEF Findings
<1>8. ASSUME NEW i \in 1..Len(s \o t) PROVE IsFinding((s \o t)[i])
  <2>1. CASE i <= Len(s)
    BY <1>5, <1>7, <2>1 DEF Findings
  <2>2. CASE ~(i <= Len(s))
    <3>1. i - Len(s) \in 1..Len(t) /\ (s \o t)[i] = t[i - Len(s)]
      BY <1>5, <1>7, <2>2
    <3> QED
      BY <3>1 DEF Findings
  <2> QED
    BY <2>1, <2>2
<1>9. s \o t = <<>> => s = <<>> /\ t = <<>>
  BY <1>5, <1>6, <1>7, ListDomain
<1> QED
  BY <1>5, <1>6, <1>7, <1>8, <1>9 DEF Findings

\* Every finding has a place in the order of the steps.
LEMMA OrderIs == \A f : Order(f) \in Nat
<1> SUFFICES ASSUME NEW f PROVE Order(f) \in Nat
  OBVIOUS
<1>1. DOMAIN Steps = 1..7 /\ Len(Steps) = 7
  BY DEF Steps
<1>2. CASE f.step \in StepNames
  <2>1. \E i \in DOMAIN Steps : Steps[i] = f.step
    BY <1>2 DEF StepNames, ToSet
  <2>3. PICK c : c = CHOOSE i \in DOMAIN Steps : Steps[i] = f.step
    OBVIOUS
  <2>2. c \in DOMAIN Steps
    BY <2>1, <2>3
  <2>4. Order(f) = c
    BY <1>2, <2>3 DEF Order
  <2>5. c \in Nat
    BY <1>1, <2>2
  <2> QED
    BY <2>4, <2>5
<1> QED
  BY <1>1, <1>2 DEF Order

\* The headline of findings is one of them.
LEMMA HeadlineIs ==
  ASSUME NEW found, Findings(found), found # <<>>
  PROVE  IsFinding(Headline(found)) /\ \E i \in 1..Len(found) : Headline(found) = found[i]
<1>1. DOMAIN found = 1..Len(found) /\ Len(found) \in Nat /\ Len(found) # 0
  BY ListDomain DEF Findings
<1>2. PICK D : D = DOMAIN found
  OBVIOUS
<1>3. \A k \in D : found[k].k \in Nat
  BY <1>1, <1>2 DEF Findings, IsFinding
<1>4. PICK o \in Nat : /\ \E k \in D : Order(found[k]) = o
                       /\ \A k \in D : o <= Order(found[k])
  <2>1. PICK S : S = {Order(found[k]) : k \in D}
    OBVIOUS
  <2>2. S \in SUBSET Nat /\ S # {}
    BY <1>1, <1>2, <2>1, OrderIs
  <2>3. PICK x \in S : \A y \in S : x <= y
    BY <2>2, LeastOf
  <2> QED
    BY <2>1, <2>2, <2>3
<1>5. PICK n \in Nat : /\ \E k \in D : Order(found[k]) = o /\ found[k].k = n
                       /\ \A k \in D : Order(found[k]) = o => n <= found[k].k
  <2>1. PICK S : S = {found[k].k : k \in {j \in D : Order(found[j]) = o}}
    OBVIOUS
  <2>2. S \in SUBSET Nat /\ S # {}
    BY <1>3, <1>4, <2>1
  <2>3. PICK x \in S : \A y \in S : x <= y
    BY <2>2, LeastOf
  <2> QED
    BY <2>1, <2>2, <2>3
<1>6. PICK k \in D : /\ Order(found[k]) = o /\ found[k].k = n
                     /\ (\E j \in D : Order(found[j]) = o /\ found[j].k = n /\ found[j].verdict = "ALTERED")
                          => found[k].verdict = "ALTERED"
  BY <1>5
<1>7. ASSUME NEW j \in D PROVE ~Before(found[j], found[k])
  <2>1. PICK oj, ok, kj : oj = Order(found[j]) /\ ok = Order(found[k]) /\ kj = found[j].k
    OBVIOUS
  <2>2. oj \in Nat /\ kj \in Nat /\ o <= oj /\ ok = o /\ (oj = o => n <= kj)
    BY <1>3, <1>4, <1>5, <1>6, <2>1, OrderIs
  <2>3. ~(oj < ok) /\ (oj = ok => ~(kj < n))
    BY <2>2
  <2>4. oj = ok /\ kj = n => ~(found[j].verdict = "ALTERED" /\ found[k].verdict = "MISSING")
    BY <1>6, <2>1, <2>2
  <2> QED
    BY <1>6, <2>1, <2>3, <2>4 DEF Before
<1>8. PICK T : T = {i \in DOMAIN found : \A j \in DOMAIN found : ~Before(found[j], found[i])}
  OBVIOUS
<1>9. T \subseteq 1..Len(found) /\ T # {}
  BY <1>1, <1>2, <1>7, <1>8
<1>10. Min(T) \in T
  BY <1>1, <1>9, PlacesFinite, LastAndFirst
<1>11. Headline(found) = found[Min(T)]
  BY <1>8 DEF Headline
<1>12. Min(T) \in 1..Len(found)
  BY <1>9, <1>10
<1> QED
  BY <1>11, <1>12 DEF Findings

\* A list with an entry for each member of a set of places.
LEMMA ForEach ==
  ASSUME NEW m \in Nat, NEW S, S \subseteq 1..m
  PROVE  /\ DOMAIN InOrder(S) = 1..Cardinality(S) /\ Cardinality(S) \in Nat
         /\ \A i \in 1..Cardinality(S) : InOrder(S)[i] \in S
         /\ Cardinality(S) = 0 <=> S = {}
<1>1. S \in SUBSET Nat /\ IsFiniteSet(S) /\ Cardinality(S) \in Nat /\ (Cardinality(S) = 0 <=> S = {})
  BY PlacesFinite
<1>2. InOrder(S) \in [1..Cardinality(S) -> S]
  BY <1>1, InOrderRanks DEF ByRank
<1> QED
  BY <1>1, <1>2

\* InOrder holds members of the set only.
LEMMA PlaceIn ==
  ASSUME NEW m \in Nat, NEW S, S \subseteq 1..m, NEW i \in DOMAIN InOrder(S)
  PROVE  InOrder(S)[i] \in S
<1>1. DOMAIN InOrder(S) = 1..Cardinality(S)
  BY ForEach
<1>2. \A j \in 1..Cardinality(S) : InOrder(S)[j] \in S
  BY ForEach
<1> QED
  BY <1>1, <1>2

\* A finding for each place of a set is a list of findings, empty only if the set is.
LEMMA EachFound ==
  ASSUME NEW m \in Nat, NEW S, S \subseteq 1..m, NEW f, f = [i \in DOMAIN InOrder(S) |-> f[i]],
         \A i \in DOMAIN InOrder(S) : IsFinding(f[i])
  PROVE  Findings(f) /\ (f = <<>> => S = {})
<1>1. PICK n : n = Cardinality(S)
  OBVIOUS
<1>2. DOMAIN InOrder(S) = 1..n /\ n \in Nat /\ (n = 0 <=> S = {})
  BY <1>1, ForEach
<1>3. f = [i \in 1..n |-> f[i]]
  BY <1>2
<1>4. Listing(f) /\ Len(f) = n
  BY <1>2, <1>3, FunctionLists
<1>5. f = <<>> => n = 0
  BY <1>4, NothingListed
<1> QED
  BY <1>2, <1>4, <1>5 DEF Findings

\* _compare finds nothing only in rows that agree, one for one.
LEMMA CompareFinds ==
  ASSUME NEW step, NEW B, NEW S, Listing(B), Listing(S)
  PROVE  /\ Findings(Compare(step, B, S))
         /\ Compare(step, B, S) = <<>> => /\ Len(B) = Len(S)
                                          /\ \A k \in 1..Len(B) : B[k].body.digest = S[k].body.digest
<1>1. Len(B) \in Nat /\ Len(S) \in Nat
  BY ListDomain
<1>2. PICK m, T, f : /\ m = Longest(B, S) /\ f = Compare(step, B, S)
                     /\ T = {k \in 1..Longest(B, S) : \/ k > Len(B) \/ k > Len(S)
                                                      \/ B[k].body.digest # S[k].body.digest}
  OBVIOUS
<1>3. m \in Nat /\ Len(B) <= m /\ Len(S) <= m /\ T \subseteq 1..m
  BY <1>1, <1>2 DEF Longest
<1>4. f = [i \in DOMAIN InOrder(T) |->
             CASE InOrder(T)[i] > Len(B) -> Finding("MISSING", step, InOrder(T)[i], "buyer")
               [] InOrder(T)[i] > Len(S) -> Finding("MISSING", step, InOrder(T)[i], "seller")
               [] OTHER -> Finding("ALTERED", step, InOrder(T)[i], Null)]
  BY <1>2 DEF Compare
<1>5. f = [i \in DOMAIN InOrder(T) |-> f[i]]
  BY <1>4
<1>6. ASSUME NEW i \in DOMAIN InOrder(T) PROVE IsFinding(f[i])
  <2>1. PICK a : a = InOrder(T)[i]
    OBVIOUS
  <2>a. a \in T
    BY <1>3, <2>1, PlaceIn
  <2>2. a \in Nat
    BY <1>3, <2>a
  <2>3. f[i] = CASE a > Len(B) -> Finding("MISSING", step, a, "buyer")
                 [] a > Len(S) -> Finding("MISSING", step, a, "seller")
                 [] OTHER -> Finding("ALTERED", step, a, Null)
    BY <1>4, <2>1
  <2>4. f[i] \in {Finding("MISSING", step, a, "buyer"), Finding("MISSING", step, a, "seller"),
                  Finding("ALTERED", step, a, Null)}
    BY <2>3
  <2> QED
    BY <2>2, <2>4, FindingIs
<1>7. Findings(f) /\ (f = <<>> => T = {})
  BY <1>3, <1>5, <1>6, EachFound
<1>8. ASSUME T = {} PROVE Len(B) = Len(S) /\ \A k \in 1..Len(B) : B[k].body.digest = S[k].body.digest
  <2>1. \A k \in 1..m : k <= Len(B) /\ k <= Len(S) /\ B[k].body.digest = S[k].body.digest
    BY <1>1, <1>2, <1>3, <1>8
  <2>2. \A k \in 1..Len(B) : k \in 1..m
    BY <1>1, <1>3
  <2>3. Len(B) = m /\ Len(S) = m
    <3>1. CASE m = 0
      BY <1>1, <1>3, <3>1
    <3>2. CASE m # 0
      <4>1. m \in 1..m
        BY <1>3, <3>2
      <4> QED
        BY <1>1, <1>3, <2>1, <4>1
    <3> QED
      BY <3>1, <3>2
  <2> QED
    BY <2>1, <2>2, <2>3
<1> QED
  BY <1>2, <1>7, <1>8

\* Every cited mandate is held when CitesHeld finds nothing.
LEMMA CitesFind ==
  ASSUME NEW M, NEW C, Listing(M), Listing(C)
  PROVE  /\ Findings(CitesHeld(M, C))
         /\ CitesHeld(M, C) = <<>> /\ M # <<>> =>
              \A k \in 1..Len(C) : \E j \in 1..Len(M) : M[j].body.shared.md = C[k].body.shared.md
<1>1. /\ Len(C) \in Nat /\ DOMAIN C = 1..Len(C) /\ Len(M) \in Nat /\ DOMAIN M = 1..Len(M)
      /\ (M # <<>> => Len(M) # 0)
  BY ListDomain
<1>2. PICK held, T, f : /\ held = {m.body.shared.md : m \in ToSet(M)} /\ f = CitesHeld(M, C)
                        /\ T = {k \in DOMAIN C : held # {} /\ C[k].body.shared.md \notin held}
  OBVIOUS
<1>3. T \subseteq 1..Len(C)
  BY <1>1, <1>2
<1>4. f = [i \in DOMAIN InOrder(T) |-> Finding("ALTERED", "commit", InOrder(T)[i], "seller")]
  BY <1>2 DEF CitesHeld
<1>5. f = [i \in DOMAIN InOrder(T) |-> f[i]]
  BY <1>4
<1>6. ASSUME NEW i \in DOMAIN InOrder(T) PROVE IsFinding(f[i])
  <2>1. PICK a : a = InOrder(T)[i]
    OBVIOUS
  <2>a. a \in T
    BY <1>1, <1>3, <2>1, PlaceIn
  <2>2. a \in Nat
    BY <1>1, <1>3, <2>a
  <2>3. f[i] = Finding("ALTERED", "commit", a, "seller")
    BY <1>4, <2>1
  <2> QED
    BY <2>2, <2>3, FindingIs
<1>7. Findings(f) /\ (f = <<>> => T = {})
  BY <1>1, <1>3, <1>5, <1>6, EachFound
<1>8. \A x : x \in held <=> \E j \in 1..Len(M) : M[j].body.shared.md = x
  BY <1>1, <1>2 DEF ToSet
<1>9. ASSUME T = {}, M # <<>>, NEW k \in 1..Len(C)
      PROVE  \E j \in 1..Len(M) : M[j].body.shared.md = C[k].body.shared.md
  <2>1. 1 \in 1..Len(M)
    BY <1>1, <1>9
  <2>2. held # {}
    BY <1>8, <2>1
  <2>3. C[k].body.shared.md \in held
    BY <1>1, <1>2, <1>9, <2>2
  <2> QED
    BY <1>8, <2>3
<1> QED
  BY <1>2, <1>7, <1>9

\* A ledger that was read: its rows, and which of them are of the deal.
Side(t) == Listing(t.rows) /\ Len(t.rows) \in Nat /\ t.mine \subseteq 1..Len(t.rows)

\* _load_side has the rows of the file, and refuses what is not one party's own.
LEMMA LoadIs ==
  ASSUME TapeOK, NEW f \in Parties, NEW p, NEW t, t = LoadSide(f, TheDeal, p)
  PROVE  /\ Side(t)
         /\ ~t.refused => /\ harm[f] = "none" /\ Intact(tape[f]) /\ t.rows = tape[f]
                          /\ t.mine = {n \in 1..Len(tape[f]) : tape[f][n].body.deal = TheDeal}
                          /\ \A n \in t.mine : tape[f][n].body.step \in StepNames /\ tape[f][n].body.party = p
<1>1. PICK rows : rows = tape[f]
  OBVIOUS
<1>2. Listing(rows) /\ DOMAIN rows = 1..Len(rows) /\ Len(rows) \in Nat
  BY <1>1, ListDomain DEF TapeOK
<1>3. PICK broken, alien, refused :
         /\ broken = (harm[f] = "scrap" \/ ~Intact(tape[f]))
         /\ alien = (\E n \in DOMAIN tape[f] : LET b == tape[f][n].body
                                              IN  /\ b.deal = TheDeal
                                                  /\ b.step \notin StepNames \/ b.party # p)
         /\ refused = (harm[f] # "none" \/ broken \/ alien)
  OBVIOUS
<1>4. t = [file |-> f, side |-> p, refused |-> refused, broken |-> broken /\ harm[f] # "gone",
           rows |-> IF refused THEN <<>> ELSE tape[f],
           mine |-> IF refused THEN {} ELSE {n \in DOMAIN tape[f] : tape[f][n].body.deal = TheDeal}]
  BY <1>3 DEF LoadSide
<1>5. /\ t.refused = refused
      /\ t.rows = (IF refused THEN <<>> ELSE rows)
      /\ t.mine = (IF refused THEN {} ELSE {n \in DOMAIN rows : rows[n].body.deal = TheDeal})
  BY <1>1, <1>4
<1>6. CASE refused
  <2>1. t.rows = <<>> /\ t.mine = {}
    BY <1>5, <1>6
  <2> QED
    BY <1>5, <1>6, <2>1, NothingListed DEF Side
<1>7. CASE ~refused
  <2>1. t.rows = rows /\ t.mine = {n \in 1..Len(rows) : rows[n].body.deal = TheDeal}
    BY <1>2, <1>5, <1>7
  <2>2. harm[f] = "none" /\ Intact(tape[f]) /\ ~alien
    BY <1>3, <1>7
  <2>3. \A n \in 1..Len(rows) : rows[n].body.deal = TheDeal =>
          rows[n].body.step \in StepNames /\ rows[n].body.party = p
    BY <1>1, <1>2, <1>3, <2>2
  <2> QED
    BY <1>1, <1>2, <2>1, <2>2, <2>3 DEF Side
<1> QED
  BY <1>6, <1>7

\* The consistent rows are places of the file.
LEMMA ConsistentPlaces ==
  ASSUME NEW t, Side(t), NEW S, S \subseteq Consistent(t)
  PROVE  /\ Consistent(t) \subseteq t.mine /\ S \subseteq 1..Len(t.rows)
         /\ S \in SUBSET Nat /\ IsFiniteSet(S) /\ Cardinality(S) \in Nat
<1>1. Consistent(t) \subseteq t.mine
  BY DEF Consistent
<1>2. S \subseteq 1..Len(t.rows) /\ Len(t.rows) \in Nat
  BY <1>1 DEF Side
<1> QED
  BY <1>1, <1>2, PlacesFinite

\* _self_consistent finds nothing only where every digest is of its row.
LEMMA SelfFinds ==
  ASSUME NEW t, Side(t)
  PROVE  /\ Findings(SelfConsistent(t))
         /\ SelfConsistent(t) = <<>> => Consistent(t) = t.mine
<1>1. PICK T, f, m : T = t.mine \ Consistent(t) /\ f = SelfConsistent(t) /\ m = Len(t.rows)
  OBVIOUS
<1>2. m \in Nat /\ T \subseteq 1..m
  BY <1>1 DEF Side
<1>3. PICK bad : bad = InOrder(T)
  OBVIOUS
<1>4. f = [i \in DOMAIN bad |->
             Finding("ALTERED", t.rows[bad[i]].body.step,
                     1 + Cardinality({n \in Consistent(t) : n < bad[i] /\ t.rows[n].body.step = t.rows[bad[i]].body.step}),
                     t.side)]
  BY <1>1, <1>3 DEF SelfConsistent
<1>5. f = [i \in DOMAIN InOrder(T) |-> f[i]]
  BY <1>3, <1>4
<1>6. ASSUME NEW i \in DOMAIN InOrder(T) PROVE IsFinding(f[i])
  <2>1. PICK S, c : /\ S = {n \in Consistent(t) : n < bad[i] /\ t.rows[n].body.step = t.rows[bad[i]].body.step}
                    /\ c = Cardinality(S)
    OBVIOUS
  <2>2. S \subseteq Consistent(t)
    BY <2>1
  <2>3. c \in Nat
    BY <2>1, <2>2, ConsistentPlaces
  <2>4. f[i] = Finding("ALTERED", t.rows[bad[i]].body.step, 1 + c, t.side)
    BY <1>3, <1>4, <2>1
  <2>5. 1 + c \in Nat
    BY <2>3
  <2> QED
    BY <2>4, <2>5, FindingIs
<1>7. Findings(f) /\ (f = <<>> => T = {})
  BY <1>2, <1>5, <1>6, EachFound
<1>8. T = {} => Consistent(t) = t.mine
  BY <1>1 DEF Consistent
<1> QED
  BY <1>1, <1>7, <1>8

\* The rows of a step that are compared are the consistent ones of that step.
LEMMA ByIs ==
  ASSUME NEW t, Side(t), NEW step
  PROVE  /\ \A S : S = {n \in Consistent(t) : t.rows[n].body.step = step} => Selected(By(t, step), t.rows, S)
         /\ Listing(By(t, step))
         /\ By(t, step) # <<>> => \E n \in t.mine : t.rows[n].body.step = step
<1>1. PICK S, l : S = {n \in Consistent(t) : t.rows[n].body.step = step} /\ l = By(t, step)
  OBVIOUS
<1>2. S \subseteq Consistent(t)
  BY <1>1
<1>3. S \in SUBSET Nat /\ IsFiniteSet(S) /\ S \subseteq t.mine
  BY <1>2, ConsistentPlaces
<1>4. l = RowsAt(t.rows, S)
  BY <1>1 DEF By
<1>5. Selected(l, t.rows, S)
  BY <1>3, <1>4, RowsAtSelects
<1>6. l # <<>> => Len(l) # 0 /\ Len(l) \in Nat
  BY <1>5, ListDomain DEF Selected
<1>7. l # <<>> => \E n \in S : TRUE
  <2>1. ASSUME l # <<>> PROVE 1 \in 1..Len(l)
    BY <1>6, <2>1
  <2> QED
    BY <1>5, <2>1 DEF Selected
<1>8. Listing(l) /\ (l # <<>> => \E n \in t.mine : t.rows[n].body.step = step)
  BY <1>1, <1>3, <1>5, <1>7 DEF Selected
<1>9. \A Z : Z = {n \in Consistent(t) : t.rows[n].body.step = step} => Z = S
  BY <1>1
<1> QED
  BY <1>1, <1>5, <1>8, <1>9

\* A compared step without a finding is the same on both sides.
LEMMA StepFinds ==
  ASSUME NEW B, NEW S, Side(B), Side(S), NEW step
  PROVE  /\ Findings(InStep(B, S, step))
         /\ InStep(B, S, step) = <<>> /\ step \in Compared(B, S) =>
              /\ Len(By(B, step)) = Len(By(S, step))
              /\ \A k \in 1..Len(By(B, step)) : By(B, step)[k].body.digest = By(S, step)[k].body.digest
<1>1. PICK b, s : b = By(B, step) /\ s = By(S, step)
  OBVIOUS
<1>2. Listing(b) /\ Listing(s)
  BY <1>1, ByIs
<1>3. CASE step \in Compared(B, S)
  <2>1. InStep(B, S, step) = Compare(step, b, s)
    BY <1>1, <1>3 DEF InStep
  <2> QED
    BY <1>1, <1>2, <2>1, CompareFinds
<1>4. CASE step \notin Compared(B, S)
  BY <1>4, NoFindings DEF InStep
<1> QED
  BY <1>3, <1>4

\* _check_pin finds nothing only where the pinned row still has its chain.
LEMMA PinFinds ==
  ASSUME NEW t, Side(t), pin.rows \in Nat
  PROVE  /\ Findings(CheckPin(t))
         /\ CheckPin(t) = <<>> /\ ~t.refused => pin.rows <= Len(t.rows) /\ t.rows[pin.rows].chain = pin.chain
<1>1. PICK m, n : m = Len(t.rows) /\ n = pin.rows
  OBVIOUS
<1>2. m \in Nat /\ n \in Nat
  BY <1>1 DEF Side
<1>3. CASE t.refused
  BY <1>3, NoFindings DEF CheckPin
<1>4. CASE ~t.refused /\ m < n
  <2>1. CheckPin(t) = <<Finding("MISSING", "row", m + 1, t.side)>>
    BY <1>1, <1>2, <1>4 DEF CheckPin
  <2>2. m + 1 \in Nat
    BY <1>2
  <2> QED
    BY <2>1, <2>2, FindingIs, OneFinding
<1>5. CASE ~t.refused /\ m >= n /\ t.rows[n].chain # pin.chain
  <2>1. CheckPin(t) = <<Finding("ALTERED", "row", n, t.side)>>
    BY <1>1, <1>2, <1>5 DEF CheckPin
  <2> QED
    BY <1>2, <2>1, FindingIs, OneFinding
<1>6. CASE ~t.refused /\ m >= n /\ t.rows[n].chain = pin.chain
  <2>1. CheckPin(t) = <<>>
    BY <1>1, <1>2, <1>6 DEF CheckPin
  <2> QED
    BY <1>1, <1>2, <1>6, <2>1, NoFindings
<1> QED
  BY <1>2, <1>3, <1>4, <1>5, <1>6

\* The tape a pin was taken of is held against it.
LEMMA PinsFind ==
  ASSUME WroteOK, PinOK, NEW B, NEW S, Side(B), Side(S)
  PROVE  /\ Findings(CheckPins(B, S))
         /\ CheckPins(B, S) = <<>> /\ pin # NoPin =>
              /\ pin.of = "buyer" => CheckPin(B) = <<>>
              /\ pin.of = "seller" => CheckPin(S) = <<>>
<1>1. CASE pin = NoPin
  <2>a. pin.side \notin {"buyer", "seller"}
    BY <1>1, NullIsApart DEF NoPin, Parties
  <2>1. CheckPins(B, S) = <<>>
    BY <1>1, <2>a DEF CheckPins
  <2> QED
    BY <1>1, <2>1, NoFindings
<1>2. CASE pin # NoPin
  <2>1. pin.of \in Parties /\ pin.side \in {pin.of, Null} /\ pin.rows \in 1..Len(wrote[pin.of])
    BY <1>2 DEF PinOK
  <2>2. pin.rows \in Nat
    BY <2>1, ListDomain DEF WroteOK
  <2>3. Findings(CheckPin(B)) /\ Findings(CheckPin(S))
    BY <2>2, PinFinds
  <2>4. PICK b, s : b = CheckPin(B) /\ s = CheckPin(S)
    OBVIOUS
  <2>5. Findings(b \o s) /\ (b \o s = <<>> => b = <<>> /\ s = <<>>)
    BY <2>3, <2>4, Joined
  <2>6. pin.side \in {"buyer", "seller"} => pin.side = pin.of
    BY <2>1, NullIsApart DEF Parties
  <2>7. CASE pin.side = "buyer"
    BY <1>2, <2>3, <2>6, <2>7 DEF CheckPins
  <2>8. CASE pin.side = "seller"
    BY <1>2, <2>3, <2>6, <2>8 DEF CheckPins
  <2>9. CASE pin.side \notin {"buyer", "seller"}
    <3>1. CheckPins(B, S) = b \o s
      BY <1>2, <2>4, <2>9 DEF CheckPins
    <3> QED
      BY <2>4, <2>5, <3>1
  <2> QED
    BY <2>7, <2>8, <2>9
<1> QED
  BY <1>1, <1>2

\* dispute finds nothing only where each of its checks finds nothing.
LEMMA FoundIs ==
  ASSUME WroteOK, PinOK, NEW B, NEW S, Side(B), Side(S)
  PROVE  /\ Findings(Found(B, S))
         /\ Found(B, S) = <<>> =>
              /\ SelfConsistent(B) = <<>> /\ SelfConsistent(S) = <<>> /\ CheckPins(B, S) = <<>>
              /\ Readable(B, S) => /\ \A step \in BothSides \cup Mirrored : InStep(B, S, step) = <<>>
                                   /\ CitesHeld(By(B, "mandate"), By(S, "commit")) = <<>>
<1>1. PICK a, b, p, c1, c2, c3, c4, c5, h :
        /\ a = SelfConsistent(B) /\ b = SelfConsistent(S) /\ p = CheckPins(B, S)
        /\ c1 = InStep(B, S, "commit") /\ c2 = InStep(B, S, "pay") /\ c3 = InStep(B, S, "ship")
        /\ c4 = InStep(B, S, "deliver") /\ c5 = InStep(B, S, "cancel")
        /\ h = CitesHeld(By(B, "mandate"), By(S, "commit"))
  OBVIOUS
<1>2. Findings(a) /\ Findings(b) /\ Findings(p)
  BY <1>1, SelfFinds, PinsFind
<1>3. Findings(c1) /\ Findings(c2) /\ Findings(c3) /\ Findings(c4) /\ Findings(c5)
  BY <1>1, StepFinds
<1>4. Findings(h)
  <2>1. Listing(By(B, "mandate")) /\ Listing(By(S, "commit"))
    BY ByIs
  <2> QED
    BY <1>1, <2>1, CitesFind
<1>5. PICK q : q = c1 \o c2 \o c3 \o c4 \o c5 \o h
  OBVIOUS
<1>6. Findings(q) /\ (q = <<>> => c1 = <<>> /\ c2 = <<>> /\ c3 = <<>> /\ c4 = <<>> /\ c5 = <<>> /\ h = <<>>)
  <2>1. PICK q2 : q2 = c1 \o c2
    OBVIOUS
  <2>2. Findings(q2) /\ (q2 = <<>> => c1 = <<>> /\ c2 = <<>>)
    BY <1>3, <2>1, Joined
  <2>3. PICK q3 : q3 = q2 \o c3
    OBVIOUS
  <2>4. Findings(q3) /\ (q3 = <<>> => q2 = <<>> /\ c3 = <<>>)
    BY <1>3, <2>2, <2>3, Joined
  <2>5. PICK q4 : q4 = q3 \o c4
    OBVIOUS
  <2>6. Findings(q4) /\ (q4 = <<>> => q3 = <<>> /\ c4 = <<>>)
    BY <1>3, <2>4, <2>5, Joined
  <2>7. PICK q5 : q5 = q4 \o c5
    OBVIOUS
  <2>8. Findings(q5) /\ (q5 = <<>> => q4 = <<>> /\ c5 = <<>>)
    BY <1>3, <2>6, <2>7, Joined
  <2>9. q = q5 \o h
    BY <1>5, <2>1, <2>3, <2>5, <2>7, Zenon
  <2>10. Findings(q) /\ (q = <<>> => q5 = <<>> /\ h = <<>>)
    BY <1>4, <2>8, <2>9, Joined
  <2> QED
    BY <2>2, <2>4, <2>6, <2>8, <2>10
<1>7. PICK r : r = IF Readable(B, S) THEN q ELSE <<>>
  OBVIOUS
<1>8. Findings(r)
  BY <1>6, <1>7, NoFindings
<1>9. Found(B, S) = a \o b \o r \o p
  BY <1>1, <1>5, <1>7, Zenon DEF Found
<1>10. PICK s2 : s2 = a \o b
  OBVIOUS
<1>11. Findings(s2) /\ (s2 = <<>> => a = <<>> /\ b = <<>>)
  BY <1>2, <1>10, Joined
<1>12. PICK s3 : s3 = s2 \o r
  OBVIOUS
<1>13. Findings(s3) /\ (s3 = <<>> => s2 = <<>> /\ r = <<>>)
  BY <1>8, <1>11, <1>12, Joined
<1>14. Found(B, S) = s3 \o p
  BY <1>9, <1>10, <1>12, Zenon
<1>15. Findings(s3 \o p) /\ (s3 \o p = <<>> => s3 = <<>> /\ p = <<>>)
  BY <1>2, <1>13, Joined
<1>16. BothSides \cup Mirrored = {"commit", "pay", "ship", "deliver", "cancel"}
  BY DEF BothSides, Mirrored
<1>17. Found(B, S) = <<>> => a = <<>> /\ b = <<>> /\ p = <<>> /\ r = <<>>
  BY <1>11, <1>13, <1>14, <1>15
<1>18. ASSUME q = <<>> PROVE \A step \in BothSides \cup Mirrored : InStep(B, S, step) = <<>>
  BY <1>1, <1>6, <1>16, <1>18
<1> QED
  BY <1>1, <1>6, <1>7, <1>14, <1>15, <1>17, <1>18

\* A row both ledgers begin with is of no deal and of no step.
LEMMA FirstRowIs ==
  ASSUME NEW l \in Lanes, NEW b, FirstRow(l, b)
  PROVE  b.deal \notin l.ids \cup {TheDeal} /\ b.step \notin StepNames /\ b.note = Null
<1>1. PICK n \in 1..Len(l.first) : b = l.first[n]
  BY DEF FirstRow
<1>2. Listing(l.first)
  BY FirstRowsAreOthers DEF Listing
<1>3. b \in ToSet(l.first)
  BY <1>1, <1>2, ListDomain DEF ToSet
<1> QED
  BY <1>3, FirstRowsAreOthers

\* A file that holds rows of the deal one party wrote is that party's own.
LEMMA OwnFile ==
  ASSUME WroteOK, TapeOK, NEW f \in Parties, NEW p, NEW t, t = LoadSide(f, TheDeal, p),
         ~t.refused, NEW n \in t.mine
  PROVE  f = p
<1>1. /\ t.mine = {k \in 1..Len(tape[f]) : tape[f][k].body.deal = TheDeal}
      /\ tape[f][n].body.step \in StepNames /\ tape[f][n].body.party = p
  BY LoadIs
<1>2. PICK b, o, m : b = tape[f][n].body /\ o = wrote[f][n].body /\ m = Len(wrote[f])
  OBVIOUS
<1>3. n \in 1..Len(tape[f]) /\ b.deal = TheDeal /\ b.step \in StepNames /\ b.party = p
  BY <1>1, <1>2
<1>4. Version(b, o)
  BY <1>2, <1>3 DEF TapeOK
<1>5. n \in 1..m
  <2>1. Len(tape[f]) \in Nat /\ m \in Nat /\ Len(tape[f]) <= m
    BY <1>2, ListDomain DEF TapeOK, WroteOK
  <2> QED
    BY <1>3, <2>1
<1>6. Written(lane, f, o) /\ lane \in Lanes
  BY <1>2, <1>5 DEF WroteOK
<1>7. o.deal = TheDeal /\ o.step \in StepNames /\ o.party = p
  BY <1>3, <1>4 DEF Version
<1>8. ~FirstRow(lane, o)
  BY <1>6, <1>7, FirstRowIs
<1>9. DealRow(f, o)
  BY <1>6, <1>7, <1>8, StepNamesAre DEF Written, ProposeRow, AcceptRow
<1> QED
  BY <1>7, <1>9 DEF DealRow

\* Of a consistent side that is a party's own, what is compared is what it says.
LEMMA ByIsOfStep ==
  ASSUME TapeOK, NEW p \in Parties, NEW t, t = LoadSide(p, TheDeal, p), ~t.refused,
         Consistent(t) = t.mine, NEW step
  PROVE  LET l == OfStep(tape[p], TheDeal, step)
         IN  /\ By(t, step) = l
             /\ \A k \in 1..Len(l) : l[k].body.digest = l[k].body.shared
<1>1. PICK rows, S : rows = tape[p] /\ S = {n \in Consistent(t) : t.rows[n].body.step = step}
  OBVIOUS
<1>2. Listing(rows) /\ DOMAIN rows = 1..Len(rows)
  BY <1>1, ListDomain DEF TapeOK
<1>3. t.rows = rows /\ t.mine = {n \in 1..Len(rows) : rows[n].body.deal = TheDeal} /\ Side(t)
  BY <1>1, LoadIs
<1>4. S = {n \in DOMAIN rows : rows[n].body.deal = TheDeal /\ rows[n].body.step = step}
  BY <1>1, <1>2, <1>3
<1>5. By(t, step) = OfStep(rows, TheDeal, step)
  BY <1>1, <1>3, <1>4 DEF By, OfStep
<1>6. PICK l : l = By(t, step)
  OBVIOUS
<1>a. Selected(By(t, step), t.rows, S)
  BY <1>1, <1>3, ByIs
<1>7. Selected(l, rows, S)
  BY <1>a, <1>3, <1>6
<1>8. \A n \in S : rows[n].body.digest = rows[n].body.shared
  BY <1>1, <1>3 DEF Consistent
<1>9. \A k \in 1..Len(l) : l[k].body.digest = l[k].body.shared
  BY <1>7, <1>8 DEF Selected
<1> QED
  BY <1>1, <1>5, <1>6, <1>9

\* What a party says of a step is what its rows of that step say.
LEMMA SaysIs ==
  ASSUME TapeOK, NEW p \in Parties, NEW step
  PROVE  LET l == OfStep(tape[p], TheDeal, step)
         IN  /\ Listing(l) /\ Len(l) \in Nat
             /\ Says(p, step) = [k \in 1..Len(l) |-> l[k].body.shared]
             /\ l = <<>> <=> Says(p, step) = <<>>
<1>1. PICK l, s : l = OfStep(tape[p], TheDeal, step) /\ s = Says(p, step)
  OBVIOUS
<1>2. Listing(l) /\ Len(l) \in Nat /\ DOMAIN l = 1..Len(l)
  BY <1>1, StepRows, ListDomain DEF TapeOK, InStepOf
<1>3. s = [k \in 1..Len(l) |-> l[k].body.shared]
  BY <1>1, <1>2 DEF Says
<1>4. s = [k \in 1..Len(l) |-> s[k]]
  BY <1>3
<1>5. Listing(s) /\ Len(s) = Len(l)
  BY <1>2, <1>4, FunctionLists
<1>6. l = <<>> <=> s = <<>>
  BY <1>2, <1>5, ListDomain
<1> QED
  BY <1>1, <1>2, <1>3, <1>6

\* In an intact ledger the chain of a row is the beginning of the ledger's.
LEMMA PinnedPrefix ==
  ASSUME WroteOK, NEW rows, Listing(rows), Intact(rows), NEW n \in 1..Len(rows)
  PROVE  IsPrefix(rows[n].chain, ChainOf(rows))
<1>1. Spelled(rows)
  BY IntactIsSpelled
<1>2. PICK c, d, m : c = rows[n].chain /\ d = ChainOf(rows) /\ m = Len(rows)
  OBVIOUS
<1>3. Spells(c, rows, n) /\ Spells(d, rows, m)
  BY <1>1, <1>2, ChainSpells DEF Spelled
<1>4. m \in Nat /\ n \in 0..m /\ n \in Nat /\ n <= m
  BY <1>2, ListDomain
<1>5. Listing(c) /\ Len(c) = n /\ Listing(d) /\ Len(d) = m
  BY <1>3 DEF Spells
<1>6. \A k \in 1..n : c[k] = d[k]
  <2>1. \A k \in 1..n : k \in 1..m
    BY <1>4
  <2> QED
    BY <1>3, <2>1 DEF Spells
<1>7. PICK x, y : x = SubSeq(c, 1, n) /\ y = SubSeq(d, 1, n)
  OBVIOUS
<1>8. Listing(x) /\ Len(x) = n /\ \A k \in 1..n : x[k] = c[k]
  BY <1>4, <1>5, <1>7, FrontIs
<1>9. Listing(y) /\ Len(y) = n /\ \A k \in 1..n : y[k] = d[k]
  BY <1>4, <1>5, <1>7, FrontIs
<1>10. x = y
  BY <1>6, <1>8, <1>9, SameList
<1> QED
  BY <1>2, <1>4, <1>5, <1>7, <1>10 DEF IsPrefix

\* MATCHED is the verdict only of readable sides without a finding.
LEMMA MatchedFindsNothing ==
  ASSUME WroteOK, PinOK, TapeOK, NEW B, NEW S,
         B = LoadSide(given["buyer"], TheDeal, "buyer"), S = LoadSide(given["seller"], TheDeal, "seller"),
         Dispute = Matched
  PROVE  Found(B, S) = <<>> /\ ~B.refused /\ ~S.refused /\ Compared(B, S) # {}
<1>1. PICK found : found = Found(B, S)
  OBVIOUS
<1>2. Side(B) /\ Side(S)
  BY LoadIs DEF TapeOK, Parties
<1>3. Findings(found)
  BY <1>1, <1>2, FoundIs
<1>4. Dispute = CASE found # <<>> -> Headline(found)
                  [] found = <<>> /\ (~Readable(B, S) \/ Compared(B, S) = {}) -> CouldNotLook
                  [] OTHER -> Matched
  BY <1>1 DEF Dispute
<1>5. Matched.verdict = "MATCHED" /\ CouldNotLook.verdict = "COULD_NOT_LOOK"
  BY DEF Matched, CouldNotLook, Finding
<1>6. ASSUME found # <<>> PROVE FALSE
  <2>1. Dispute = Headline(found)
    BY <1>4, <1>6
  <2>2. IsFinding(Dispute)
    BY <1>3, <1>6, <2>1, HeadlineIs
  <2> QED
    BY <1>5, <2>2 DEF IsFinding
<1>7. ASSUME found = <<>>, ~Readable(B, S) \/ Compared(B, S) = {} PROVE FALSE
  <2>1. Dispute = CouldNotLook
    BY <1>4, <1>7
  <2> QED
    BY <1>5, <2>1
<1> QED
  BY <1>1, <1>6, <1>7 DEF Readable

\* Of tapes that hold versions of what was written, DisputeIsTrue.
LEMMA DisputeHolds == ASSUME WroteOK, TapeOK, PinOK PROVE DisputeIsTrue
<1> SUFFICES ASSUME Dispute = Matched
             PROVE  /\ given = [p \in Parties |-> p]
                    /\ \A p \in Parties : harm[p] = "none" /\ Intact(tape[p])
                    /\ \A step \in BothSides : Says("buyer", step) = Says("seller", step)
                    /\ \A step \in Mirrored : \/ Says("buyer", step) = Says("seller", step)
                                              \/ <<>> \in {Says("buyer", step), Says("seller", step)}
                    /\ Says("buyer", "mandate") # <<>> =>
                         \A s \in ToSet(Says("seller", "commit")) :
                           \E m \in ToSet(Says("buyer", "mandate")) : m.md = s.md
                    /\ pin # NoPin => IsPrefix(pin.chain, ChainOf(tape[pin.of]))
  BY DEF DisputeIsTrue
<1>1. PICK B, S : B = LoadSide(given["buyer"], TheDeal, "buyer") /\ S = LoadSide(given["seller"], TheDeal, "seller")
  OBVIOUS
<1>2. Found(B, S) = <<>> /\ ~B.refused /\ ~S.refused /\ Compared(B, S) # {}
  BY <1>1, MatchedFindsNothing
<1>p. "buyer" \in Parties /\ "seller" \in Parties /\ \A p \in Parties : p = "buyer" \/ p = "seller"
  BY DEF Parties
<1>g. given["buyer"] \in Parties /\ given["seller"] \in Parties /\ OnParties(given)
  BY <1>p DEF TapeOK
<1>3. Side(B) /\ Side(S)
  BY <1>1, <1>g, LoadIs
<1>4. /\ SelfConsistent(B) = <<>> /\ SelfConsistent(S) = <<>> /\ CheckPins(B, S) = <<>>
      /\ \A step \in BothSides \cup Mirrored : InStep(B, S, step) = <<>>
      /\ CitesHeld(By(B, "mandate"), By(S, "commit")) = <<>>
  BY <1>2, <1>3, FoundIs DEF Readable
<1>5. Consistent(B) = B.mine /\ Consistent(S) = S.mine
  BY <1>3, <1>4, SelfFinds
<1>6. \A step : Listing(By(B, step)) /\ Listing(By(S, step))
  BY <1>3, ByIs
<1>7. PICK step0 \in Compared(B, S) : TRUE
  BY <1>2
<1>8. By(B, step0) # <<>> /\ By(S, step0) # <<>>
  <2>1. step0 \in BothSides \cup Mirrored
    BY <1>7 DEF Compared
  <2>2. Len(By(B, step0)) = Len(By(S, step0))
    BY <1>3, <1>4, <1>7, <2>1, StepFinds
  <2>3. By(B, step0) = <<>> <=> By(S, step0) = <<>>
    BY <1>6, <2>2, ListDomain
  <2> QED
    BY <1>7, <2>3 DEF Compared
<1>9. (\E n \in B.mine : TRUE) /\ (\E n \in S.mine : TRUE)
  BY <1>3, <1>8, ByIs
<1>10. given["buyer"] = "buyer" /\ given["seller"] = "seller"
  BY <1>1, <1>2, <1>9, <1>g, OwnFile
<1>11. given = [p \in Parties |-> p]
  <2>1. \A p \in Parties : given[p] = p
    BY <1>p, <1>10
  <2> QED
    BY <1>g, <2>1 DEF OnParties
<1>b. B = LoadSide("buyer", TheDeal, "buyer") /\ S = LoadSide("seller", TheDeal, "seller")
  BY <1>1, <1>10
<1>12. /\ harm["buyer"] = "none" /\ Intact(tape["buyer"]) /\ B.rows = tape["buyer"]
       /\ harm["seller"] = "none" /\ Intact(tape["seller"]) /\ S.rows = tape["seller"]
  BY <1>2, <1>b, <1>p, LoadIs
<1>13. ASSUME NEW step
       PROVE  /\ By(B, step) = OfStep(tape["buyer"], TheDeal, step)
              /\ By(S, step) = OfStep(tape["seller"], TheDeal, step)
              /\ \A k \in 1..Len(By(B, step)) : By(B, step)[k].body.digest = By(B, step)[k].body.shared
              /\ \A k \in 1..Len(By(S, step)) : By(S, step)[k].body.digest = By(S, step)[k].body.shared
  BY <1>2, <1>5, <1>b, <1>p, ByIsOfStep
<1>14. ASSUME NEW step
       PROVE  /\ Says("buyer", step) = [k \in 1..Len(By(B, step)) |-> By(B, step)[k].body.shared]
              /\ Says("seller", step) = [k \in 1..Len(By(S, step)) |-> By(S, step)[k].body.shared]
              /\ By(B, step) = <<>> <=> Says("buyer", step) = <<>>
              /\ By(S, step) = <<>> <=> Says("seller", step) = <<>>
  BY <1>13, <1>p, SaysIs
<1>15. ASSUME NEW step \in Compared(B, S) PROVE Says("buyer", step) = Says("seller", step)
  <2>1. PICK b, s, n : b = By(B, step) /\ s = By(S, step) /\ n = Len(b)
    OBVIOUS
  <2>2. step \in BothSides \cup Mirrored
    BY DEF Compared
  <2>3. Len(s) = n /\ \A k \in 1..n : b[k].body.digest = s[k].body.digest
    BY <1>3, <1>4, <2>1, <2>2, StepFinds
  <2>4. \A k \in 1..n : b[k].body.shared = s[k].body.shared
    <3> SUFFICES ASSUME NEW k \in 1..n PROVE b[k].body.shared = s[k].body.shared
      OBVIOUS
    <3>1. b[k].body.digest = b[k].body.shared /\ s[k].body.digest = s[k].body.shared
      BY <1>13, <2>1, <2>3
    <3> QED
      BY <2>3, <3>1
  <2>5. Says("buyer", step) = [k \in 1..n |-> b[k].body.shared] /\ Says("seller", step) = [k \in 1..n |-> s[k].body.shared]
    BY <1>14, <2>1, <2>3
  <2> QED
    BY <2>4, <2>5
<1>16. ASSUME NEW step \in BothSides PROVE Says("buyer", step) = Says("seller", step)
  <2>1. CASE step \in Compared(B, S)
    BY <1>15, <2>1
  <2>2. CASE step \notin Compared(B, S)
    BY <1>14, <2>2 DEF Compared
  <2> QED
    BY <2>1, <2>2
<1>17. ASSUME NEW step \in Mirrored
       PROVE  Says("buyer", step) = Says("seller", step) \/ <<>> \in {Says("buyer", step), Says("seller", step)}
  <2>1. CASE step \in Compared(B, S)
    BY <1>15, <2>1
  <2>2. CASE step \notin Compared(B, S)
    BY <1>14, <2>2 DEF Compared
  <2> QED
    BY <2>1, <2>2
<1>18. ASSUME Says("buyer", "mandate") # <<>>, NEW s \in ToSet(Says("seller", "commit"))
       PROVE  \E m \in ToSet(Says("buyer", "mandate")) : m.md = s.md
  <2>1. PICK M, C : M = By(B, "mandate") /\ C = By(S, "commit")
    OBVIOUS
  <2>2. M # <<>>
    BY <1>14, <1>18, <2>1
  <2>3. \A k \in 1..Len(C) : \E j \in 1..Len(M) : M[j].body.shared.md = C[k].body.shared.md
    BY <1>4, <1>6, <2>1, <2>2, CitesFind
  <2>4. Says("seller", "commit") = [k \in 1..Len(C) |-> C[k].body.shared]
    BY <1>14, <2>1
  <2>5. Says("buyer", "mandate") = [k \in 1..Len(M) |-> M[k].body.shared]
    BY <1>14, <2>1
  <2>6. PICK k \in 1..Len(C) : s = C[k].body.shared
    BY <1>18, <2>4 DEF ToSet
  <2>7. PICK j \in 1..Len(M) : M[j].body.shared.md = s.md
    BY <2>3, <2>6
  <2>8. M[j].body.shared \in ToSet(Says("buyer", "mandate"))
    BY <2>5, <2>7 DEF ToSet
  <2> QED
    BY <2>7, <2>8
<1>19. ASSUME pin # NoPin PROVE IsPrefix(pin.chain, ChainOf(tape[pin.of]))
  <2>1. pin.of \in Parties /\ pin.rows \in 1..Len(wrote[pin.of])
    BY <1>19 DEF PinOK
  <2>2. pin.rows \in Nat /\ pin.rows >= 1
    BY <2>1, ListDomain DEF WroteOK
  <2>3. PICK rows : rows = tape[pin.of]
    OBVIOUS
  <2>4. pin.rows <= Len(rows) /\ rows[pin.rows].chain = pin.chain
    <3>1. CASE pin.of = "buyer"
      <4>1. CheckPin(B) = <<>>
        BY <1>3, <1>4, <1>19, <3>1, PinsFind
      <4> QED
        BY <1>2, <1>3, <1>12, <2>2, <2>3, <3>1, <4>1, PinFinds
    <3>2. CASE pin.of = "seller"
      <4>1. CheckPin(S) = <<>>
        BY <1>3, <1>4, <1>19, <3>2, PinsFind
      <4> QED
        BY <1>2, <1>3, <1>12, <2>2, <2>3, <3>2, <4>1, PinFinds
    <3> QED
      BY <2>1, <3>1, <3>2 DEF Parties
  <2>5. Listing(rows) /\ Len(rows) \in Nat
    BY <2>1, <2>3, ListDomain DEF TapeOK
  <2>6. Intact(rows)
    BY <1>12, <2>1, <2>3 DEF Parties
  <2>7. pin.rows \in 1..Len(rows)
    BY <2>2, <2>4, <2>5
  <2> QED
    BY <2>3, <2>4, <2>5, <2>6, <2>7, PinnedPrefix
<1>20. \A p \in Parties : harm[p] = "none" /\ Intact(tape[p])
  BY <1>12 DEF Parties
<1> QED
  BY <1>11, <1>16, <1>17, <1>18, <1>19, <1>20

(***************************************************************************)
(* The offers.                                                             *)
(***************************************************************************)
Longer(V, W) == \A p \in Parties : \A n \in 1..Len(V[p]) : n \in 1..Len(W[p]) /\ W[p][n] = V[p][n]

\* What was written stays at its place.
LEMMA GrownIsLonger == ASSUME Grown PROVE Longer(wrote, wrote') /\ lane' = lane
BY DEF Grown, Longer

\* What is known of a proposal, an offer and an acceptance stays known.
LEMMA OffersGrow ==
  ASSUME NEW l, NEW V, NEW W, Longer(V, W)
  PROVE  /\ \A p \in Parties : \A n : Proposed(l, V, p, n) => Proposed(l, W, p, n) /\ W[p][n] = V[p][n]
         /\ \A o : Offered(l, V, o) => Offered(l, W, o)
         /\ \A a : Accepts(V, a) => Accepts(W, a)
<1>1. ASSUME NEW p \in Parties, NEW n, Proposed(l, V, p, n) PROVE Proposed(l, W, p, n) /\ W[p][n] = V[p][n]
  BY <1>1 DEF Proposed, Longer
<1>2. ASSUME NEW c, OfProposal(l, V, c) PROVE OfProposal(l, W, c)
  <2>1. PICK p \in Parties : \E n \in 1..Len(V[p]) : Proposed(l, V, p, n) /\ V[p][n].chain = c
    BY <1>2 DEF OfProposal
  <2>2. PICK n \in 1..Len(V[p]) : Proposed(l, V, p, n) /\ V[p][n].chain = c
    BY <2>1
  <2>3. n \in 1..Len(W[p]) /\ Proposed(l, W, p, n) /\ W[p][n].chain = c
    BY <1>1, <2>2 DEF Longer
  <2> QED
    BY <2>3 DEF OfProposal
<1>3. ASSUME NEW a, Accepts(V, a) PROVE Accepts(W, a)
  BY <1>3 DEF Accepts, Longer
<1> QED
  BY <1>1, <1>2, <1>3 DEF Offered

\* A proposal on a ledger is one its own party wrote.
LEMMA ProposedIs ==
  ASSUME WroteOK, NEW p \in Parties, NEW n, Proposed(lane, wrote, p, n)
  PROVE  LET b == wrote[p][n].body
         IN  ProposeRow(lane, p, b) /\ Shaped(b.shared) /\ b.shared.md = Null /\ b.digest = b.shared /\ b.deal \in lane.ids
<1>1. PICK b : b = wrote[p][n].body
  OBVIOUS
<1>2. Written(lane, p, b) /\ lane \in Lanes /\ b.step = "propose" /\ b.deal \in lane.ids
  BY <1>1 DEF WroteOK, Proposed
<1>3. ~FirstRow(lane, b)
  BY <1>2, FirstRowIs
<1>4. ProposeRow(lane, p, b)
  BY <1>2, <1>3, StepNamesAre DEF Written, DealRow, AcceptRow
<1>5. b.shared.md = Null
  BY <1>4 DEF ProposeRow, Proposal, Shared
<1> QED
  BY <1>1, <1>2, <1>4, <1>5 DEF Written, Plain

ProposingIs(l, W, p, o) ==
  o # Null => \E n \in 1..Len(W[p]) :
                /\ Proposed(l, W, p, n)
                /\ o = [id |-> W[p][n].body.deal, shared |-> W[p][n].body.shared, chain |-> W[p][n].chain]

\* What waits to be handed over stays a proposal that was written.
LEMMA ProposingGrows ==
  ASSUME NEW l, NEW V, NEW W, Longer(V, W), NEW p \in Parties, NEW o, ProposingIs(l, V, p, o)
  PROVE  ProposingIs(l, W, p, o)
<1>1. ASSUME o # Null PROVE ProposingIs(l, W, p, o)
  <2>1. PICK n \in 1..Len(V[p]) :
           /\ Proposed(l, V, p, n)
           /\ o = [id |-> V[p][n].body.deal, shared |-> V[p][n].body.shared, chain |-> V[p][n].chain]
    BY <1>1 DEF ProposingIs
  <2>2. n \in 1..Len(W[p]) /\ Proposed(l, W, p, n) /\ W[p][n] = V[p][n]
    BY <2>1, OffersGrow DEF Longer
  <2> QED
    BY <2>1, <2>2 DEF ProposingIs
<1> QED
  BY <1>1 DEF ProposingIs

\* ProposingOK holds on where a new proposal was just written.
LEMMA ProposingKept ==
  ASSUME Grown, ProposingOK, OnParties(proposing'),
         \A q \in Parties : proposing'[q] = proposing[q] \/ ProposingIs(lane, wrote', q, proposing'[q])
  PROVE  ProposingOK'
<1>1. PICK l, V, W, P : l = lane /\ V = wrote /\ W = wrote' /\ P = proposing'
  OBVIOUS
<1>2. Longer(V, W) /\ lane' = l
  BY <1>1, GrownIsLonger
<1>3. \A q \in Parties : ProposingIs(l, V, q, proposing[q])
  BY <1>1 DEF ProposingOK, ProposingIs
<1>4. \A q \in Parties : ProposingIs(l, W, q, P[q])
  BY <1>1, <1>2, <1>3, ProposingGrows
<1> QED
  BY <1>1, <1>2, <1>4 DEF ProposingOK, ProposingIs

\* Every step keeps ProposingOK.
LEMMA ProposingStep ==
  ASSUME WroteOK, TapeOK, OffersOK, Listing(mishaps), ProposingOK, [Next]_vars
  PROVE  ProposingOK'
<1>0. Grown /\ WroteOK' /\ OnParties(proposing)
  BY WroteStep DEF ProposingOK
<1>1. CASE proposing' = proposing
  BY <1>0, <1>1, ProposingKept
<1>2. ASSUME NEW p \in Parties, proposing' = [proposing EXCEPT ![p] = Null] PROVE ProposingOK'
  <2>1. OnParties(proposing')
    BY <1>0, <1>2 DEF OnParties
  <2>2. \A q \in Parties : proposing'[q] = proposing[q] \/ proposing'[q] = Null
    BY <1>0, <1>2 DEF OnParties
  <2>3. \A q \in Parties : ProposingIs(lane, wrote', q, Null)
    BY DEF ProposingIs
  <2> QED
    BY <1>0, <2>1, <2>2, <2>3, ProposingKept
<1>3. ASSUME NEW p \in Parties, NEW h \in lane.ids, NEW x \in lane.details, Propose(p, h, x) PROVE ProposingOK'
  <2>1. PICK b, o, W : /\ b = ProposeBody(p, h, x) /\ W = wrote'
                       /\ o = [id |-> h, shared |-> Proposal(h, p, x), chain |-> ChainOf(tape'[p])]
    OBVIOUS
  <2>2. proposing' = [proposing EXCEPT ![p] = o]
    BY <1>3, <2>1 DEF Propose
  <2>3. Appends(p, b)
    BY <1>3, <2>1, ProposeMoves
  <2>4. PICK n : n = Len(wrote[p]) + 1
    OBVIOUS
  <2>5. /\ tape' = W /\ Listing(W[p]) /\ Len(W[p]) = n /\ n \in 1..Len(W[p]) /\ W[p][n].body = b
    <3>1. Follows(W[p], wrote[p], RowAfter(wrote[p], b)) /\ tape' = W
      BY <2>1, <2>3 DEF Appends
    <3>2. RowAfter(wrote[p], b).body = b
      BY DEF RowAfter
    <3> QED
      BY <2>4, <3>1, <3>2 DEF Follows
  <2>6. ChainOf(tape'[p]) = W[p][n].chain
    <3>1. Len(W[p]) # 0 /\ n = Len(W[p])
      BY <2>5
    <3>2. ChainOf(W[p]) = W[p][Len(W[p])].chain
      BY <2>5, <3>1, ChainOfIs
    <3> QED
      BY <2>5, <3>1, <3>2
  <2>7. b.deal = h /\ b.step = "propose" /\ b.shared = Proposal(h, p, x)
    BY <2>1 DEF ProposeBody, Body
  <2>8. Proposed(lane, W, p, n)
    BY <2>5, <2>7 DEF Proposed
  <2>9. ProposingIs(lane, W, p, o)
    BY <2>1, <2>5, <2>6, <2>7, <2>8 DEF ProposingIs
  <2>10. OnParties(proposing') /\ \A q \in Parties : proposing'[q] = proposing[q] \/ (q = p /\ proposing'[q] = o)
    BY <1>0, <2>2 DEF OnParties
  <2> QED
    BY <1>0, <2>1, <2>9, <2>10, ProposingKept
<1>4. \/ proposing' = proposing
      \/ \E p \in Parties : proposing' = [proposing EXCEPT ![p] = Null]
      \/ \E p \in Parties : \E h \in lane.ids, x \in lane.details : Propose(p, h, x)
  <2>1. CASE DealSteps
    BY <2>1 DEF DealSteps, Aside, Recorded, Committing, Shipping
  <2>2. CASE Harming
    BY <2>2 DEF Harming, Aside
  <2>3. CASE \E p \in Parties : TakePin(p) /\ Aside
    BY <2>3 DEF Aside
  <2>4. CASE Handshakes
    BY <2>4 DEF Handshakes, HandOver, Drop, Accept, AlterOffer
  <2>5. CASE UNCHANGED vars
    BY <2>5 DEF vars
  <2> QED
    BY <2>1, <2>2, <2>3, <2>4, <2>5, NextIs DEF Steppings
<1> QED
  BY <1>1, <1>2, <1>3, <1>4

\* An offer that is altered on its way still cites the chain of some proposal.
LEMMA TwistIs ==
  ASSUME NEW o, Offer(o), NEW t \in Twisted(o)
  PROVE  /\ Offer(t) /\ t.id = o.id
         /\ t.shared = o.shared \/ t.shared \in Altered(o.shared)
         /\ t.chain = o.chain \/ \E q \in offers : t.chain = q.chain
<1>1. CASE t \in {Resaid(o, s, d) : s \in Altered(o.shared), d \in {o.digest, Null} \cup Altered(o.shared)}
  <2>1. PICK A, D : A = Altered(o.shared) /\ D = {o.digest, Null} \cup Altered(o.shared)
    OBVIOUS
  <2>2. PICK s \in A, d \in D : t = Resaid(o, s, d)
    BY <1>1, <2>1
  <2>3. t = [id |-> o.id, shared |-> s, digest |-> d, chain |-> o.chain, row |-> o.row, ledger |-> o.ledger]
    BY <2>2 DEF Resaid, Offer
  <2> QED
    BY <2>1, <2>3 DEF Offer
<1>2. CASE t \in {[o EXCEPT !.chain = q.chain] : q \in offers}
  <2>1. PICK q \in offers : t = [o EXCEPT !.chain = q.chain]
    BY <1>2
  <2>2. t = [id |-> o.id, shared |-> o.shared, digest |-> o.digest, chain |-> q.chain, row |-> o.row, ledger |-> o.ledger]
    BY <2>1 DEF Offer
  <2> QED
    BY <2>2 DEF Offer
<1>3. CASE t \in {[o EXCEPT !.ledger = q.ledger] : q \in offers}
  <2>1. PICK q \in offers : t = [o EXCEPT !.ledger = q.ledger]
    BY <1>3
  <2>2. t = [id |-> o.id, shared |-> o.shared, digest |-> o.digest, chain |-> o.chain, row |-> o.row, ledger |-> q.ledger]
    BY <2>1 DEF Offer
  <2> QED
    BY <2>2 DEF Offer
<1>4. CASE t \in {[o EXCEPT !.row = n] : n \in 0..lane.rows["buyer"]}
  <2>1. PICK n \in 0..lane.rows["buyer"] : t = [o EXCEPT !.row = n]
    BY <1>4
  <2>2. t = [id |-> o.id, shared |-> o.shared, digest |-> o.digest, chain |-> o.chain, row |-> n, ledger |-> o.ledger]
    BY <2>1 DEF Offer
  <2> QED
    BY <2>2 DEF Offer
<1> QED
  BY <1>1, <1>2, <1>3, <1>4 DEF Twisted

AcceptedAt(W, A, l) ==
  \A p \in Parties : \A n \in 1..Len(W[p]) :
    (W[p][n].body.step = "accept" /\ W[p][n].body.deal \in l.ids) => \E a \in A : a.by = p /\ a.row = n

\* OffersOK, by offers, acceptances and acceptance rows.
LEMMA OffersAre ==
  OffersOK <=> /\ \A o \in offers : Offered(lane, wrote, o)
               /\ \A a \in accepted : Accepts(wrote, a) /\ Offered(lane, wrote, a.offer)
               /\ AcceptedAt(wrote, accepted, lane)
BY DEF OffersOK, AcceptedAt

\* OffersOK holds on where what is new is an offer or its acceptance.
LEMMA OffersKept ==
  ASSUME Grown, OffersOK, AcceptedAt(wrote', accepted', lane),
         \A o \in offers' : o \in offers \/ Offered(lane, wrote', o),
         \A a \in accepted' : a \in accepted \/ (Accepts(wrote', a) /\ Offered(lane, wrote', a.offer))
  PROVE  OffersOK'
<1>1. PICK l, V, W, A, O : l = lane /\ V = wrote /\ W = wrote' /\ A = accepted' /\ O = offers'
  OBVIOUS
<1>2. Longer(V, W) /\ lane' = l
  BY <1>1, GrownIsLonger
<1>3. \A o \in offers : Offered(l, W, o)
  BY <1>1, <1>2, OffersGrow, OffersAre
<1>4. \A a \in accepted : Accepts(W, a) /\ Offered(l, W, a.offer)
  BY <1>1, <1>2, OffersGrow, OffersAre
<1>5. \A o \in O : Offered(l, W, o)
  BY <1>1, <1>3
<1>6. \A a \in A : Accepts(W, a) /\ Offered(l, W, a.offer)
  BY <1>1, <1>4
<1> QED
  BY <1>1, <1>2, <1>5, <1>6 DEF OffersOK, AcceptedAt

\* An appended row keeps every acceptance row accounted for.
LEMMA AppendAccepted ==
  ASSUME WroteOK, NEW p \in Parties, NEW b, Appends(p, b), AcceptedAt(wrote, accepted, lane), accepted \subseteq accepted',
         (b.step = "accept" /\ b.deal \in lane.ids) => \E a \in accepted' : a.by = p /\ a.row = Len(wrote[p]) + 1
  PROVE  AcceptedAt(wrote', accepted', lane)
<1>1. /\ Follows(wrote'[p], wrote[p], RowAfter(wrote[p], b)) /\ wrote'[Other(p)] = wrote[Other(p)]
  BY DEF Appends
<1>2. RowAfter(wrote[p], b).body = b
  BY DEF RowAfter
<1>3. \A q \in Parties : q = p \/ q = Other(p)
  BY DEF Parties, Other
<1>4. Other(p) \in Parties
  BY BothParties DEF PartiesAre
<1>5. \A n \in 1..Len(wrote'[p]) :
        \/ n \in 1..Len(wrote[p]) /\ wrote'[p][n] = wrote[p][n]
        \/ n = Len(wrote[p]) + 1 /\ wrote'[p][n].body = b
  BY <1>1, <1>2 DEF Follows
<1>6. ASSUME NEW q \in Parties, NEW n \in 1..Len(wrote'[q]), wrote'[q][n].body.step = "accept", wrote'[q][n].body.deal \in lane.ids
      PROVE  \E a \in accepted' : a.by = q /\ a.row = n
  <2>1. CASE q = p /\ n \in 1..Len(wrote[p]) /\ wrote'[p][n] = wrote[p][n]
    BY <1>6, <2>1 DEF AcceptedAt
  <2>2. CASE q = p /\ n = Len(wrote[p]) + 1 /\ wrote'[p][n].body = b
    BY <1>6, <2>2
  <2>3. CASE q = Other(p)
    BY <1>1, <1>4, <1>6, <2>3 DEF AcceptedAt
  <2> QED
    BY <1>3, <1>5, <1>6, <2>1, <2>2, <2>3
<1> QED
  BY <1>6 DEF AcceptedAt

\* What propose hands over is an offer of the proposal it wrote.
LEMMA HandedOver ==
  ASSUME WroteOK, ProposingOK, NEW p \in Parties, HandOver(p)
  PROVE  \E o : offers' = offers \cup {o} /\ Offered(lane, wrote, o)
<1>1. PICK c : c = proposing[p]
  OBVIOUS
<1>2. c # Null
  BY <1>1 DEF HandOver
<1>3. PICK n \in 1..Len(wrote[p]) :
         /\ Proposed(lane, wrote, p, n)
         /\ c = [id |-> wrote[p][n].body.deal, shared |-> wrote[p][n].body.shared, chain |-> wrote[p][n].chain]
  BY <1>1, <1>2 DEF ProposingOK
<1>4. PICK o : o = [id |-> c.id, shared |-> c.shared, digest |-> c.shared, chain |-> c.chain,
                    row |-> Position(tape[p], c.chain), ledger |-> tape[p][1].chain]
  OBVIOUS
<1>5. offers' = offers \cup {o}
  BY <1>1, <1>4 DEF HandOver
<1>6. o.id \in lane.ids /\ Shaped(o.shared) /\ o.shared.md = Null
  BY <1>3, <1>4, ProposedIs
<1>7. OfProposal(lane, wrote, o.chain)
  BY <1>3, <1>4 DEF OfProposal
<1>8. Offer(o)
  BY <1>4 DEF Offer
<1> QED
  BY <1>5, <1>6, <1>7, <1>8 DEF Offered

\* An altered offer is still an offer of some proposal.
LEMMA AlteredOffer ==
  ASSUME OffersOK, NEW o \in offers, NEW t \in Twisted(o)
  PROVE  Offered(lane, wrote, t)
<1>1. \A q \in offers : Offered(lane, wrote, q)
  BY DEF OffersOK
<1>2. Offer(t) /\ t.id = o.id /\ (t.shared = o.shared \/ t.shared \in Altered(o.shared))
      /\ (t.chain = o.chain \/ \E q \in offers : t.chain = q.chain)
  BY <1>1, TwistIs DEF Offered
<1>3. Shaped(o.shared) /\ o.shared.md = Null /\ o.id \in lane.ids
  BY <1>1 DEF Offered
<1>4. Shaped(t.shared)
  BY <1>2, <1>3, AlteredShaped
<1>5. t.shared.md = Null
  BY <1>2, <1>3 DEF Altered, Shaped, Shared
<1>6. OfProposal(lane, wrote, t.chain)
  BY <1>1, <1>2 DEF Offered
<1> QED
  BY <1>2, <1>3, <1>4, <1>5, <1>6 DEF Offered

\* accept writes the acceptance of the offer it got.
LEMMA AcceptsOffer ==
  ASSUME WroteOK, OffersOK, NEW p \in Parties, NEW o \in offers, Accept(p, o)
  PROVE  \E a : /\ accepted' = accepted \cup {a} /\ a = [by |-> p, row |-> Len(wrote[p]) + 1, offer |-> o]
                /\ Accepts(wrote', a) /\ Appends(p, AcceptBody(o)) /\ offers' = offers
<1>1. PICK b, W : b = AcceptBody(o) /\ W = wrote'
  OBVIOUS
<1>2. Offered(lane, wrote, o)
  BY DEF OffersOK
<1>3. Appends(p, b)
  BY <1>1, <1>2, AcceptMoves
<1>4. Follows(W[p], wrote[p], RowAfter(wrote[p], b)) /\ tape' = W
  BY <1>1, <1>3 DEF Appends
<1>5. RowAfter(wrote[p], b).body = b
  BY DEF RowAfter
<1>6. PICK n : n = Len(wrote[p]) + 1
  OBVIOUS
<1>7. Len(W[p]) = n /\ n \in 1..Len(W[p]) /\ W[p][n].body = b
  BY <1>4, <1>5, <1>6 DEF Follows
<1>8. PICK a : a = [by |-> p, row |-> n, offer |-> o]
  OBVIOUS
<1>9. accepted' = accepted \cup {a} /\ offers' = offers
  BY <1>4, <1>7, <1>8 DEF Accept
<1>10. Accepts(W, a)
  BY <1>1, <1>7, <1>8 DEF Accepts
<1> QED
  BY <1>1, <1>3, <1>6, <1>8, <1>9, <1>10

\* Every step keeps OffersOK.
LEMMA OffersStep ==
  ASSUME WroteOK, TapeOK, OffersOK, Listing(mishaps), ProposingOK, [Next]_vars
  PROVE  OffersOK'
<1>0. Grown /\ AcceptedAt(wrote, accepted, lane) /\ lane \in Lanes
  BY WroteStep, OffersAre DEF WroteOK
<1>1. ASSUME NEW p \in Parties, NEW b, Appends(p, b), b.step # "accept", UNCHANGED <<offers, accepted>>
      PROVE  OffersOK'
  BY <1>0, <1>1, AppendAccepted, OffersKept
<1>2. ASSUME wrote' = wrote, accepted' = accepted, \A o \in offers' : o \in offers \/ Offered(lane, wrote', o)
      PROVE  OffersOK'
  <2>1. AcceptedAt(wrote', accepted', lane)
    BY <1>0, <1>2
  <2> QED
    BY <1>0, <1>2, <2>1, OffersKept
<1>3. CASE DealSteps
  <2>0. UNCHANGED <<offers, accepted>>
    BY <1>3 DEF DealSteps, Aside, Recorded, Committing, Shipping
  <2>1. ASSUME NEW p \in Parties, Finish(p) PROVE OffersOK'
    <3>1. job[p] # Null /\ Write(p, job[p])
      BY <2>1 DEF Finish
    <3>2. job[p].step # "accept"
      BY <3>1, StepNamesAre DEF WroteOK, JobOK, DealRow
    <3> QED
      BY <1>1, <2>0, <3>1, <3>2, WriteAppends
  <2>2. ASSUME NEW p \in Parties, NEW step, NEW s, Recorded(p, step, s) PROVE OffersOK'
    <3>1. PICK b : b = Of(p, step, s, Null)
      OBVIOUS
    <3>2. Write(p, b) /\ b.step = step /\ step \in StepNames
      BY <2>2, <3>1 DEF Recorded, Of, Body
    <3>3. b.step # "accept"
      BY <3>2, StepNamesAre
    <3> QED
      BY <1>1, <2>0, <3>2, <3>3, WriteAppends
  <2>3. ASSUME wrote' = wrote PROVE OffersOK'
    BY <1>2, <2>0, <2>3
  <2>4. \/ \E p \in Parties : Finish(p)
        \/ \E p \in Parties : \E step, s : Recorded(p, step, s)
        \/ wrote' = wrote
    BY <1>3 DEF DealSteps, Die, Committing, Shipping, Prepare
  <2> QED
    BY <2>1, <2>2, <2>3, <2>4
<1>4. CASE Harming
  BY <1>2, <1>4, DamageMoves DEF Harming, Aside
<1>5. CASE \E p \in Parties : TakePin(p) /\ Aside
  BY <1>2, <1>5 DEF TakePin, Aside
<1>6. CASE UNCHANGED vars
  BY <1>2, <1>6 DEF vars, dealVars
<1>7. CASE Handshakes
  <2>1. ASSUME NEW p \in Parties, HandOver(p) PROVE OffersOK'
    <3>1. wrote' = wrote /\ accepted' = accepted
      BY <2>1 DEF HandOver, dealVars
    <3>2. \E o : offers' = offers \cup {o} /\ Offered(lane, wrote, o)
      BY <2>1, HandedOver
    <3>3. \A o \in offers' : o \in offers \/ Offered(lane, wrote', o)
      BY <3>1, <3>2
    <3> QED
      BY <1>2, <3>1, <3>3
  <2>2. ASSUME NEW p \in Parties, Drop(p) PROVE OffersOK'
    BY <1>2, <2>2 DEF Drop, dealVars
  <2>3. ASSUME NEW o \in offers, AlterOffer(o) PROVE OffersOK'
    <3>1. wrote' = wrote /\ accepted' = accepted /\ \E t \in Twisted(o) : offers' = offers \cup {t}
      BY <2>3 DEF AlterOffer
    <3>2. \A t \in offers' : t \in offers \/ Offered(lane, wrote', t)
      BY <3>1, AlteredOffer
    <3> QED
      BY <1>2, <3>1, <3>2
  <2>4. ASSUME NEW p \in Parties, NEW h \in lane.ids, NEW x \in lane.details, Propose(p, h, x) PROVE OffersOK'
    <3>1. PICK b : b = ProposeBody(p, h, x)
      OBVIOUS
    <3>2. Appends(p, b) /\ b.step = "propose"
      BY <2>4, <3>1, ProposeMoves DEF ProposeBody, Body
    <3>3. UNCHANGED <<offers, accepted>>
      BY <2>4 DEF Propose
    <3> QED
      BY <1>1, <3>2, <3>3
  <2>5. ASSUME NEW p \in Parties, NEW o \in offers, Accept(p, o) PROVE OffersOK'
    <3>1. PICK a : /\ accepted' = accepted \cup {a} /\ a = [by |-> p, row |-> Len(wrote[p]) + 1, offer |-> o]
                   /\ Accepts(wrote', a) /\ Appends(p, AcceptBody(o)) /\ offers' = offers
      BY <2>5, AcceptsOffer
    <3>2. a.by = p /\ a.row = Len(wrote[p]) + 1 /\ a.offer = o /\ a \in accepted' /\ accepted \subseteq accepted'
      BY <3>1
    <3>3. AcceptedAt(wrote', accepted', lane)
      BY <1>0, <3>1, <3>2, AppendAccepted
    <3>4. Offered(lane, wrote, o)
      BY DEF OffersOK
    <3>5. Offered(lane, wrote', o)
      <4>1. PICK V, W : V = wrote /\ W = wrote'
        OBVIOUS
      <4>2. Longer(V, W)
        BY <1>0, <4>1, GrownIsLonger
      <4> QED
        BY <3>4, <4>1, <4>2, OffersGrow
    <3>6. \A c \in accepted' : c \in accepted \/ (Accepts(wrote', c) /\ Offered(lane, wrote', c.offer))
      BY <3>1, <3>2, <3>5
    <3> QED
      BY <1>0, <3>1, <3>3, <3>6, OffersKept
  <2> QED
    BY <1>7, <2>1, <2>2, <2>3, <2>4, <2>5 DEF Handshakes
<1> QED
  BY <1>3, <1>4, <1>5, <1>6, <1>7, NextIs DEF Steppings

(***************************************************************************)
(* What verify() reads and says.                                           *)
(***************************************************************************)
On(p, h, step) == {n \in 1..Len(tape[p]) : tape[p][n].body.deal = h /\ tape[p][n].body.step = step}

\* LastOn is the last row of the handshake's step on a tape, or 0.
LEMMA OnIs ==
  ASSUME TapeOK, NEW p \in Parties, NEW h, NEW step
  PROVE  LET S == On(p, h, step)
         IN  /\ S \in SUBSET Nat /\ IsFiniteSet(S)
             /\ LastOn(p, h, step) = (IF S = {} THEN 0 ELSE Max(S))
             /\ S # {} => Max(S) \in S /\ Max(S) \in 1..Len(tape[p]) /\ \A n \in S : n <= Max(S)
<1>1. PICK S, D, m : S = On(p, h, step) /\ D = {0} \cup S /\ m = Len(tape[p])
  OBVIOUS
<1>2. m \in Nat /\ DOMAIN tape[p] = 1..m /\ S \subseteq 1..m
  BY <1>1, ListDomain DEF TapeOK, On
<1>3. S \in SUBSET Nat /\ IsFiniteSet(S)
  BY <1>2, PlacesFinite
<1>4. D \in SUBSET Nat /\ IsFiniteSet(D) /\ D # {}
  BY <1>1, <1>3, FS_AddElement
<1>5. LastOn(p, h, step) = Max(D)
  <2>1. D = {0} \cup {n \in DOMAIN tape[p] : tape[p][n].body.deal = h /\ tape[p][n].body.step = step}
    BY <1>1, <1>2 DEF On
  <2> QED
    BY <2>1 DEF LastOn
<1>6. Max(D) \in D /\ \A y \in D : y <= Max(D)
  BY <1>4, LastAndFirst
<1>7. CASE S = {}
  <2>1. Max(D) = 0
    BY <1>1, <1>6, <1>7
  <2> QED
    BY <1>1, <1>3, <1>5, <1>7, <2>1
<1>8. CASE S # {}
  <2>1. Max(S) \in S /\ \A y \in S : y <= Max(S)
    BY <1>3, <1>8, LastAndFirst
  <2>2. PICK a, b : a = Max(D) /\ b = Max(S)
    OBVIOUS
  <2>3. b \in 1..m /\ b \in D /\ a \in D /\ b <= a
    BY <1>1, <1>2, <1>6, <2>1, <2>2
  <2>4. a \in S
    BY <1>1, <1>2, <2>3
  <2>5. a <= b
    BY <2>1, <2>2, <2>4
  <2>6. a = b
    BY <1>2, <2>3, <2>4, <2>5
  <2> QED
    BY <1>1, <1>2, <1>3, <1>5, <1>8, <2>1, <2>2, <2>6
<1> QED
  BY <1>7, <1>8

\* _read has all rows of the file, broken or not.
LEMMA ReadIs ==
  ASSUME TapeOK, NEW f \in Parties, NEW P, P = Read(f), ~P.cnl
  PROVE  /\ P.rows = tape[f] /\ \A h, step : Rows(P, h, step) = On(f, h, step)
         /\ ~P.broken => Intact(tape[f])
<1>1. PICK t : t = LoadSide(f, NoDeal, f)
  OBVIOUS
<1>2. PICK cnl : cnl = (t.refused /\ (~t.broken \/ harm[f] = "scrap"))
  OBVIOUS
<1>3. P = [cnl |-> cnl, broken |-> t.broken, rows |-> IF cnl THEN <<>> ELSE tape[f]]
  BY <1>1, <1>2 DEF Read
<1>4. ~cnl /\ P.rows = tape[f] /\ P.broken = t.broken
  BY <1>3
<1>5. ASSUME ~P.broken PROVE Intact(tape[f])
  <2>1. ~t.refused
    BY <1>2, <1>4, <1>5
  <2>2. t.refused = (harm[f] # "none" \/ harm[f] = "scrap" \/ ~Intact(tape[f])
                     \/ \E n \in DOMAIN tape[f] : LET b == tape[f][n].body
                                                  IN  /\ b.deal = NoDeal
                                                      /\ b.step \notin StepNames \/ b.party # f)
    BY <1>1 DEF LoadSide
  <2> QED
    BY <2>1, <2>2
<1>6. DOMAIN tape[f] = 1..Len(tape[f])
  BY ListDomain DEF TapeOK
<1>7. ASSUME NEW h, NEW step PROVE Rows(P, h, step) = On(f, h, step)
  BY <1>4, <1>6 DEF Rows, On
<1> QED
  BY <1>4, <1>5, <1>7

\* _binding agrees only with a citation of exactly the proposal's row.
LEMMA BindingIs ==
  ASSUME NEW P, NEW np, NEW c
  PROVE  /\ Binding(P, np, c) \in {Agreed, Different, Missing}
         /\ Binding(P, np, c) = Agreed <=> /\ c.ledger = P.rows[1].chain /\ c.row \in DOMAIN P.rows
                                           /\ P.rows[c.row].chain = c.chain /\ c.row = np
BY DEF Binding, Agreed, Different, Missing

\* What _one says of a proposal and an acceptance, case by case.
LEMMA LineUpIs ==
  ASSUME NEW h, NEW P, NEW O, NEW np, NEW nq, np = Max(Rows(P, h, "propose")), nq = Max(Rows(O, h, "accept"))
  PROVE  LET p == P.rows[np].body
             q == O.rows[nq].body
             same == p.shared = q.shared /\ p.digest = p.shared /\ q.digest = q.shared
         IN  /\ LineUp(h, P, O) \in {Agreed, Different, Missing, Unseen}
             /\ ~same => LineUp(h, P, O) = Different
             /\ same /\ Binding(P, np, q.cites) # Agreed => LineUp(h, P, O) = Binding(P, np, q.cites)
             /\ same /\ Binding(P, np, q.cites) = Agreed =>
                  LineUp(h, P, O) = (IF P.broken \/ O.broken THEN Unseen ELSE Agreed)
<1>1. PICK p, q, bound : /\ p = P.rows[np].body /\ q = O.rows[nq].body
                         /\ bound = Binding(P, np, q.cites)
  OBVIOUS
<1>2. LineUp(h, P, O) = IF p.shared # q.shared \/ p.digest # p.shared \/ q.digest # q.shared THEN Different
                        ELSE IF bound # Agreed THEN bound
                        ELSE IF P.broken \/ O.broken THEN Unseen ELSE Agreed
  BY <1>1 DEF LineUp
<1>3. bound \in {Agreed, Different, Missing}
  BY <1>1, BindingIs
<1> QED
  BY <1>1, <1>2, <1>3

\* The four words are different.
LEMMA WordsAre == /\ Agreed # Different /\ Agreed # Missing /\ Agreed # Unseen /\ Different # Missing
                  /\ Different # Unseen /\ Missing # Unseen
BY DEF Agreed, Different, Missing, Unseen

\* _one says one of the four words.
LEMMA OneIs == ASSUME NEW h, NEW A, NEW B PROVE One(h, A, B) \in {Agreed, Different, Missing, Unseen}
<1>1. \A P, O : LineUp(h, P, O) \in {Agreed, Different, Missing, Unseen}
  BY LineUpIs
<1> QED
  BY <1>1 DEF One

\* The worst word is one of the words, and AGREED only if all are.
LEMMA WorstIs ==
  ASSUME NEW words, words \subseteq {Agreed, Different, Missing, Unseen}, words # {}
  PROVE  LET worst == CHOOSE w \in words : \A v \in words : Severity(w) >= Severity(v)
         IN  worst \in words /\ (worst = Agreed => words = {Agreed})
<1>1. /\ Severity(Agreed) = 1 /\ Severity(Different) = 4 /\ Severity(Missing) = 3 /\ Severity(Unseen) = 2
  BY DEF Severity, Agreed, Different, Missing, Unseen
<1>2. \A v \in words : Severity(v) \in 1..4
  BY <1>1
<1>3. \E w \in words : \A v \in words : Severity(w) >= Severity(v)
  <2>1. PICK S : S = {4 - Severity(w) : w \in words}
    OBVIOUS
  <2>2. S \in SUBSET Nat /\ S # {}
    <3>1. \A w \in words : 4 - Severity(w) \in Nat
      BY <1>2
    <3> QED
      BY <2>1, <3>1
  <2>3. PICK x \in S : \A y \in S : x <= y
    BY <2>2, LeastOf
  <2>4. PICK w \in words : x = 4 - Severity(w)
    BY <2>1, <2>3
  <2>5. \A v \in words : 4 - Severity(w) <= 4 - Severity(v)
    BY <2>1, <2>3, <2>4
  <2> QED
    BY <1>2, <2>5
<1>4. PICK worst : worst = CHOOSE w \in words : \A v \in words : Severity(w) >= Severity(v)
  OBVIOUS
<1>5. worst \in words /\ \A v \in words : Severity(worst) >= Severity(v)
  BY <1>3, <1>4
<1>6. worst = Agreed => \A v \in words : v = Agreed
  BY <1>1, <1>2, <1>5
<1> QED
  BY <1>4, <1>5, <1>6

\* What verify says is the word of each handshake it looked at, when that is AGREED TERMS.
LEMMA AgreedOfAll ==
  ASSUME NEW asked, Verify(asked) = Agreed
  PROVE  LET A == Read(given["buyer"])
             B == Read(given["seller"])
             seen == {h \in lane.ids : \E r \in {A, B} : Rows(r, h, "propose") \cup Rows(r, h, "accept") # {}}
             ids == IF asked = {} THEN seen ELSE asked
         IN  ~A.cnl /\ ~B.cnl /\ \A h \in ids : One(h, A, B) = Agreed
<1> DEFINE A == Read(given["buyer"])
           B == Read(given["seller"])
           seen == {h \in lane.ids : \E r \in {A, B} : Rows(r, h, "propose") \cup Rows(r, h, "accept") # {}}
           ids == IF asked = {} THEN seen ELSE asked
           words == {One(h, A, B) : h \in ids}
           out == A.cnl \/ B.cnl \/ ids = {} \/ ~(ids \subseteq seen)
<1>4. Verify(asked) = IF out THEN Unseen
                      ELSE CHOOSE w \in words : \A v \in words : Severity(w) >= Severity(v)
  BY DEF Verify
<1>3. words = {One(h, A, B) : h \in ids} /\ (~out => ~A.cnl /\ ~B.cnl /\ ids # {})
  OBVIOUS
<1> HIDE DEF A, B, seen, ids, words, out
<1>5. ~out
  BY <1>4, WordsAre
<1>6. words # {} /\ words \subseteq {Agreed, Different, Missing, Unseen}
  BY <1>3, <1>5, OneIs
<1>7. words = {Agreed}
  BY <1>4, <1>5, <1>6, WorstIs
<1>8. \A h \in ids : One(h, A, B) = Agreed
  BY <1>3, <1>7
<1> QED
  BY <1>3, <1>5, <1>8 DEF A, B, seen, ids

\* An acceptance on a tape is of an offer that was accepted, but for what it says.
AcceptedOn(p, n, h, q) ==
  \E a \in accepted :
    /\ a.by = p /\ a.row = n /\ a.offer.id = h /\ Offered(lane, wrote, a.offer)
    /\ q.cites = [chain |-> a.offer.chain, row |-> a.offer.row, ledger |-> a.offer.ledger]
    /\ q.shared.what \in {a.offer.shared.what, Garbled}
    /\ q.shared.md = Null /\ Shaped(q.shared)

\* An acceptance row on a tape is of an acceptance that was given.
LEMMA AcceptedIs ==
  ASSUME WroteOK, TapeOK, OffersOK, NEW p \in Parties, NEW n \in 1..Len(tape[p]), NEW h \in lane.ids,
         tape[p][n].body.deal = h, tape[p][n].body.step = "accept"
  PROVE  AcceptedOn(p, n, h, tape[p][n].body)
<1>1. PICK q, o : q = tape[p][n].body /\ o = wrote[p][n].body
  OBVIOUS
<1>2. Version(q, o)
  BY <1>1 DEF TapeOK
<1>3. n \in 1..Len(wrote[p])
  <2>1. Len(tape[p]) \in Nat /\ Len(wrote[p]) \in Nat /\ Len(tape[p]) <= Len(wrote[p])
    BY ListDomain DEF TapeOK, WroteOK
  <2> QED
    BY <2>1
<1>4. o.deal = h /\ o.step = "accept"
  BY <1>1, <1>2 DEF Version
<1>5. PICK a \in accepted : a.by = p /\ a.row = n
  BY <1>1, <1>3, <1>4 DEF OffersOK
<1>6. Accepts(wrote, a) /\ Offered(lane, wrote, a.offer)
  BY <1>5 DEF OffersOK
<1>7. o = AcceptBody(a.offer)
  BY <1>1, <1>5, <1>6 DEF Accepts
<1>8. /\ o.deal = a.offer.id /\ o.shared = a.offer.shared
      /\ o.cites = [chain |-> a.offer.chain, row |-> a.offer.row, ledger |-> a.offer.ledger]
  BY <1>7 DEF AcceptBody, Body
<1>9. a.offer.shared.md = Null
  BY <1>6 DEF Offered
<1> QED
  BY <1>1, <1>2, <1>4, <1>5, <1>6, <1>8, <1>9 DEF Version, Plain, AcceptedOn

\* Two parties never propose the same.
LEMMA ProposalsDiffer ==
  ASSUME NEW l \in Lanes, NEW b, NEW o, NEW p \in Parties, NEW q \in Parties,
         ProposeRow(l, q, b), ProposeRow(l, p, o), b.shared.what \in {o.shared.what, Garbled}
  PROVE  q = p /\ b.shared.what # Garbled
<1>1. PICK x \in l.details : b.shared = Proposal(b.deal, q, x)
  BY DEF ProposeRow
<1>2. PICK y \in l.details : o.shared = Proposal(o.deal, p, y)
  BY DEF ProposeRow
<1>3. b.deal \in l.ids
  BY DEF ProposeRow
<1>4. b.shared.what # Garbled
  BY <1>1, <1>3, GarbledIsNoProposal
<1>5. b.shared.what = o.shared.what
  BY <1>4
<1>6. b.shared.what = [handshake |-> b.deal, proposer |-> q, terms |-> x]
  BY <1>1 DEF Proposal, Shared
<1>7. o.shared.what = [handshake |-> o.deal, proposer |-> p, terms |-> y]
  BY <1>2 DEF Proposal, Shared
<1>8. b.shared.what.proposer = q /\ o.shared.what.proposer = p
  BY <1>6, <1>7
<1> QED
  BY <1>4, <1>5, <1>8

\* A proposal whose chain was offered stands as its party wrote it.
LEMMA OfferedRow ==
  ASSUME WroteOK, TapeOK, NEW f \in Parties, NEW n \in 1..Len(tape[f]), NEW h \in lane.ids, NEW c,
         tape[f][n].body.deal = h, tape[f][n].body.step = "propose", Intact(tape[f]),
         tape[f][n].chain = c, OfProposal(lane, wrote, c)
  PROVE  /\ n \in 1..Len(wrote[f]) /\ wrote[f][n].chain = c /\ wrote[f][n].body = tape[f][n].body
         /\ ProposeRow(lane, f, wrote[f][n].body) /\ tape[f][n].body.shared.what # Garbled
         /\ tape[f][n].body.shared.md = Null /\ Shaped(tape[f][n].body.shared)
<1>1. PICK b, o : b = tape[f][n].body /\ o = wrote[f][n].body
  OBVIOUS
<1>2. n \in 1..Len(wrote[f]) /\ Version(b, o)
  <2>1. Len(tape[f]) \in Nat /\ Len(wrote[f]) \in Nat /\ Len(tape[f]) <= Len(wrote[f])
    BY ListDomain DEF TapeOK, WroteOK
  <2> QED
    BY <1>1, <2>1 DEF TapeOK
<1>3. Proposed(lane, wrote, f, n)
  BY <1>1, <1>2 DEF Version, Proposed
<1>4. ProposeRow(lane, f, o)
  BY <1>1, <1>3, ProposedIs
<1>5. PICK g \in Parties : \E k \in 1..Len(wrote[g]) : Proposed(lane, wrote, g, k) /\ wrote[g][k].chain = c
  BY DEF OfProposal
<1>6. PICK k \in 1..Len(wrote[g]) : Proposed(lane, wrote, g, k) /\ wrote[g][k].chain = c
  BY <1>5
<1>7. Spells(c, wrote[g], k)
  BY <1>6 DEF WroteOK, Spelled
<1>8. Spells(c, tape[f], n)
  <2>1. Spelled(tape[f])
    BY IntactIsSpelled DEF TapeOK
  <2> QED
    BY <2>1 DEF Spelled
<1>9. k = n
  BY <1>7, <1>8 DEF Spells
<1>10. n \in 1..n
  <2>1. Len(tape[f]) \in Nat
    BY ListDomain DEF TapeOK
  <2> QED
    BY <2>1
<1>11. b = wrote[g][n].body
  BY <1>1, <1>7, <1>8, <1>9, <1>10 DEF Spells
<1>12. ProposeRow(lane, g, b) /\ Shaped(b.shared) /\ b.shared.md = Null
  BY <1>6, <1>9, <1>11, ProposedIs
<1>13. b.shared.what \in {o.shared.what, Garbled}
  BY <1>2 DEF Version
<1>14. g = f /\ b.shared.what # Garbled
  BY <1>4, <1>12, <1>13, ProposalsDiffer DEF WroteOK
<1> QED
  BY <1>1, <1>2, <1>4, <1>6, <1>9, <1>11, <1>12, <1>14

\* A line-up that agrees is of a proposal that was countersigned.
LEMMA AgreedLineUp ==
  ASSUME WroteOK, TapeOK, OffersOK, NEW h \in lane.ids, NEW f \in Parties, NEW g \in Parties,
         NEW P, NEW O, P = Read(f), O = Read(g), ~P.cnl, ~O.cnl, Pairs(h, P, O), LineUp(h, P, O) = Agreed
  PROVE  Countersigned(h, f, g)
<1>1. PICK S, T : S = On(f, h, "propose") /\ T = On(g, h, "accept")
  OBVIOUS
<1>2. Rows(P, h, "propose") = S /\ Rows(O, h, "accept") = T /\ P.rows = tape[f] /\ O.rows = tape[g]
  BY <1>1, ReadIs
<1>3. S # {} /\ T # {}
  BY <1>2 DEF Pairs
<1>4. PICK n, k : n = Max(S) /\ k = Max(T)
  OBVIOUS
<1>5. n \in S /\ n \in 1..Len(tape[f]) /\ LastOn(f, h, "propose") = n
  BY <1>1, <1>3, <1>4, OnIs
<1>6. k \in T /\ k \in 1..Len(tape[g]) /\ LastOn(g, h, "accept") = k
  BY <1>1, <1>3, <1>4, OnIs
<1>7. PICK p, q : p = tape[f][n].body /\ q = tape[g][k].body
  OBVIOUS
<1>8. p.deal = h /\ p.step = "propose" /\ q.deal = h /\ q.step = "accept"
  BY <1>1, <1>5, <1>6, <1>7 DEF On
<1>9. /\ p.shared = q.shared /\ Binding(P, n, q.cites) = Agreed /\ ~P.broken
  <2>1. n = Max(Rows(P, h, "propose")) /\ k = Max(Rows(O, h, "accept"))
    BY <1>2, <1>4
  <2>2. p = P.rows[n].body /\ q = O.rows[k].body
    BY <1>2, <1>7
  <2>3. p.shared = q.shared
    BY <2>1, <2>2, LineUpIs, WordsAre
  <2>4. p.digest = p.shared /\ q.digest = q.shared
    BY <2>1, <2>2, LineUpIs, WordsAre
  <2>5. Binding(P, n, q.cites) = Agreed
    BY <2>1, <2>2, <2>3, <2>4, LineUpIs, WordsAre
  <2>6. ~P.broken
    BY <2>1, <2>2, <2>3, <2>4, <2>5, LineUpIs, WordsAre
  <2> QED
    BY <2>3, <2>5, <2>6
<1>10. tape[f][n].chain = q.cites.chain
  BY <1>2, <1>9, BindingIs
<1>11. Intact(tape[f])
  BY <1>9, ReadIs
<1>b. tape[g][k].body.deal = h /\ tape[g][k].body.step = "accept"
  BY <1>7, <1>8
<1>c. AcceptedOn(g, k, h, tape[g][k].body)
  BY <1>6, <1>b, AcceptedIs
<1>12. PICK a \in accepted :
           /\ a.by = g /\ a.row = k /\ a.offer.id = h /\ Offered(lane, wrote, a.offer)
           /\ q.cites = [chain |-> a.offer.chain, row |-> a.offer.row, ledger |-> a.offer.ledger]
           /\ q.shared.what \in {a.offer.shared.what, Garbled}
           /\ q.shared.md = Null /\ Shaped(q.shared)
  BY <1>7, <1>c DEF AcceptedOn
<1>13. PICK c : c = a.offer.chain
  OBVIOUS
<1>14. tape[f][n].chain = c /\ OfProposal(lane, wrote, c)
  BY <1>10, <1>12, <1>13 DEF Offered
<1>15. /\ n \in 1..Len(wrote[f]) /\ wrote[f][n].chain = c /\ wrote[f][n].body = p
       /\ p.shared.what # Garbled
  BY <1>5, <1>7, <1>8, <1>11, <1>14, OfferedRow
<1>16. a.offer.shared = p.shared
  <2>1. Shaped(a.offer.shared) /\ a.offer.shared.md = Null
    BY <1>12 DEF Offered
  <2>2. a.offer.shared.what = q.shared.what
    BY <1>9, <1>12, <1>15
  <2> QED
    BY <1>9, <1>12, <2>1, <2>2 DEF Shaped
<1>17. n \in DOMAIN wrote[f]
  BY <1>15, ListDomain DEF WroteOK
<1> QED
  BY <1>5, <1>6, <1>12, <1>13, <1>15, <1>16, <1>17 DEF Countersigned

\* Of tapes that hold versions of what was written, AgreedIsCountersigned.
LEMMA AgreedHolds == ASSUME WroteOK, TapeOK, OffersOK PROVE AgreedIsCountersigned
<1> SUFFICES ASSUME NEW h \in lane.ids, NEW asked \in {{}, {h}}, Verify(asked) = Agreed, given["buyer"] # given["seller"],
                    NEW r \in Parties, LastOn(r, h, "propose") + LastOn(r, h, "accept") > 0
             PROVE  \E p \in Parties : Countersigned(h, p, Other(p))
  BY DEF AgreedIsCountersigned
<1>1. PICK f, g, A, B : f = given["buyer"] /\ g = given["seller"] /\ A = Read(f) /\ B = Read(g)
  OBVIOUS
<1>2. f \in Parties /\ g \in Parties /\ g = Other(f) /\ f = Other(g) /\ (r = f \/ r = g)
  BY <1>1 DEF TapeOK, Parties, Other
<1>3. PICK seen : seen = {i \in lane.ids : \E x \in {A, B} : Rows(x, i, "propose") \cup Rows(x, i, "accept") # {}}
  OBVIOUS
<1>4. ~A.cnl /\ ~B.cnl /\ \A i \in (IF asked = {} THEN seen ELSE asked) : One(i, A, B) = Agreed
  BY <1>1, <1>3, AgreedOfAll
<1>5. h \in seen
  <2>1. On(r, h, "propose") # {} \/ On(r, h, "accept") # {}
    <3>1. SUFFICES ASSUME On(r, h, "propose") = {}, On(r, h, "accept") = {} PROVE FALSE
      OBVIOUS
    <3>2. LastOn(r, h, "propose") = 0 /\ LastOn(r, h, "accept") = 0
      BY <3>1, OnIs
    <3> QED
      BY <3>2
  <2>2. PICK x \in {A, B} : x = Read(r)
    BY <1>1, <1>2
  <2>3. Rows(x, h, "propose") = On(r, h, "propose") /\ Rows(x, h, "accept") = On(r, h, "accept")
    BY <1>4, <2>2, ReadIs
  <2> QED
    BY <1>3, <2>1, <2>2, <2>3
<1>6. One(h, A, B) = Agreed
  BY <1>4, <1>5
<1>7. CASE Pairs(h, A, B)
  <2>1. LineUp(h, A, B) = Agreed
    BY <1>6, <1>7 DEF One
  <2> QED
    BY <1>1, <1>2, <1>4, <1>7, <2>1, AgreedLineUp
<1>8. CASE ~Pairs(h, A, B) /\ Pairs(h, B, A)
  <2>1. LineUp(h, B, A) = Agreed
    BY <1>6, <1>8 DEF One
  <2> QED
    BY <1>1, <1>2, <1>4, <1>8, <2>1, AgreedLineUp
<1>9. CASE ~Pairs(h, A, B) /\ ~Pairs(h, B, A)
  BY <1>6, <1>9, WordsAre DEF One
<1> QED
  BY <1>7, <1>8, <1>9

(***************************************************************************)
(* When nothing went wrong.                                                *)
(***************************************************************************)
\* An offer nobody altered stays one as rows are appended.
LEMMA ExactGrows ==
  ASSUME NEW l, NEW V, NEW W, Longer(V, W), \A p \in Parties : Listing(V[p]), NEW o, Exact(l, V, o)
  PROVE  Exact(l, W, o)
<1>1. PICK p \in Parties : \E n \in 1..Len(V[p]) :
         /\ Proposed(l, V, p, n)
         /\ o = [id |-> V[p][n].body.deal, shared |-> V[p][n].body.shared, digest |-> V[p][n].body.shared,
                 chain |-> V[p][n].chain, row |-> n, ledger |-> V[p][1].chain]
  BY DEF Exact
<1>2. PICK n \in 1..Len(V[p]) :
         /\ Proposed(l, V, p, n)
         /\ o = [id |-> V[p][n].body.deal, shared |-> V[p][n].body.shared, digest |-> V[p][n].body.shared,
                 chain |-> V[p][n].chain, row |-> n, ledger |-> V[p][1].chain]
  BY <1>1
<1>3. 1 \in 1..Len(V[p])
  BY <1>2, ListDomain
<1>4. n \in 1..Len(W[p]) /\ W[p][n] = V[p][n] /\ W[p][1] = V[p][1] /\ Proposed(l, W, p, n)
  BY <1>2, <1>3, OffersGrow DEF Longer
<1>5. o = [id |-> W[p][n].body.deal, shared |-> W[p][n].body.shared, digest |-> W[p][n].body.shared,
           chain |-> W[p][n].chain, row |-> n, ledger |-> W[p][1].chain]
  BY <1>2, <1>4
<1> QED
  BY <1>4, <1>5 DEF Exact

\* The chain a row claims is that of no other row.
LEMMA PositionIs ==
  ASSUME NEW rows, Listing(rows), Spelled(rows), NEW n \in 1..Len(rows)
  PROVE  Position(rows, rows[n].chain) = n
<1>1. \A k \in 1..Len(rows) : Len(rows[k].chain) = k
  BY DEF Spelled, Spells
<1>2. DOMAIN rows = 1..Len(rows) /\ Len(rows) \in Nat
  BY ListDomain
<1>3. PICK S : S = {k \in DOMAIN rows : rows[k].chain = rows[n].chain}
  OBVIOUS
<1>4. \A k : k \in S <=> k = n
  BY <1>1, <1>2, <1>3
<1>5. S \subseteq 1..Len(rows) /\ S # {}
  BY <1>2, <1>3, <1>4
<1>6. Max(S) \in S
  BY <1>2, <1>5, PlacesFinite, LastAndFirst
<1>7. Max(S) = n
  BY <1>4, <1>6
<1> QED
  BY <1>3, <1>7 DEF Position

\* What propose hands over is exact: _position finds the row it wrote.
LEMMA HandedExact ==
  ASSUME WroteOK, ProposingOK, NEW p \in Parties, HandOver(p)
  PROVE  \E o : offers' = offers \cup {o} /\ Exact(lane, wrote, o)
<1>1. PICK c : c = proposing[p]
  OBVIOUS
<1>2. c # Null /\ tape = wrote
  BY <1>1 DEF HandOver, Untouched
<1>3. PICK n \in 1..Len(wrote[p]) :
         /\ Proposed(lane, wrote, p, n)
         /\ c = [id |-> wrote[p][n].body.deal, shared |-> wrote[p][n].body.shared, chain |-> wrote[p][n].chain]
  BY <1>1, <1>2 DEF ProposingOK
<1>4. PICK o : o = [id |-> c.id, shared |-> c.shared, digest |-> c.shared, chain |-> c.chain,
                    row |-> Position(tape[p], c.chain), ledger |-> tape[p][1].chain]
  OBVIOUS
<1>5. offers' = offers \cup {o}
  BY <1>1, <1>4 DEF HandOver
<1>6. Position(tape[p], c.chain) = n
  <2>1. Position(wrote[p], wrote[p][n].chain) = n
    BY PositionIs DEF WroteOK
  <2> QED
    BY <1>2, <1>3, <2>1
<1>7. o = [id |-> wrote[p][n].body.deal, shared |-> wrote[p][n].body.shared, digest |-> wrote[p][n].body.shared,
           chain |-> wrote[p][n].chain, row |-> n, ledger |-> wrote[p][1].chain]
  BY <1>2, <1>3, <1>4, <1>6
<1>8. Exact(lane, wrote, o)
  BY <1>3, <1>7 DEF Exact
<1> QED
  BY <1>5, <1>8

\* Every step keeps ExactOK.
LEMMA ExactStep ==
  ASSUME WroteOK, TapeOK, OffersOK, Listing(mishaps), ProposingOK, ExactOK, [Next]_vars
  PROVE  ExactOK'
<1> SUFFICES ASSUME mishaps' = <<>>
             PROVE  /\ \A o \in offers' : Exact(lane', wrote', o)
                    /\ \A a \in accepted' : Exact(lane', wrote', a.offer)
  BY DEF ExactOK
<1>1. Grown /\ mishaps = <<>> /\ mishaps' = mishaps
  BY WroteStep, MishapsStep
<1>2. PICK l, V, W : l = lane /\ V = wrote /\ W = wrote'
  OBVIOUS
<1>3. Longer(V, W) /\ lane' = l
  BY <1>1, <1>2, GrownIsLonger
<1>4. \A p \in Parties : Listing(V[p])
  BY <1>2 DEF WroteOK
<1>5. \A o : Exact(l, V, o) => Exact(l, W, o)
  BY <1>3, <1>4, ExactGrows
<1>6. (\A o \in offers : Exact(l, V, o)) /\ \A a \in accepted : Exact(l, V, a.offer)
  BY <1>1, <1>2 DEF ExactOK
<1>7. /\ \A o \in offers' : o \in offers \/ Exact(l, V, o)
      /\ \A a \in accepted' : a \in accepted \/ a.offer \in offers
  <2>1. ASSUME NEW p \in Parties, HandOver(p)
        PROVE  accepted' = accepted /\ \A o \in offers' : o \in offers \/ Exact(l, V, o)
    BY <1>2, <2>1, HandedExact DEF HandOver
  <2>2. ASSUME NEW p \in Parties, NEW o \in offers, Accept(p, o)
        PROVE  offers' = offers /\ \A a \in accepted' : a \in accepted \/ a.offer \in offers
    <3>1. PICK a : accepted' = accepted \cup {a} /\ a = [by |-> p, row |-> Len(wrote[p]) + 1, offer |-> o] /\ offers' = offers
      BY <2>2, AcceptsOffer
    <3>2. a.offer = o
      BY <3>1
    <3> QED
      BY <3>1, <3>2
  <2>3. ASSUME NEW o \in offers, AlterOffer(o) PROVE FALSE
    BY <1>1, <2>3, NoSlip DEF AlterOffer
  <2>4. \/ offers' = offers /\ accepted' = accepted
        \/ \E p \in Parties : HandOver(p)
        \/ \E p \in Parties : \E o \in offers : Accept(p, o)
    <3>1. CASE DealSteps
      BY <3>1 DEF DealSteps, Aside, Recorded, Committing, Shipping
    <3>2. CASE Harming
      BY <3>2 DEF Harming, Aside
    <3>3. CASE \E p \in Parties : TakePin(p) /\ Aside
      BY <3>3 DEF Aside
    <3>4. CASE Handshakes
      BY <2>3, <3>4 DEF Handshakes, Propose, Drop
    <3>5. CASE UNCHANGED vars
      BY <3>5 DEF vars
    <3> QED
      BY <3>1, <3>2, <3>3, <3>4, <3>5, NextIs DEF Steppings
  <2> QED
    BY <2>1, <2>2, <2>4
<1>8. \A o \in offers' : Exact(l, W, o)
  BY <1>5, <1>6, <1>7
<1>9. \A a \in accepted' : Exact(l, W, a.offer)
  BY <1>5, <1>6, <1>7
<1> QED
  BY <1>2, <1>3, <1>8, <1>9

CopiedIs(W, j, p, step) ==
  LET mine == OfStep(W[p], TheDeal, step)
      theirs == OfStep(W[Other(p)], TheDeal, step)
  IN  /\ Len(mine) <= Len(theirs)
      /\ \A k \in 1..Len(mine) : mine[k].body.shared = theirs[k].body.shared
      /\ j # Null /\ j.step = step =>
           /\ Len(mine) < Len(theirs)
           /\ j.shared = theirs[Len(mine)+1].body.shared
Copying == \A step \in BothSides \cup Mirrored : \A p \in Parties : ~Begins(p, step) => CopiedIs(wrote, job[p], p, step)

\* CopiedOK says Copying of runs without a mishap.
LEMMA CopiedAre == CopiedOK <=> (mishaps = <<>> => Copying)
BY DEF CopiedOK, Copying, CopiedIs

\* The row p writes is the next one of the step the other party has.
Next1(W, p, step, s) ==
  LET mine == OfStep(W[p], TheDeal, step)
      theirs == OfStep(W[Other(p)], TheDeal, step)
  IN  Len(mine) < Len(theirs) /\ s = theirs[Len(mine)+1].body.shared

\* What a party copies is the next row of the step it has not.
LEMMA CopiedNext ==
  ASSUME WroteOK, tape = wrote, NEW p \in Parties, NEW step, NEW s \in Copied(p, step)
  PROVE  Next1(wrote, p, step, s)
<1>1. PICK mine, theirs : /\ mine = OfStep(wrote[p], TheDeal, step)
                          /\ theirs = OfStep(wrote[Other(p)], TheDeal, step)
  OBVIOUS
<1>2. Copied(p, step) = {theirs[k].body.shared : k \in {Len(mine) + 1} \cap DOMAIN theirs}
  BY <1>1 DEF Copied
<1>3. PICK k \in {Len(mine) + 1} \cap DOMAIN theirs : s = theirs[k].body.shared
  BY <1>2
<1>4. Listing(wrote[p]) /\ Listing(wrote[Other(p)])
  BY BothParties DEF WroteOK, PartiesAre
<1>5. Len(mine) \in Nat /\ DOMAIN theirs = 1..Len(theirs) /\ Len(theirs) \in Nat
  BY <1>1, <1>4, StepRows, ListDomain DEF InStepOf
<1>6. Len(mine) < Len(theirs) /\ s = theirs[Len(mine)+1].body.shared
  BY <1>3, <1>5
<1> QED
  BY <1>1, <1>6 DEF Next1

\* Rows of other steps leave a copied step alone.
LEMMA CopiedSame ==
  ASSUME NEW W, NEW V, NEW p, NEW step, NEW i, NEW j, CopiedIs(V, i, p, step), j = Null \/ j = i \/ j.step # step,
         OfStep(W[p], TheDeal, step) = OfStep(V[p], TheDeal, step),
         OfStep(W[Other(p)], TheDeal, step) = OfStep(V[Other(p)], TheDeal, step)
  PROVE  CopiedIs(W, j, p, step)
BY DEF CopiedIs

\* One more row of the party that begins the step leaves the copies a beginning.
LEMMA CopiedBegun ==
  ASSUME NEW W, NEW V, NEW p, NEW step, NEW i, NEW j, CopiedIs(V, i, p, step), j = Null \/ j = i, NEW r,
         OfStep(W[p], TheDeal, step) = OfStep(V[p], TheDeal, step), Len(OfStep(V[p], TheDeal, step)) \in Nat,
         Follows(OfStep(W[Other(p)], TheDeal, step), OfStep(V[Other(p)], TheDeal, step), r)
  PROVE  CopiedIs(W, j, p, step)
<1>1. PICK m, t, u : /\ m = OfStep(V[p], TheDeal, step) /\ t = OfStep(V[Other(p)], TheDeal, step)
                     /\ u = OfStep(W[Other(p)], TheDeal, step)
  OBVIOUS
<1>2. /\ Len(m) \in Nat /\ Len(t) \in Nat /\ Len(u) = Len(t) + 1 /\ \A k \in 1..Len(t) : u[k] = t[k]
  BY <1>1 DEF Follows
<1>3. /\ Len(m) <= Len(t) /\ \A k \in 1..Len(m) : m[k].body.shared = t[k].body.shared
  BY <1>1 DEF CopiedIs
<1>4. i # Null /\ i.step = step => Len(m) < Len(t) /\ i.shared = t[Len(m)+1].body.shared
  BY <1>1 DEF CopiedIs
<1>5. Len(m) <= Len(u)
  BY <1>2, <1>3
<1>6. \A k \in 1..Len(m) : m[k].body.shared = u[k].body.shared
  BY <1>2, <1>3
<1>7. j # Null /\ j.step = step => Len(m) < Len(u) /\ j.shared = u[Len(m)+1].body.shared
  <2>1. ASSUME j # Null, j.step = step PROVE Len(m) < Len(u) /\ j.shared = u[Len(m)+1].body.shared
    <3>1. Len(m) < Len(t) /\ j.shared = t[Len(m)+1].body.shared
      BY <1>4, <2>1
    <3>2. Len(m) + 1 \in 1..Len(t)
      BY <1>2, <3>1
    <3> QED
      BY <1>2, <3>1, <3>2
  <2> QED
    BY <2>1
<1> QED
  BY <1>1, <1>5, <1>6, <1>7 DEF CopiedIs

\* So does copying the next row.
LEMMA CopiedOn ==
  ASSUME NEW W, NEW V, NEW p, NEW step, NEW i, NEW j, CopiedIs(V, i, p, step), NEW r,
         j = Null \/ j.step # step,
         OfStep(W[Other(p)], TheDeal, step) = OfStep(V[Other(p)], TheDeal, step),
         Len(OfStep(V[Other(p)], TheDeal, step)) \in Nat,
         Follows(OfStep(W[p], TheDeal, step), OfStep(V[p], TheDeal, step), r),
         Next1(V, p, step, r.body.shared)
  PROVE  CopiedIs(W, j, p, step)
<1>1. PICK m, t, u : /\ m = OfStep(V[p], TheDeal, step) /\ t = OfStep(V[Other(p)], TheDeal, step)
                     /\ u = OfStep(W[p], TheDeal, step)
  OBVIOUS
<1>2. /\ Len(m) \in Nat /\ Len(t) \in Nat /\ Len(u) = Len(m) + 1 /\ \A k \in 1..Len(m) : u[k] = m[k]
      /\ u[Len(m) + 1] = r
  BY <1>1 DEF Follows
<1>3. \A k \in 1..Len(m) : m[k].body.shared = t[k].body.shared
  BY <1>1 DEF CopiedIs
<1>4. Len(m) < Len(t) /\ r.body.shared = t[Len(m)+1].body.shared
  BY <1>1 DEF Next1
<1>5. Len(u) <= Len(t)
  BY <1>2, <1>4
<1>6. \A k \in 1..Len(u) : u[k].body.shared = t[k].body.shared
  <2> SUFFICES ASSUME NEW k \in 1..Len(u) PROVE u[k].body.shared = t[k].body.shared
    OBVIOUS
  <2>1. CASE k = Len(m) + 1
    BY <1>2, <1>4, <2>1
  <2>2. CASE k \in 1..Len(m)
    BY <1>2, <1>3, <2>2
  <2> QED
    BY <1>2, <2>1, <2>2
<1> QED
  BY <1>1, <1>5, <1>6 DEF CopiedIs

JobsLeft == \A p \in Parties : job'[p] = Null \/ job'[p] = job[p]
NextCopy(q, b) ==
  \A step \in BothSides \cup Mirrored :
    (b.deal = TheDeal /\ b.step = step /\ ~Begins(q, step)) =>
      Next1(wrote, q, step, b.shared) /\ (job'[q] = Null \/ job'[q].step # step)

\* An append that copies the next row keeps Copying.
LEMMA AppendCopies ==
  ASSUME WroteOK, Copying, NEW q \in Parties, NEW b, Appends(q, b), JobsLeft, NextCopy(q, b)
  PROVE  Copying'
<1> SUFFICES ASSUME NEW step \in BothSides \cup Mirrored, NEW p \in Parties, ~Begins(p, step)
             PROVE  CopiedIs(wrote', job'[p], p, step)
  BY DEF Copying, Begins
<1>1. PICK W, V, i, j, r, o : /\ W = wrote' /\ V = wrote /\ i = job[p] /\ j = job'[p]
                              /\ r = RowAfter(wrote[q], b) /\ o = Other(q)
  OBVIOUS
<1>2. Follows(W[q], V[q], r) /\ W[o] = V[o] /\ r.body = b
  BY <1>1 DEF Appends, RowAfter
<1>3. CopiedIs(V, i, p, step) /\ (j = Null \/ j = i)
  BY <1>1 DEF Copying, JobsLeft
<1>4. (p = q /\ Other(p) = o) \/ (p = o /\ Other(p) = q)
  BY <1>1 DEF Parties, Other
<1>5. OfStep(W[o], TheDeal, step) = OfStep(V[o], TheDeal, step)
  BY <1>2
<1>6. Len(OfStep(V[p], TheDeal, step)) \in Nat /\ Len(OfStep(V[Other(p)], TheDeal, step)) \in Nat
  <2>1. Listing(V[p]) /\ Listing(V[Other(p)])
    BY <1>1, BothParties DEF WroteOK, PartiesAre
  <2> QED
    BY <2>1, StepRows DEF InStepOf
<1>7. CASE ~StepRow(r, step)
  <2>1. OfStep(W[q], TheDeal, step) = OfStep(V[q], TheDeal, step)
    BY <1>2, <1>7, StepRowsSame
  <2>2. CopiedIs(W, j, p, step)
    <3>1. /\ OfStep(W[p], TheDeal, step) = OfStep(V[p], TheDeal, step)
          /\ OfStep(W[Other(p)], TheDeal, step) = OfStep(V[Other(p)], TheDeal, step)
      BY <1>4, <1>5, <2>1
    <3> QED
      BY <1>3, <3>1, CopiedSame
  <2> QED
    BY <1>1, <2>2
<1>8. CASE StepRow(r, step) /\ p = o /\ Other(p) = q
  <2>1. Follows(OfStep(W[q], TheDeal, step), OfStep(V[q], TheDeal, step), r)
    BY <1>2, <1>8, StepRowsGrow
  <2>2. CopiedIs(W, j, p, step)
    BY <1>3, <1>5, <1>6, <1>8, <2>1, CopiedBegun
  <2> QED
    BY <1>1, <2>2
<1>9. CASE StepRow(r, step) /\ p = q /\ Other(p) = o
  <2>1. Follows(OfStep(W[q], TheDeal, step), OfStep(V[q], TheDeal, step), r)
    BY <1>2, <1>9, StepRowsGrow
  <2>2. b.deal = TheDeal /\ b.step = step
    BY <1>2, <1>9 DEF StepRow
  <2>3. Next1(V, p, step, r.body.shared) /\ (j = Null \/ j.step # step)
    BY <1>1, <1>2, <1>9, <2>2 DEF NextCopy
  <2>4. CopiedIs(W, j, p, step)
    BY <1>3, <1>5, <1>6, <1>9, <2>1, <2>3, CopiedOn
  <2> QED
    BY <1>1, <2>4
<1> QED
  BY <1>4, <1>7, <1>8, <1>9

\* A job that has the next row to copy keeps Copying.
LEMMA StillCopies ==
  ASSUME Copying, wrote' = wrote,
         \A p \in Parties : job'[p] = Null \/ job'[p] = job[p] \/
            \A step \in BothSides \cup Mirrored : (~Begins(p, step) /\ job'[p].step = step) => Next1(wrote, p, step, job'[p].shared)
  PROVE  Copying'
<1> SUFFICES ASSUME NEW step \in BothSides \cup Mirrored, NEW p \in Parties, ~Begins(p, step)
             PROVE  CopiedIs(wrote', job'[p], p, step)
  BY DEF Copying, Begins
<1>1. PICK W, i, j : W = wrote /\ i = job[p] /\ j = job'[p]
  OBVIOUS
<1>2. CopiedIs(W, i, p, step)
  BY <1>1 DEF Copying
<1>3. CASE j = Null \/ j = i \/ j.step # step
  <2>1. CopiedIs(W, j, p, step)
    BY <1>2, <1>3, CopiedSame
  <2> QED
    BY <1>1, <2>1
<1>4. CASE j # Null /\ j # i /\ j.step = step
  <2>1. Next1(W, p, step, j.shared)
    BY <1>1, <1>4
  <2>2. CopiedIs(W, j, p, step)
    BY <1>2, <2>1 DEF CopiedIs, Next1
  <2> QED
    BY <1>1, <2>2
<1> QED
  BY <1>3, <1>4

\* Every step of the deal without a mishap keeps Copying.
LEMMA DealsCopy ==
  ASSUME WroteOK, Copying, DealSteps, mishaps' = <<>>
  PROVE  Copying'
<1>0. \A p \in Parties : JobOK(p, Null)
  BY DEF JobOK
<1>p. \A p, q \in Parties : q = p \/ q = Other(p)
  BY DEF Parties, Other
<1>1. ASSUME NEW p \in Parties, Finish(p) PROVE Copying'
  <2>1. job[p] # Null /\ Write(p, job[p]) /\ job' = [job EXCEPT ![p] = Null]
    BY <1>1 DEF Finish
  <2>2. Appends(p, job[p])
    BY <2>1, WriteAppends
  <2>3. job'[p] = Null /\ job'[Other(p)] = job[Other(p)]
    BY <1>0, <2>1, JobsExcept
  <2>4. JobsLeft
    BY <1>p, <2>3 DEF JobsLeft
  <2>5. NextCopy(p, job[p])
    <3>1. ASSUME NEW step \in BothSides \cup Mirrored, job[p].step = step, ~Begins(p, step)
          PROVE  Next1(wrote, p, step, job[p].shared)
      BY <2>1, <3>1 DEF Copying, CopiedIs, Next1
    <3> QED
      BY <2>3, <3>1 DEF NextCopy
  <2> QED
    BY <2>2, <2>4, <2>5, AppendCopies
<1>2. ASSUME NEW p \in Parties, Die(p) PROVE Copying'
  <2>1. job' = [job EXCEPT ![p] = Null] /\ wrote' = wrote
    BY <1>2 DEF Die
  <2>2. job'[p] = Null /\ job'[Other(p)] = job[Other(p)]
    BY <1>0, <2>1, JobsExcept
  <2> QED
    BY <1>p, <2>1, <2>2, StillCopies
<1>3. ASSUME NEW p \in Parties, NEW step, NEW s, Recorded(p, step, s) PROVE Copying'
  <2>1. PICK b : b = Of(p, step, s, Null)
    OBVIOUS
  <2>2. /\ Write(p, b) /\ job' = job /\ step \in StepNames /\ step # "ship"
        /\ Begins(p, step) \/ s \in Copied(p, step)
    BY <1>3, <2>1 DEF Recorded
  <2>3. b.step = step /\ b.shared = s
    BY <2>1 DEF Of, Body
  <2>4. tape = wrote
    BY <2>2 DEF Write, Untouched
  <2>5. ~Begins(p, step) => Next1(wrote, p, step, s)
    BY <2>2, <2>4, CopiedNext
  <2>6. ~Begins(p, step) => job'[p] = Null \/ job'[p].step # step
    <3>1. job[p] # Null => job[p].step \in {"commit", "ship"} /\ (job[p].step = "commit" => p = "buyer")
      BY DEF WroteOK, JobOK
    <3>2. Begins("buyer", "commit")
      BY DEF Begins
    <3> QED
      BY <2>2, <3>1, <3>2
  <2>7. NextCopy(p, b)
    BY <2>3, <2>5, <2>6 DEF NextCopy
  <2>8. Appends(p, b) /\ JobsLeft
    BY <2>2, WriteAppends DEF JobsLeft
  <2> QED
    BY <2>7, <2>8, AppendCopies
<1>4. ASSUME NEW p \in Parties, NEW b, Prepare(p, b), JobOK(p, b),
             ~Begins(p, b.step) => Next1(wrote, p, b.step, b.shared)
      PROVE  Copying'
  <2>1. job' = [job EXCEPT ![p] = b] /\ wrote' = wrote
    BY <1>4 DEF Prepare
  <2>2. job'[p] = b /\ job'[Other(p)] = job[Other(p)]
    BY <1>4, <2>1, JobsExcept
  <2>3. \A step \in BothSides \cup Mirrored : (~Begins(p, step) /\ job'[p].step = step) => Next1(wrote, p, step, job'[p].shared)
    BY <1>4, <2>2
  <2> QED
    BY <1>p, <2>1, <2>2, <2>3, StillCopies
<1>5. ASSUME NEW b, Committing(b) PROVE Copying'
  <2>1. Prepare("buyer", b) /\ \E t, md, at, d : b = CommitBody(t, md, at, d)
    BY <1>5 DEF Committing
  <2>2. \E s, note : Shaped(s) /\ b = Of("buyer", "commit", s, note)
    BY <2>1, CommitIs, SharedShaped
  <2>3. JobOK("buyer", b) /\ b.step = "commit"
    BY <2>2, OfIs, StepNamesAre DEF JobOK
  <2>4. Begins("buyer", b.step)
    BY <2>3 DEF Begins
  <2> QED
    BY <1>4, <2>1, <2>3, <2>4 DEF Parties
<1>6. ASSUME NEW p \in Parties, NEW s, Shipping(p, s) PROVE Copying'
  <2>1. Prepare(p, ShipBody(p, s)) /\ Shaped(s) /\ (p = "seller" \/ s \in Copied(p, "ship"))
    BY <1>6 DEF Shipping
  <2>2. PICK b : b = ShipBody(p, s)
    OBVIOUS
  <2>3. JobOK(p, b) /\ b.step = "ship" /\ b.shared = s
    <3>1. PICK note : b = Of(p, "ship", s, note)
      BY <2>2, ShipIs
    <3>2. "ship" \in StepNames
      BY StepNamesAre
    <3> QED
      BY <2>1, <3>1, <3>2, OfIs DEF JobOK
  <2>4. tape = wrote
    BY <2>1 DEF Prepare, Untouched
  <2>5. ~Begins(p, "ship") => Next1(wrote, p, "ship", s)
    <3>1. Begins("seller", "ship")
      BY DEF Begins
    <3> QED
      BY <2>1, <2>4, <3>1, CopiedNext
  <2> QED
    BY <1>4, <2>1, <2>2, <2>3, <2>5
<1> QED
  BY <1>1, <1>2, <1>3, <1>5, <1>6 DEF DealSteps

\* Every step keeps CopiedOK.
LEMMA CopiedStep ==
  ASSUME WroteOK, TapeOK, OffersOK, Listing(mishaps), CopiedOK, [Next]_vars
  PROVE  CopiedOK'
<1> SUFFICES ASSUME mishaps' = <<>> PROVE Copying'
  BY DEF CopiedOK, Copying, CopiedIs
<1>1. mishaps = <<>> /\ mishaps' = mishaps
  BY MishapsStep
<1>2. Copying
  BY <1>1, CopiedAre
<1>3. CASE DealSteps
  BY <1>2, <1>3, DealsCopy
<1>4. ASSUME wrote' = wrote, job' = job PROVE Copying'
  BY <1>2, <1>4, StillCopies
<1>5. ASSUME NEW p \in Parties, NEW b, Appends(p, b), job' = job, b.step \notin BothSides \cup Mirrored
      PROVE  Copying'
  <2>1. NextCopy(p, b) /\ JobsLeft
    BY <1>5 DEF NextCopy, JobsLeft
  <2> QED
    BY <1>2, <1>5, <2>1, AppendCopies
<1>6. CASE Harming
  BY <1>1, <1>6, DamageMoves, NoSlip DEF Harming
<1>7. CASE \E p \in Parties : TakePin(p) /\ Aside
  BY <1>4, <1>7 DEF TakePin
<1>8. CASE UNCHANGED vars
  BY <1>4, <1>8 DEF vars, dealVars
<1>9. CASE Handshakes
  <2>1. ASSUME NEW p \in Parties, HandOver(p) \/ Drop(p) PROVE Copying'
    BY <1>4, <2>1 DEF HandOver, Drop, dealVars
  <2>2. ASSUME NEW o \in offers, AlterOffer(o) PROVE Copying'
    BY <1>4, <2>2 DEF AlterOffer
  <2>3. ASSUME NEW p \in Parties, NEW h \in lane.ids, NEW x \in lane.details, Propose(p, h, x) PROVE Copying'
    <3>1. PICK b : b = ProposeBody(p, h, x)
      OBVIOUS
    <3>2. Appends(p, b) /\ b.step = "propose" /\ job' = job
      BY <2>3, <3>1, ProposeMoves DEF ProposeBody, Body
    <3>3. b.step \notin BothSides \cup Mirrored
      BY <3>2 DEF BothSides, Mirrored
    <3> QED
      BY <1>5, <3>2, <3>3
  <2>4. ASSUME NEW p \in Parties, NEW o \in offers, Accept(p, o) PROVE Copying'
    <3>1. PICK b : b = AcceptBody(o)
      OBVIOUS
    <3>2. Appends(p, b) /\ b.step = "accept" /\ job' = job
      BY <2>4, <3>1, AcceptMoves DEF OffersOK, AcceptBody, Body
    <3>3. b.step \notin BothSides \cup Mirrored
      BY <3>2 DEF BothSides, Mirrored
    <3> QED
      BY <1>5, <3>2, <3>3
  <2> QED
    BY <1>9, <2>1, <2>2, <2>3, <2>4 DEF Handshakes
<1> QED
  BY <1>3, <1>6, <1>7, <1>8, <1>9, NextIs DEF Steppings

\* Whoever's row is missing has it to copy, and an altered one is a true copy of a commit
\* the buyer wrote under no mandate of its own.
Fair(f) == \/ f.verdict = "MISSING" /\ Copied(f.side, f.step) # {}
           \/ /\ f.verdict = "ALTERED" /\ f.step = "commit" /\ CitesUnheld(f.k)
              /\ Says("seller", "commit")[f.k] = Says("buyer", "commit")[f.k]
AllFair(s) == Findings(s) /\ \A i \in 1..Len(s) : Fair(s[i])

\* No finding accuses nobody.
LEMMA NoneUnfair == AllFair(<<>>)
BY NoFindings, NothingListed DEF AllFair

\* Fair findings join to fair findings.
LEMMA FairJoined ==
  ASSUME NEW s, NEW t, AllFair(s), AllFair(t)
  PROVE  AllFair(s \o t)
<1>1. PICK A : s \in Seq(A)
  BY DEF AllFair, Findings, Listing
<1>2. PICK B : t \in Seq(B)
  BY DEF AllFair, Findings, Listing
<1>3. PICK C : C = A \cup B
  OBVIOUS
<1>4. s \in Seq(C) /\ t \in Seq(C)
  <2>1. A \subseteq C /\ B \subseteq C
    BY <1>3
  <2> QED
    BY <1>1, <1>2, <2>1
<1>5. /\ Len(s \o t) = Len(s) + Len(t)
      /\ \A i \in 1..Len(s) + Len(t) : (s \o t)[i] = IF i <= Len(s) THEN s[i] ELSE t[i - Len(s)]
  BY <1>4
<1>6. Findings(s \o t)
  BY Joined DEF AllFair
<1>7. Len(s) \in Nat /\ Len(t) \in Nat
  BY DEF AllFair, Findings
<1>8. ASSUME NEW i \in 1..Len(s \o t) PROVE Fair((s \o t)[i])
  <2>1. CASE i <= Len(s)
    BY <1>5, <1>7, <2>1 DEF AllFair
  <2>2. CASE ~(i <= Len(s))
    <3>1. i - Len(s) \in 1..Len(t) /\ (s \o t)[i] = t[i - Len(s)]
      BY <1>5, <1>7, <2>2
    <3> QED
      BY <3>1 DEF AllFair
  <2> QED
    BY <2>1, <2>2
<1> QED
  BY <1>6, <1>8 DEF AllFair

\* Nothing is found at no place.
LEMMA NoPlaces == ASSUME NEW f, f = [i \in DOMAIN InOrder({}) |-> f[i]] PROVE f = <<>>
<1>1. PICK n, S : n = Cardinality(S) /\ S = {}
  OBVIOUS
<1>2. S \subseteq 1..0
  BY <1>1
<1>3. DOMAIN InOrder(S) = 1..n /\ n = 0
  BY <1>1, <1>2, ForEach
<1>4. f = [i \in 1..0 |-> f[i]]
  BY <1>1, <1>3
<1>5. Listing(f) /\ Len(f) = 0
  BY <1>4, FunctionLists
<1> QED
  BY <1>5, ListDomain

\* _self_consistent finds nothing in consistent rows.
LEMMA SelfFindsNone ==
  ASSUME NEW t, Consistent(t) = t.mine
  PROVE  SelfConsistent(t) = <<>>
<1>1. PICK f : f = SelfConsistent(t)
  OBVIOUS
<1>2. t.mine \ Consistent(t) = {}
  OBVIOUS
<1>3. f = [i \in DOMAIN InOrder({}) |-> f[i]]
  BY <1>1, <1>2 DEF SelfConsistent
<1> QED
  BY <1>1, <1>3, NoPlaces

\* Of a list and a copy of its first rows only those that are still to be copied are missing.
LEMMA CopyCompares ==
  ASSUME NEW step, NEW B, NEW S, Listing(B), Listing(S),
         \A k \in 1..Len(B) : k \in 1..Len(S) => B[k].body.digest = S[k].body.digest,
         Len(S) < Len(B) => Copied("seller", step) # {},
         Len(B) < Len(S) => Copied("buyer", step) # {}
  PROVE  AllFair(Compare(step, B, S))
<1>1. Len(B) \in Nat /\ Len(S) \in Nat
  BY ListDomain
<1>2. PICK m, T, f : /\ m = Longest(B, S) /\ f = Compare(step, B, S)
                     /\ T = {k \in 1..Longest(B, S) : \/ k > Len(B) \/ k > Len(S)
                                                      \/ B[k].body.digest # S[k].body.digest}
  OBVIOUS
<1>3. m \in Nat /\ T \subseteq 1..m /\ (m = Len(B) \/ m = Len(S))
  BY <1>1, <1>2 DEF Longest
<1>4. f = [i \in DOMAIN InOrder(T) |->
             CASE InOrder(T)[i] > Len(B) -> Finding("MISSING", step, InOrder(T)[i], "buyer")
               [] InOrder(T)[i] > Len(S) -> Finding("MISSING", step, InOrder(T)[i], "seller")
               [] OTHER -> Finding("ALTERED", step, InOrder(T)[i], Null)]
  BY <1>2 DEF Compare
<1>5. f = [i \in DOMAIN InOrder(T) |-> f[i]]
  BY <1>4
<1>6. ASSUME NEW i \in DOMAIN InOrder(T) PROVE Fair(f[i])
  <2>1. PICK a : a = InOrder(T)[i]
    OBVIOUS
  <2>2. a \in T
    BY <1>3, <2>1, PlaceIn
  <2>3. a \in 1..m /\ (a > Len(B) \/ a > Len(S))
    BY <1>1, <1>2, <1>3, <2>2
  <2>4. f[i] = CASE a > Len(B) -> Finding("MISSING", step, a, "buyer")
                 [] a > Len(S) -> Finding("MISSING", step, a, "seller")
                 [] OTHER -> Finding("ALTERED", step, a, Null)
    BY <1>4, <2>1
  <2>5. CASE a > Len(B)
    <3>1. ~(a > Len(S))
      BY <1>1, <1>3, <2>3, <2>5
    <3>2. f[i] = Finding("MISSING", step, a, "buyer")
      BY <2>4, <2>5, <3>1
    <3>3. Copied("buyer", step) # {}
      BY <1>1, <2>3, <2>5, <3>1
    <3> QED
      BY <3>2, <3>3 DEF Fair, Finding
  <2>6. CASE ~(a > Len(B))
    <3>1. f[i] = Finding("MISSING", step, a, "seller")
      BY <2>3, <2>4, <2>6
    <3>2. Copied("seller", step) # {}
      BY <1>1, <2>3, <2>6
    <3> QED
      BY <3>1, <3>2 DEF Fair, Finding
  <2> QED
    BY <2>5, <2>6
<1>7. Findings(f)
  BY <1>2, CompareFinds
<1>8. Len(f) = Cardinality(T) /\ DOMAIN InOrder(T) = 1..Cardinality(T)
  <2>1. PICK n : n = Cardinality(T)
    OBVIOUS
  <2>2. DOMAIN InOrder(T) = 1..n /\ n \in Nat
    BY <1>3, <2>1, ForEach
  <2>3. f = [i \in 1..n |-> f[i]]
    BY <1>5, <2>2
  <2> QED
    BY <2>1, <2>2, <2>3, FunctionLists
<1> QED
  BY <1>2, <1>6, <1>7, <1>8 DEF AllFair

\* The ledgers and the files are as the programs left them.
LEMMA AsWritten ==
  ASSUME WroteOK, Untouched
  PROVE  /\ tape = wrote /\ given["buyer"] = "buyer" /\ given["seller"] = "seller"
         /\ \A p \in Parties : /\ harm[p] = "none" /\ Intact(tape[p]) /\ Listing(tape[p])
                               /\ DOMAIN tape[p] = 1..Len(tape[p])
                               /\ \A n \in 1..Len(tape[p]) : /\ Written(lane, p, tape[p][n].body)
                                                             /\ tape[p][n].body.digest = tape[p][n].body.shared
<1>1. tape = wrote /\ given["buyer"] = "buyer" /\ given["seller"] = "seller" /\ \A p \in Parties : harm[p] = "none"
  BY DEF Untouched, Parties
<1>2. ASSUME NEW p \in Parties PROVE /\ Intact(tape[p]) /\ Listing(tape[p]) /\ DOMAIN tape[p] = 1..Len(tape[p])
  BY <1>1, IntactIsSpelled, ListDomain DEF WroteOK
<1>3. ASSUME NEW p \in Parties, NEW n \in 1..Len(tape[p])
      PROVE  Written(lane, p, tape[p][n].body) /\ tape[p][n].body.digest = tape[p][n].body.shared
  BY <1>1 DEF WroteOK, Written
<1> QED
  BY <1>1, <1>2, <1>3

\* _load_side refuses no honest tape but one with a handshake of the deal's id.
LEMMA HonestSide ==
  ASSUME WroteOK, TapeOK, Untouched, NEW p \in Parties, NEW t, t = LoadSide(p, TheDeal, p)
  PROVE  /\ Consistent(t) = t.mine
         /\ TheDeal \notin lane.ids => ~t.refused
<1>1. PICK rows : rows = tape[p]
  OBVIOUS
<1>2. /\ harm[p] = "none" /\ Intact(rows) /\ DOMAIN rows = 1..Len(rows)
      /\ \A n \in 1..Len(rows) : Written(lane, p, rows[n].body) /\ rows[n].body.digest = rows[n].body.shared
  BY <1>1, AsWritten
<1>3. PICK alien, refused :
         /\ alien = (\E n \in DOMAIN tape[p] : LET b == tape[p][n].body
                                              IN  /\ b.deal = TheDeal
                                                  /\ b.step \notin StepNames \/ b.party # p)
         /\ refused = (harm[p] # "none" \/ (harm[p] = "scrap" \/ ~Intact(tape[p])) \/ alien)
  OBVIOUS
<1>4. /\ t.refused = refused /\ t.rows = (IF refused THEN <<>> ELSE tape[p])
      /\ t.mine = (IF refused THEN {} ELSE {n \in DOMAIN tape[p] : tape[p][n].body.deal = TheDeal})
  BY <1>3 DEF LoadSide
<1>5. Consistent(t) = t.mine
  <2>1. CASE refused
    BY <1>4, <2>1 DEF Consistent
  <2>2. CASE ~refused
    <3>1. t.rows = rows /\ t.mine = {n \in DOMAIN rows : rows[n].body.deal = TheDeal}
      BY <1>1, <1>4, <2>2
    <3>2. \A n \in t.mine : t.rows[n].body.digest = t.rows[n].body.shared
      BY <1>2, <3>1
    <3> QED
      BY <3>2 DEF Consistent
  <2> QED
    BY <2>1, <2>2
<1>6. ASSUME TheDeal \notin lane.ids PROVE ~t.refused
  <2>1. \A n \in 1..Len(rows) : rows[n].body.deal = TheDeal => DealRow(p, rows[n].body)
    <3> SUFFICES ASSUME NEW n \in 1..Len(rows), rows[n].body.deal = TheDeal PROVE DealRow(p, rows[n].body)
      OBVIOUS
    <3>1. Written(lane, p, rows[n].body) /\ lane \in Lanes
      BY <1>2 DEF WroteOK
    <3>2. ~FirstRow(lane, rows[n].body)
      BY <3>1, FirstRowIs
    <3> QED
      BY <1>6, <3>1, <3>2 DEF Written, ProposeRow, AcceptRow
  <2>2. ~alien
    BY <1>1, <1>2, <1>3, <2>1 DEF DealRow
  <2> QED
    BY <1>1, <1>2, <1>3, <1>4, <2>2
<1> QED
  BY <1>5, <1>6

\* A pin of an honest ledger with its side finds nothing.
LEMMA HonestPins ==
  ASSUME WroteOK, TapeOK, PinOK, Untouched, pin = NoPin \/ pin.side # Null,
         NEW B, NEW S, B = LoadSide("buyer", TheDeal, "buyer"), S = LoadSide("seller", TheDeal, "seller")
  PROVE  CheckPins(B, S) = <<>>
<1>1. CASE pin = NoPin
  <2>a. pin.side \notin {"buyer", "seller"}
    BY <1>1, NullIsApart DEF NoPin, Parties
  <2> QED
    BY <1>1, <2>a DEF CheckPins
<1>2. CASE pin # NoPin
  <2>1. /\ pin.of \in Parties /\ pin.side = pin.of /\ pin.rows \in 1..Len(wrote[pin.of])
        /\ pin.chain = wrote[pin.of][pin.rows].chain
    BY <1>2 DEF PinOK
  <2>2. ASSUME NEW t, t = LoadSide(pin.of, TheDeal, pin.of) PROVE CheckPin(t) = <<>>
    <3>1. CASE t.refused
      BY <3>1 DEF CheckPin
    <3>2. CASE ~t.refused
      <4>1. t.rows = wrote[pin.of]
        BY <2>1, <2>2, <3>2, LoadIs, AsWritten
      <4>2. Len(t.rows) \in Nat /\ pin.rows \in Nat /\ pin.rows <= Len(t.rows)
        BY <2>1, <4>1, ListDomain DEF WroteOK
      <4>3. ~(Len(t.rows) < pin.rows) /\ Len(t.rows) >= pin.rows
        BY <4>2
      <4> QED
        BY <2>1, <3>2, <4>1, <4>3 DEF CheckPin
    <3> QED
      BY <3>1, <3>2
  <2>3. CASE pin.side = "buyer"
    BY <1>2, <2>1, <2>2, <2>3 DEF CheckPins
  <2>4. CASE pin.side = "seller"
    BY <1>2, <2>1, <2>2, <2>4 DEF CheckPins
  <2> QED
    BY <2>1, <2>3, <2>4 DEF Parties
<1> QED
  BY <1>1, <1>2

\* What the two honest parties say of a step, and who still has to copy.
LEMMA HonestStep2 ==
  ASSUME WroteOK, TapeOK, Untouched, Copying, NEW step \in BothSides \cup Mirrored
  PROVE  LET B == OfStep(tape["buyer"], TheDeal, step)
             S == OfStep(tape["seller"], TheDeal, step)
         IN  /\ Listing(B) /\ Listing(S)
             /\ \A k \in 1..Len(B) : k \in 1..Len(S) => B[k].body.shared = S[k].body.shared
             /\ Len(S) < Len(B) => Copied("seller", step) # {}
             /\ Len(B) < Len(S) => Copied("buyer", step) # {}
             /\ step = "commit" => Len(S) <= Len(B)
<1>1. PICK B, S : B = OfStep(tape["buyer"], TheDeal, step) /\ S = OfStep(tape["seller"], TheDeal, step)
  OBVIOUS
<1>2. tape = wrote /\ Listing(tape["buyer"]) /\ Listing(tape["seller"])
  BY AsWritten DEF Parties
<1>3. Listing(B) /\ Listing(S) /\ Len(B) \in Nat /\ Len(S) \in Nat /\ DOMAIN B = 1..Len(B) /\ DOMAIN S = 1..Len(S)
  BY <1>1, <1>2, StepRows, ListDomain DEF InStepOf
<1>4. Other("buyer") = "seller" /\ Other("seller") = "buyer" /\ "buyer" \in Parties /\ "seller" \in Parties
  BY DEF Other, Parties
<1>5. Copied("seller", step) = {B[k].body.shared : k \in {Len(S) + 1} \cap DOMAIN B}
  BY <1>1, <1>4 DEF Copied
<1>6. Copied("buyer", step) = {S[k].body.shared : k \in {Len(B) + 1} \cap DOMAIN S}
  BY <1>1, <1>4 DEF Copied
<1>7. Len(S) < Len(B) => Copied("seller", step) # {}
  <2>1. Len(S) < Len(B) => Len(S) + 1 \in DOMAIN B
    BY <1>3
  <2> QED
    BY <1>5, <2>1
<1>8. Len(B) < Len(S) => Copied("buyer", step) # {}
  <2>1. Len(B) < Len(S) => Len(B) + 1 \in DOMAIN S
    BY <1>3
  <2> QED
    BY <1>6, <2>1
<1>9. CASE step \in {"commit", "pay", "cancel"}
  <2>1. ~Begins("seller", step)
    BY <1>9 DEF Begins
  <2>2. CopiedIs(wrote, job["seller"], "seller", step)
    BY <1>4, <2>1 DEF Copying
  <2>3. Len(S) <= Len(B) /\ \A k \in 1..Len(S) : S[k].body.shared = B[k].body.shared
    BY <1>1, <1>2, <1>4, <2>2 DEF CopiedIs
  <2> QED
    BY <1>1, <1>3, <1>7, <1>8, <2>3
<1>10. CASE step \in {"ship", "deliver"}
  <2>1. ~Begins("buyer", step)
    BY <1>10 DEF Begins
  <2>2. CopiedIs(wrote, job["buyer"], "buyer", step)
    BY <1>4, <2>1 DEF Copying
  <2>3. Len(B) <= Len(S) /\ \A k \in 1..Len(B) : B[k].body.shared = S[k].body.shared
    BY <1>1, <1>2, <1>4, <2>2 DEF CopiedIs
  <2>4. step # "commit"
    BY <1>10
  <2> QED
    BY <1>1, <1>3, <1>7, <1>8, <2>3, <2>4
<1>11. step \in {"commit", "pay", "cancel"} \/ step \in {"ship", "deliver"}
  BY DEF BothSides, Mirrored
<1> QED
  BY <1>9, <1>10, <1>11

\* What CitesHeld finds of the commits an honest seller copied is fair.
LEMMA HonestCites ==
  ASSUME WroteOK, TapeOK, Untouched, Copying, NEW M, NEW C,
         M = OfStep(tape["buyer"], TheDeal, "mandate"), C = OfStep(tape["seller"], TheDeal, "commit")
  PROVE  AllFair(CitesHeld(M, C))
<1>1. PICK D : D = OfStep(tape["buyer"], TheDeal, "commit")
  OBVIOUS
<1>2. "commit" \in BothSides \cup Mirrored /\ "buyer" \in Parties /\ "seller" \in Parties
  BY DEF BothSides, Parties
<1>3. /\ Listing(D) /\ Listing(C) /\ Len(C) <= Len(D)
      /\ \A k \in 1..Len(D) : k \in 1..Len(C) => D[k].body.shared = C[k].body.shared
  BY <1>1, <1>2, HonestStep2
<1>4. /\ Listing(M) /\ (M = <<>> <=> Says("buyer", "mandate") = <<>>)
      /\ Says("buyer", "mandate") = [j \in 1..Len(M) |-> M[j].body.shared]
  BY <1>2, SaysIs
<1>5. /\ Says("buyer", "commit") = [k \in 1..Len(D) |-> D[k].body.shared]
      /\ Says("seller", "commit") = [k \in 1..Len(C) |-> C[k].body.shared]
  BY <1>1, <1>2, SaysIs
<1>6. /\ Len(C) \in Nat /\ DOMAIN C = 1..Len(C) /\ Len(M) \in Nat /\ DOMAIN M = 1..Len(M)
      /\ Len(D) \in Nat
  BY <1>3, <1>4, ListDomain
<1>7. PICK held, T, f : /\ held = {m.body.shared.md : m \in ToSet(M)} /\ f = CitesHeld(M, C)
                        /\ T = {k \in DOMAIN C : held # {} /\ C[k].body.shared.md \notin held}
  OBVIOUS
<1>8. T \subseteq 1..Len(C)
  BY <1>6, <1>7
<1>9. f = [i \in DOMAIN InOrder(T) |-> Finding("ALTERED", "commit", InOrder(T)[i], "seller")]
  BY <1>7 DEF CitesHeld
<1>10. f = [i \in DOMAIN InOrder(T) |-> f[i]]
  BY <1>9
<1>11. \A x : x \in held <=> \E j \in 1..Len(M) : M[j].body.shared.md = x
  BY <1>6, <1>7 DEF ToSet
<1>12. ASSUME NEW i \in DOMAIN InOrder(T) PROVE Fair(f[i])
  <2>1. PICK a : a = InOrder(T)[i]
    OBVIOUS
  <2>2. a \in T
    BY <1>6, <1>8, <2>1, PlaceIn
  <2>3. f[i] = Finding("ALTERED", "commit", a, "seller")
    BY <1>9, <2>1
  <2>a. a \in DOMAIN C /\ held # {} /\ C[a].body.shared.md \notin held
    BY <1>7, <2>2
  <2>b. a \in 1..Len(C) => a \in 1..Len(D)
    BY <1>3, <1>6
  <2>4. a \in 1..Len(C) /\ a \in 1..Len(D) /\ held # {} /\ C[a].body.shared.md \notin held
    BY <1>6, <2>a, <2>b
  <2>5. D[a].body.shared = C[a].body.shared
    BY <1>3, <2>4
  <2>6. Says("seller", "commit")[a] = Says("buyer", "commit")[a] /\ a \in DOMAIN Says("buyer", "commit")
    BY <1>5, <2>4, <2>5
  <2>7. Says("buyer", "commit")[a].md \notin held
    BY <1>5, <2>4, <2>5
  <2>8. Says("buyer", "mandate") # <<>>
    <3>1. PICK j \in 1..Len(M) : TRUE
      BY <1>11, <2>4
    <3>2. M # <<>>
      BY <1>6, <3>1, NothingListed
    <3> QED
      BY <1>4, <3>2
  <2>9. \A s \in ToSet(Says("buyer", "mandate")) : s.md # Says("buyer", "commit")[a].md
    BY <1>4, <1>11, <2>7 DEF ToSet
  <2>10. CitesUnheld(a)
    BY <2>6, <2>8, <2>9 DEF CitesUnheld
  <2> QED
    BY <2>3, <2>6, <2>10 DEF Fair, Finding
<1>13. Findings(f)
  BY <1>3, <1>4, <1>7, CitesFind
<1>14. Len(f) = Cardinality(T) /\ DOMAIN InOrder(T) = 1..Cardinality(T)
  <2>1. PICK n : n = Cardinality(T)
    OBVIOUS
  <2>2. DOMAIN InOrder(T) = 1..n /\ n \in Nat
    BY <1>6, <1>8, <2>1, ForEach
  <2>3. f = [i \in 1..n |-> f[i]]
    BY <1>10, <2>2
  <2> QED
    BY <2>1, <2>2, <2>3, FunctionLists
<1> QED
  BY <1>7, <1>12, <1>13, <1>14 DEF AllFair

\* What is found in a step of two honest tapes is a row still to be copied.
LEMMA HonestInStep ==
  ASSUME WroteOK, TapeOK, Untouched, Copying, NEW B, NEW S, B = LoadSide("buyer", TheDeal, "buyer"),
         S = LoadSide("seller", TheDeal, "seller"), ~B.refused, ~S.refused, NEW step \in BothSides \cup Mirrored
  PROVE  AllFair(InStep(B, S, step))
<1>1. "buyer" \in Parties /\ "seller" \in Parties
  BY DEF Parties
<1>2. Consistent(B) = B.mine /\ Consistent(S) = S.mine
  BY <1>1, HonestSide
<1>3. PICK b, s : b = OfStep(tape["buyer"], TheDeal, step) /\ s = OfStep(tape["seller"], TheDeal, step)
  OBVIOUS
<1>4. By(B, step) = b /\ \A k \in 1..Len(b) : b[k].body.digest = b[k].body.shared
  BY <1>1, <1>2, <1>3, ByIsOfStep
<1>5. By(S, step) = s /\ \A k \in 1..Len(s) : s[k].body.digest = s[k].body.shared
  BY <1>1, <1>2, <1>3, ByIsOfStep
<1>6. /\ Listing(b) /\ Listing(s)
      /\ \A k \in 1..Len(b) : k \in 1..Len(s) => b[k].body.shared = s[k].body.shared
      /\ Len(s) < Len(b) => Copied("seller", step) # {}
      /\ Len(b) < Len(s) => Copied("buyer", step) # {}
  BY <1>3, HonestStep2
<1>7. \A k \in 1..Len(b) : k \in 1..Len(s) => b[k].body.digest = s[k].body.digest
  BY <1>4, <1>5, <1>6
<1>8. AllFair(Compare(step, b, s))
  BY <1>6, <1>7, CopyCompares
<1>9. CASE step \in Compared(B, S)
  BY <1>4, <1>5, <1>8, <1>9 DEF InStep
<1>10. CASE step \notin Compared(B, S)
  BY <1>10, NoneUnfair DEF InStep
<1> QED
  BY <1>9, <1>10

\* All that is found of two honest tapes is fair.
LEMMA HonestFound ==
  ASSUME WroteOK, TapeOK, PinOK, Untouched, Copying, pin = NoPin \/ pin.side # Null,
         NEW B, NEW S, B = LoadSide("buyer", TheDeal, "buyer"), S = LoadSide("seller", TheDeal, "seller")
  PROVE  AllFair(Found(B, S))
<1>1. "buyer" \in Parties /\ "seller" \in Parties
  BY DEF Parties
<1>2. Consistent(B) = B.mine /\ Consistent(S) = S.mine
  BY <1>1, HonestSide
<1>3. PICK sb, ss, cp : sb = SelfConsistent(B) /\ ss = SelfConsistent(S) /\ cp = CheckPins(B, S)
  OBVIOUS
<1>4. sb = <<>> /\ ss = <<>> /\ cp = <<>>
  BY <1>2, <1>3, SelfFindsNone, HonestPins
<1>5. CASE ~Readable(B, S)
  <2>1. Found(B, S) = sb \o ss \o <<>> \o cp
    BY <1>3, <1>5 DEF Found
  <2>2. AllFair(<<>> \o <<>>)
    BY NoneUnfair, FairJoined
  <2>3. AllFair((<<>> \o <<>>) \o <<>>)
    BY <2>2, NoneUnfair, FairJoined
  <2>4. AllFair(((<<>> \o <<>>) \o <<>>) \o <<>>)
    BY <2>3, NoneUnfair, FairJoined
  <2> QED
    BY <1>4, <2>1, <2>4
<1>6. CASE Readable(B, S)
  <2>1. ~B.refused /\ ~S.refused
    BY <1>6 DEF Readable
  <2>2. PICK f1, f2, f3, f4, f5, f6 :
          /\ f1 = InStep(B, S, "commit") /\ f2 = InStep(B, S, "pay") /\ f3 = InStep(B, S, "ship")
          /\ f4 = InStep(B, S, "deliver") /\ f5 = InStep(B, S, "cancel")
          /\ f6 = CitesHeld(By(B, "mandate"), By(S, "commit"))
    OBVIOUS
  <2>3. AllFair(f1) /\ AllFair(f2)
    BY <2>1, <2>2, HonestInStep DEF BothSides
  <2>4. AllFair(f3) /\ AllFair(f4) /\ AllFair(f5)
    BY <2>1, <2>2, HonestInStep DEF Mirrored
  <2>5. AllFair(f6)
    <3>1. By(B, "mandate") = OfStep(tape["buyer"], TheDeal, "mandate")
      BY <1>1, <1>2, <2>1, ByIsOfStep
    <3>2. By(S, "commit") = OfStep(tape["seller"], TheDeal, "commit")
      BY <1>1, <1>2, <2>1, ByIsOfStep
    <3> QED
      BY <2>2, <3>1, <3>2, HonestCites
  <2>6. AllFair(f1 \o f2)
    BY <2>3, FairJoined
  <2>7. AllFair((f1 \o f2) \o f3)
    BY <2>4, <2>6, FairJoined
  <2>8. AllFair(((f1 \o f2) \o f3) \o f4)
    BY <2>4, <2>7, FairJoined
  <2>9. AllFair((((f1 \o f2) \o f3) \o f4) \o f5)
    BY <2>4, <2>8, FairJoined
  <2>10. PICK r : r = f1 \o f2 \o f3 \o f4 \o f5 \o f6
    OBVIOUS
  <2>11. AllFair(r)
    BY <2>5, <2>9, <2>10, FairJoined
  <2>12. Found(B, S) = sb \o ss \o r \o cp
    BY <1>3, <1>6, <2>2, <2>10 DEF Found
  <2>13. AllFair(<<>> \o <<>>)
    BY NoneUnfair, FairJoined
  <2>14. AllFair((<<>> \o <<>>) \o r)
    BY <2>11, <2>13, FairJoined
  <2>15. AllFair(((<<>> \o <<>>) \o r) \o <<>>)
    BY <2>14, NoneUnfair, FairJoined
  <2> QED
    BY <1>4, <2>12, <2>15
<1> QED
  BY <1>5, <1>6

\* Two tapes that can be read and of which no step is compared hold no commit and no payment.
LEMMA NothingCompared ==
  ASSUME WroteOK, TapeOK, Untouched, NEW B, NEW S, B = LoadSide("buyer", TheDeal, "buyer"),
         S = LoadSide("seller", TheDeal, "seller"), ~B.refused, ~S.refused, Compared(B, S) = {}
  PROVE  \A step \in BothSides : Says("buyer", step) = <<>> /\ Says("seller", step) = <<>>
<1>1. "buyer" \in Parties /\ "seller" \in Parties
  BY DEF Parties
<1>2. Consistent(B) = B.mine /\ Consistent(S) = S.mine
  BY <1>1, HonestSide
<1> TAKE step \in BothSides
<1>3. By(B, step) = <<>> /\ By(S, step) = <<>>
  BY DEF Compared
<1>4. OfStep(tape["buyer"], TheDeal, step) = <<>>
  BY <1>1, <1>2, <1>3, ByIsOfStep
<1>5. OfStep(tape["seller"], TheDeal, step) = <<>>
  BY <1>1, <1>2, <1>3, ByIsOfStep
<1> QED
  BY <1>1, <1>4, <1>5, SaysIs

\* Without a mishap, HonestDealIsNotAccused.
LEMMA DealHonest ==
  ASSUME WroteOK, TapeOK, PinOK, Honest, CopiedOK
  PROVE  HonestDealIsNotAccused
<1> SUFFICES ASSUME mishaps = <<>>, pin = NoPin \/ pin.side # Null
             PROVE  /\ \/ Dispute.verdict \in {"MATCHED", "MISSING", "COULD_NOT_LOOK"}
                       \/ /\ Dispute.verdict = "ALTERED" /\ Dispute.step = "commit"
                          /\ CitesUnheld(Dispute.k)
                          /\ Says("seller", "commit")[Dispute.k] = Says("buyer", "commit")[Dispute.k]
                    /\ Dispute.verdict = "MISSING" => Copied(Dispute.side, Dispute.step) # {}
                    /\ Dispute.verdict = "COULD_NOT_LOOK" =>
                         \/ \A step \in BothSides : Says("buyer", step) = <<>> /\ Says("seller", step) = <<>>
                         \/ \E p \in Parties, r \in lane.ids : r = TheDeal
  BY DEF HonestDealIsNotAccused
<1>1. Untouched /\ Copying
  BY CopiedAre DEF Honest
<1>2. given["buyer"] = "buyer" /\ given["seller"] = "seller" /\ "buyer" \in Parties /\ "seller" \in Parties
  BY <1>1, AsWritten DEF Parties
<1>3. PICK B, S, found : /\ B = LoadSide(given["buyer"], TheDeal, "buyer")
                         /\ S = LoadSide(given["seller"], TheDeal, "seller") /\ found = Found(B, S)
  OBVIOUS
<1>4. B = LoadSide("buyer", TheDeal, "buyer") /\ S = LoadSide("seller", TheDeal, "seller")
  BY <1>2, <1>3
<1>5. Dispute = CASE found # <<>> -> Headline(found)
                  [] found = <<>> /\ (~Readable(B, S) \/ Compared(B, S) = {}) -> CouldNotLook
                  [] OTHER -> Matched
  BY <1>3 DEF Dispute
<1>6. AllFair(found)
  BY <1>1, <1>3, <1>4, HonestFound
<1>7. CASE found # <<>>
  <2>1. Dispute = Headline(found)
    BY <1>5, <1>7
  <2>2. PICK i \in 1..Len(found) : Headline(found) = found[i]
    BY <1>6, <1>7, HeadlineIs DEF AllFair
  <2>3. Fair(Dispute)
    BY <1>6, <2>1, <2>2 DEF AllFair
  <2> QED
    BY <2>3 DEF Fair
<1>8. CASE found = <<>> /\ (~Readable(B, S) \/ Compared(B, S) = {})
  <2>1. Dispute = CouldNotLook
    BY <1>5, <1>8
  <2>2. Dispute.verdict = "COULD_NOT_LOOK"
    BY <2>1 DEF CouldNotLook, Finding
  <2>3. CASE TheDeal \in lane.ids
    BY <1>2, <2>2, <2>3
  <2>4. CASE TheDeal \notin lane.ids
    <3>1. ~B.refused /\ ~S.refused
      BY <1>1, <1>2, <1>4, <2>4, HonestSide
    <3>2. Compared(B, S) = {}
      BY <1>8, <3>1 DEF Readable
    <3>3. \A step \in BothSides : Says("buyer", step) = <<>> /\ Says("seller", step) = <<>>
      BY <1>1, <1>4, <3>1, <3>2, NothingCompared
    <3> QED
      BY <2>2, <3>3
  <2> QED
    BY <2>3, <2>4
<1>9. CASE found = <<>> /\ ~(~Readable(B, S) \/ Compared(B, S) = {})
  <2>1. Dispute = Matched
    BY <1>5, <1>9
  <2>2. Dispute.verdict = "MATCHED"
    BY <2>1 DEF Matched, Finding
  <2> QED
    BY <2>2
<1> QED
  BY <1>7, <1>8, <1>9

\* _read of an honest ledger looks and finds it unbroken.
LEMMA HonestRead ==
  ASSUME WroteOK, TapeOK, Untouched, NEW f \in Parties, NEW P, P = Read(f)
  PROVE  ~P.cnl /\ ~P.broken /\ P.rows = tape[f] /\ \A h, step : Rows(P, h, step) = On(f, h, step)
<1>1. PICK rows, t : rows = tape[f] /\ t = LoadSide(f, NoDeal, f)
  OBVIOUS
<1>2. /\ harm[f] = "none" /\ Intact(rows) /\ DOMAIN rows = 1..Len(rows) /\ lane \in Lanes
      /\ \A n \in 1..Len(rows) : Written(lane, f, rows[n].body)
  BY <1>1, AsWritten DEF WroteOK
<1>3. \A n \in DOMAIN rows : rows[n].body.deal # NoDeal
  <2> SUFFICES ASSUME NEW n \in DOMAIN rows PROVE rows[n].body.deal # NoDeal
    OBVIOUS
  <2>1. PICK b : b = rows[n].body
    OBVIOUS
  <2>2. FirstRow(lane, b) \/ DealRow(f, b) \/ ProposeRow(lane, f, b) \/ AcceptRow(lane, b)
    BY <1>2, <2>1 DEF Written
  <2>3. NoDeal \notin lane.ids /\ NoDeal # TheDeal /\ \A c \in ToSet(lane.first) : NoDeal # c.deal
    BY <1>2, NoDealIsNone
  <2>4. ASSUME FirstRow(lane, b) PROVE b \in ToSet(lane.first)
    <3>1. PICK T : lane.first \in Seq(T)
      BY <1>2, FirstRowsAreOthers
    <3> QED
      BY <2>4, <3>1 DEF FirstRow, ToSet
  <2> QED
    BY <2>1, <2>2, <2>3, <2>4 DEF DealRow, ProposeRow, AcceptRow
<1>4. PICK alien, refused :
         /\ alien = (\E n \in DOMAIN tape[f] : LET b == tape[f][n].body
                                              IN  /\ b.deal = NoDeal
                                                  /\ b.step \notin StepNames \/ b.party # f)
         /\ refused = (harm[f] # "none" \/ (harm[f] = "scrap" \/ ~Intact(tape[f])) \/ alien)
  OBVIOUS
<1>5. ~alien /\ ~refused
  BY <1>1, <1>2, <1>3, <1>4
<1>6. t.refused = refused /\ t.broken = ((harm[f] = "scrap" \/ ~Intact(tape[f])) /\ harm[f] # "gone")
  BY <1>1, <1>4 DEF LoadSide
<1>7. ~t.refused /\ ~t.broken
  BY <1>1, <1>2, <1>5, <1>6
<1>8. ~P.cnl /\ ~P.broken
  BY <1>1, <1>7 DEF Read
<1> QED
  BY <1>8, ReadIs

\* _verify of one handshake that is there is the word of that handshake.
LEMMA VerifyIs ==
  ASSUME NEW h
  PROVE  LET A == Read(given["buyer"])
             B == Read(given["seller"])
             seen == {i \in lane.ids : \E r \in {A, B} : Rows(r, i, "propose") \cup Rows(r, i, "accept") # {}}
         IN  (~A.cnl /\ ~B.cnl /\ h \in seen) => Verify({h}) = One(h, A, B)
<1> DEFINE A == Read(given["buyer"])
           B == Read(given["seller"])
           seen == {i \in lane.ids : \E r \in {A, B} : Rows(r, i, "propose") \cup Rows(r, i, "accept") # {}}
           ids == IF {h} = {} THEN seen ELSE {h}
           words == {One(i, A, B) : i \in ids}
           out == A.cnl \/ B.cnl \/ ids = {} \/ ~(ids \subseteq seen)
<1>1. Verify({h}) = IF out THEN Unseen
                    ELSE CHOOSE w \in words : \A v \in words : Severity(w) >= Severity(v)
  BY DEF Verify
<1>2. ids = {h}
  OBVIOUS
<1>3. words = {One(i, A, B) : i \in ids} /\ ((~A.cnl /\ ~B.cnl /\ h \in seen) => ~out)
  BY <1>2
<1> HIDE DEF A, B, seen, ids, words, out
<1>4. words = {One(h, A, B)}
  BY <1>2, <1>3
<1>5. words # {} /\ words \subseteq {Agreed, Different, Missing, Unseen}
  BY <1>4, OneIs
<1>6. ~out => Verify({h}) \in words
  BY <1>1, <1>5, WorstIs
<1>7. (~A.cnl /\ ~B.cnl /\ h \in seen) => Verify({h}) = One(h, A, B)
  BY <1>3, <1>4, <1>6
<1> QED
  BY <1>7 DEF A, B, seen

\* verify over honest ledgers lines up the one proposer with the other party.
LEMMA HonestVerify ==
  ASSUME WroteOK, TapeOK, Untouched, NEW h \in lane.ids, NEW p \in Parties, NEW P, NEW O,
         P = Read(p), O = Read(Other(p)), On(p, h, "propose") # {}, On(Other(p), h, "propose") = {}
  PROVE  Verify({h}) = IF On(Other(p), h, "accept") = {} THEN Missing ELSE LineUp(h, P, O)
<1>1. Other(p) \in Parties
  BY BothParties DEF PartiesAre
<1>2. ~P.cnl /\ ~O.cnl /\ (\A i, step : Rows(P, i, step) = On(p, i, step)) /\ \A i, step : Rows(O, i, step) = On(Other(p), i, step)
  BY <1>1, HonestRead
<1>3. given["buyer"] = "buyer" /\ given["seller"] = "seller"
  BY AsWritten
<1>4. PICK A, B : A = Read("buyer") /\ B = Read("seller")
  OBVIOUS
<1>5. (A = P /\ B = O) \/ (A = O /\ B = P)
  BY <1>4 DEF Parties, Other
<1>6. PICK seen : seen = {i \in lane.ids : \E r \in {A, B} : Rows(r, i, "propose") \cup Rows(r, i, "accept") # {}}
  OBVIOUS
<1>7. h \in seen
  <2>1. Rows(P, h, "propose") # {}
    BY <1>2
  <2>2. P \in {A, B}
    BY <1>5
  <2> QED
    BY <1>6, <2>1, <2>2
<1>8. ~A.cnl /\ ~B.cnl
  BY <1>2, <1>5
<1>9. PICK w : w = One(h, A, B)
  OBVIOUS
<1>11. Verify({h}) = w
  BY <1>3, <1>4, <1>6, <1>7, <1>8, <1>9, VerifyIs
<1>12. Pairs(h, P, O) <=> On(Other(p), h, "accept") # {}
  BY <1>2 DEF Pairs
<1>13. ~Pairs(h, O, P)
  BY <1>2 DEF Pairs
<1>14. w = IF Pairs(h, P, O) THEN LineUp(h, P, O) ELSE Missing
  BY <1>5, <1>9, <1>13 DEF One
<1> QED
  BY <1>11, <1>12, <1>14

\* A chain is the chain of one row.
LEMMA SpelledOnce ==
  ASSUME NEW rows, Listing(rows), Spelled(rows), NEW n \in 1..Len(rows), NEW m \in 1..Len(rows), rows[n].chain = rows[m].chain
  PROVE  n = m
BY PositionIs

\* The last acceptance agrees iff it is of the last proposal.
LEMMA HonestLineUp ==
  ASSUME WroteOK, TapeOK, OffersOK, ExactOK, mishaps = <<>>, Untouched, NEW h \in lane.ids, NEW p \in Parties, NEW P, NEW O,
         P = Read(p), O = Read(Other(p)), On(p, h, "propose") # {}, On(Other(p), h, "propose") = {}, On(Other(p), h, "accept") # {}
  PROVE  LineUp(h, P, O) = IF Countersigned(h, p, Other(p)) THEN Agreed ELSE Different
<1>1. PICK o : o = Other(p)
  OBVIOUS
<1>2. o \in Parties /\ \A q \in Parties : q = p \/ q = o
  BY <1>1, BothParties DEF PartiesAre, Parties, Other
<1>3. /\ ~P.cnl /\ ~P.broken /\ P.rows = tape[p] /\ ~O.cnl /\ ~O.broken /\ O.rows = tape[o]
      /\ Rows(P, h, "propose") = On(p, h, "propose") /\ Rows(O, h, "accept") = On(o, h, "accept")
  BY <1>1, <1>2, HonestRead
<1>4. PICK np, nq : np = Max(Rows(P, h, "propose")) /\ nq = Max(Rows(O, h, "accept"))
  OBVIOUS
<1>5. LastOn(p, h, "propose") = np /\ np \in On(p, h, "propose") /\ np \in 1..Len(tape[p])
  BY <1>3, <1>4, OnIs
<1>6. LastOn(o, h, "accept") = nq /\ nq \in On(o, h, "accept") /\ nq \in 1..Len(tape[o])
  BY <1>1, <1>2, <1>3, <1>4, OnIs
<1>7. tape = wrote
  BY AsWritten
<1>8. PICK b, q : b = P.rows[np].body /\ q = O.rows[nq].body
  OBVIOUS
<1>9. b = wrote[p][np].body /\ b.digest = b.shared
  BY <1>3, <1>5, <1>7, <1>8, AsWritten
<1>10. q = tape[o][nq].body /\ q = wrote[o][nq].body /\ q.digest = q.shared /\ q.deal = h /\ q.step = "accept"
  BY <1>2, <1>3, <1>6, <1>7, <1>8, AsWritten DEF On
<1>a. b.digest = b.shared /\ q.digest = q.shared /\ ~P.broken /\ ~O.broken
  BY <1>3, <1>9, <1>10
<1>11. PICK a \in accepted : a.by = o /\ a.row = nq
  BY <1>2, <1>6, <1>7, <1>10 DEF OffersOK
<1>12. Accepts(wrote, a) /\ Exact(lane, wrote, a.offer)
  BY <1>11 DEF OffersOK, ExactOK
<1>13. q = AcceptBody(a.offer)
  BY <1>10, <1>11, <1>12 DEF Accepts
<1>14. a.offer.id = h /\ q.shared = a.offer.shared
       /\ q.cites.chain = a.offer.chain /\ q.cites.row = a.offer.row /\ q.cites.ledger = a.offer.ledger
  BY <1>10, <1>13 DEF AcceptBody, Body
<1>15. PICK r \in Parties, n \in Nat :
         /\ Proposed(lane, wrote, r, n) /\ n \in 1..Len(wrote[r])
         /\ a.offer = [id |-> wrote[r][n].body.deal, shared |-> wrote[r][n].body.shared, digest |-> wrote[r][n].body.shared,
                       chain |-> wrote[r][n].chain, row |-> n, ledger |-> wrote[r][1].chain]
  BY <1>12 DEF Exact
<1>16. /\ a.offer.id = wrote[r][n].body.deal /\ a.offer.shared = wrote[r][n].body.shared /\ a.offer.chain = wrote[r][n].chain
       /\ a.offer.row = n /\ a.offer.ledger = wrote[r][1].chain
  BY <1>15
<1>17. n \in On(r, h, "propose")
  BY <1>7, <1>14, <1>15, <1>16 DEF On, Proposed
<1>18. r = p
  BY <1>1, <1>2, <1>17
<1>19. n \in 1..Len(tape[p]) /\ DOMAIN P.rows = 1..Len(tape[p])
  BY <1>3, <1>7, <1>15, <1>18, AsWritten
<1>20. q.cites.ledger = P.rows[1].chain /\ q.cites.row \in DOMAIN P.rows /\ P.rows[q.cites.row].chain = q.cites.chain
  BY <1>3, <1>7, <1>14, <1>16, <1>18, <1>19
<1>21. CASE n = np
  <2>1. Binding(P, np, q.cites) = Agreed
    BY <1>14, <1>16, <1>20, <1>21, BindingIs
  <2>2. b.shared = q.shared
    BY <1>9, <1>14, <1>16, <1>18, <1>21
  <2>3. LineUp(h, P, O) = Agreed
    BY <1>4, <1>8, <1>a, <2>1, <2>2, LineUpIs
  <2>4. Countersigned(h, p, o)
    <3>1. np \in DOMAIN wrote[p]
      BY <1>3, <1>5, <1>7, <1>19
    <3> QED
      BY <1>5, <1>6, <1>11, <1>14, <1>16, <1>18, <1>21, <3>1 DEF Countersigned
  <2> QED
    BY <1>1, <2>3, <2>4
<1>22. CASE n # np
  <2>1. Binding(P, np, q.cites) = Different
    BY <1>14, <1>16, <1>20, <1>22 DEF Binding
  <2>2. Different # Agreed
    BY WordsAre
  <2>3. LineUp(h, P, O) = Different
    <3>1. CASE b.shared = q.shared
      BY <1>4, <1>8, <1>a, <2>1, <2>2, <3>1, LineUpIs
    <3>2. CASE b.shared # q.shared
      BY <1>4, <1>8, <3>2, LineUpIs
    <3> QED
      BY <3>1, <3>2
  <2>4. ASSUME Countersigned(h, p, o) PROVE FALSE
    <3>1. PICK c \in accepted : c.by = o /\ c.row = nq /\ c.offer.chain = wrote[p][np].chain
      BY <1>5, <1>6, <2>4 DEF Countersigned
    <3>2. Accepts(wrote, c)
      BY <3>1 DEF OffersOK
    <3>3. q = AcceptBody(c.offer)
      BY <1>10, <3>1, <3>2 DEF Accepts
    <3>4. q.cites.chain = c.offer.chain
      BY <3>3 DEF AcceptBody, Body
    <3>5. wrote[p][n].chain = wrote[p][np].chain
      BY <1>14, <1>16, <1>18, <3>1, <3>4
    <3>6. Listing(wrote[p]) /\ Spelled(wrote[p])
      BY DEF WroteOK
    <3>7. n = np
      BY <1>5, <1>7, <1>19, <3>5, <3>6, SpelledOnce
    <3> QED
      BY <1>22, <3>7
  <2> QED
    BY <1>1, <2>3, <2>4
<1> QED
  BY <1>21, <1>22

\* Without a mishap, HonestHandshakeIsNotAccused.
LEMMA HandshakeHonest ==
  ASSUME WroteOK, TapeOK, Honest, OffersOK, ExactOK
  PROVE  HonestHandshakeIsNotAccused
<1> SUFFICES ASSUME mishaps = <<>>, NEW h \in lane.ids, NEW p \in Parties,
                    LastOn(p, h, "propose") > 0, LastOn(Other(p), h, "propose") = 0
             PROVE  Verify({h}) = IF LastOn(Other(p), h, "accept") = 0 THEN Missing
                                  ELSE IF Countersigned(h, p, Other(p)) THEN Agreed ELSE Different
  BY DEF HonestHandshakeIsNotAccused
<1>1. Untouched /\ Other(p) \in Parties
  BY BothParties DEF Honest, PartiesAre
<1>2. On(p, h, "propose") # {}
  BY OnIs
<1>3. On(Other(p), h, "propose") = {}
  BY <1>1, OnIs
<1>4. LastOn(Other(p), h, "accept") = 0 <=> On(Other(p), h, "accept") = {}
  BY <1>1, OnIs
<1>5. PICK P, O : P = Read(p) /\ O = Read(Other(p))
  OBVIOUS
<1>6. Verify({h}) = IF On(Other(p), h, "accept") = {} THEN Missing ELSE LineUp(h, P, O)
  BY <1>1, <1>2, <1>3, <1>5, HonestVerify
<1>7. On(Other(p), h, "accept") # {} => LineUp(h, P, O) = IF Countersigned(h, p, Other(p)) THEN Agreed ELSE Different
  BY <1>1, <1>2, <1>3, <1>5, HonestLineUp
<1> QED
  BY <1>4, <1>6, <1>7

\* The rows both ledgers begin with are chained, and another program's.
LEMMA FirstRowsAre ==
  ASSUME NEW l \in Lanes, NEW rows, rows = Rechained(l.first)
  PROVE  /\ Listing(rows) /\ Spelled(rows)
         /\ \A n \in 1..Len(rows) : Row(rows[n]) /\ Plain(rows[n].body) /\ rows[n].body.digest = rows[n].body.shared
                                    /\ FirstRow(l, rows[n].body)
<1>1. PICK f : f = l.first
  OBVIOUS
<1>2. Listing(f) /\ Len(f) \in Nat /\ DOMAIN f = 1..Len(f)
  <2>1. Listing(f)
    BY <1>1, FirstRowsAreOthers DEF Listing
  <2> QED
    BY <2>1, ListDomain
<1>3. PICK m : m = Len(f)
  OBVIOUS
<1>4. f = [k \in 1..m |-> f[k]] /\ m \in Nat
  BY <1>2, <1>3 DEF Listing
<1>5. /\ Listing(rows) /\ Len(rows) = m
      /\ \A k \in 1..m : rows[k] = [body |-> f[k], chain |-> SubSeq(f, 1, k)]
  <2>1. rows = Rechained(f)
    BY <1>1
  <2> QED
    BY <1>4, <2>1, RechainedIs
<1>a. ASSUME NEW k \in 1..m PROVE rows[k].body = f[k] /\ rows[k].chain = SubSeq(f, 1, k) /\ Row(rows[k])
  <2>1. PICK r, b, c : r = rows[k] /\ b = f[k] /\ c = SubSeq(f, 1, k)
    OBVIOUS
  <2>2. r = [body |-> b, chain |-> c]
    BY <1>5, <2>1
  <2>3. r.body = b /\ r.chain = c /\ Row(r)
    BY <2>2 DEF Row
  <2> QED
    BY <2>1, <2>3
<1>6. ASSUME NEW n \in 1..m PROVE Spells(rows[n].chain, rows, n)
  <2>1. PICK c : c = SubSeq(f, 1, n)
    OBVIOUS
  <2>2. n \in 0..Len(f)
    BY <1>3, <1>4
  <2>3. Listing(c) /\ Len(c) = n /\ \A k \in 1..n : c[k] = f[k]
    BY <1>2, <2>1, <2>2, FrontIs
  <2>4. \A k \in 1..n : rows[k].body = f[k]
    <3> SUFFICES ASSUME NEW k \in 1..n PROVE rows[k].body = f[k]
      OBVIOUS
    <3>1. k \in 1..m
      BY <1>4
    <3> QED
      BY <1>a, <3>1
  <2>5. rows[n].chain = c
    BY <1>a, <2>1
  <2> QED
    BY <2>3, <2>4, <2>5 DEF Spells
<1>7. ASSUME NEW n \in 1..m
      PROVE  /\ Row(rows[n]) /\ Plain(rows[n].body) /\ rows[n].body.digest = rows[n].body.shared
             /\ FirstRow(l, rows[n].body)
  <2>1. PICK b : b = f[n]
    OBVIOUS
  <2>2. rows[n].body = b /\ Row(rows[n])
    BY <1>a, <2>1
  <2>3. FirstRow(l, b)
    BY <1>1, <1>3, <2>1 DEF FirstRow
  <2>4. b \in ToSet(l.first)
    BY <1>1, <1>2, <1>3, <2>1 DEF ToSet
  <2>5. b = Body(b.deal, b.step, b.party, b.shared, b.note, b.cites) /\ b.shared = Shared(b.shared.what, b.shared.md)
    BY <2>4, FirstRowsAreOthers
  <2>6. b = [deal |-> b.deal, step |-> b.step, party |-> b.party, shared |-> b.shared, digest |-> b.shared,
             note |-> b.note, cites |-> b.cites]
    BY <2>5 DEF Body
  <2>7. b.digest = b.shared
    BY <2>6
  <2>8. Plain(b)
    BY <2>5, <2>6, <2>7 DEF Plain, Shaped
  <2> QED
    BY <2>2, <2>3, <2>7, <2>8
<1> QED
  BY <1>5, <1>6, <1>7 DEF Spelled

\* How every run begins.
LEMMA InitRows ==
  ASSUME Init
  PROVE  /\ lane \in Lanes /\ tape = wrote /\ OnParties(wrote) /\ OnParties(job) /\ OnParties(proposing)
         /\ OnParties(harm) /\ OnParties(given) /\ mishaps = <<>> /\ pin = NoPin /\ offers = {} /\ accepted = {}
         /\ Untouched
         /\ \A p \in Parties : /\ job[p] = Null /\ proposing[p] = Null /\ given[p] = p /\ harm[p] = "none"
                               /\ wrote[p] = Rechained(lane.first)
BY DEF Init, DealInit, OnParties, Untouched

\* Init implies WroteOK and TapeOK.
LEMMA InitWrote ==
  ASSUME Init
  PROVE  WroteOK /\ TapeOK
<1>1. PICK rows : rows = Rechained(lane.first)
  OBVIOUS
<1>2. /\ lane \in Lanes /\ tape = wrote /\ OnParties(wrote) /\ OnParties(job) /\ OnParties(harm) /\ OnParties(given)
      /\ \A p \in Parties : job[p] = Null /\ given[p] = p /\ wrote[p] = rows
  BY <1>1, InitRows
<1>3. /\ Listing(rows) /\ Spelled(rows)
      /\ \A n \in 1..Len(rows) : Row(rows[n]) /\ Plain(rows[n].body) /\ rows[n].body.digest = rows[n].body.shared
                                 /\ FirstRow(lane, rows[n].body)
  BY <1>1, <1>2, FirstRowsAre
<1>4. \A p \in Parties : \A n \in 1..Len(rows) : Written(lane, p, rows[n].body)
  BY <1>3 DEF Written
<1>5. \A p \in Parties : JobOK(p, job[p])
  BY <1>2 DEF JobOK
<1>6. WroteOK
  BY <1>2, <1>3, <1>4, <1>5 DEF WroteOK
<1>7. Len(rows) <= Len(rows)
  BY <1>3, ListDomain
<1>8. \A n \in 1..Len(rows) : Version(rows[n].body, rows[n].body)
  BY <1>3, VersionSelf
<1>9. TapeOK
  BY <1>2, <1>3, <1>7, <1>8 DEF TapeOK
<1> QED
  BY <1>6, <1>9

\* Init implies the other parts that are not about copies.
LEMMA InitRest ==
  ASSUME Init
  PROVE  PinOK /\ Honest /\ NotesOK /\ ProposingOK /\ OffersOK /\ ExactOK
<1>1. PICK rows : rows = Rechained(lane.first)
  OBVIOUS
<1>2. /\ lane \in Lanes /\ OnParties(proposing) /\ pin = NoPin /\ mishaps = <<>> /\ offers = {} /\ accepted = {} /\ Untouched
      /\ \A p \in Parties : job[p] = Null /\ proposing[p] = Null /\ wrote[p] = rows
  BY <1>1, InitRows
<1>3. \A n \in 1..Len(rows) : FirstRow(lane, rows[n].body)
  BY <1>1, <1>2, FirstRowsAre
<1>4. \A n \in 1..Len(rows) : LET b == rows[n].body
                              IN  b.deal \notin lane.ids \cup {TheDeal} /\ b.step \notin StepNames /\ b.note = Null
  BY <1>2, <1>3, FirstRowIs
<1>5. PinOK
  BY <1>2 DEF PinOK
<1>6. Honest
  BY <1>2, NothingListed DEF Honest
<1>7. ASSUME NEW p \in Parties, NEW n \in 1..Len(rows) PROVE Noted(p, rows[n].body, rows, n-1)
  BY <1>4, PlainNoted, StepNamesAre
<1>8. NotesOK
  BY <1>2, <1>7 DEF NotesOK
<1>9. ProposingOK
  BY <1>2 DEF ProposingOK
<1>10. OffersOK
  BY <1>2, <1>4 DEF OffersOK
<1>11. ExactOK
  BY <1>2 DEF ExactOK
<1> QED
  BY <1>5, <1>6, <1>8, <1>9, <1>10, <1>11

\* Init implies CopiedOK.
LEMMA InitCopied ==
  ASSUME Init
  PROVE  CopiedOK
<1>1. PICK rows : rows = Rechained(lane.first)
  OBVIOUS
<1>2. lane \in Lanes /\ \A p \in Parties : job[p] = Null /\ wrote[p] = rows
  BY <1>1, InitRows
<1>3. Listing(rows)
  BY <1>1, <1>2, FirstRowsAre
<1>4. ASSUME NEW step \in BothSides \cup Mirrored, NEW p \in Parties PROVE CopiedIs(wrote, job[p], p, step)
  <2>1. Other(p) \in Parties
    BY BothParties DEF PartiesAre
  <2>2. PICK l : l = OfStep(rows, TheDeal, step)
    OBVIOUS
  <2>3. Len(l) \in Nat
    BY <1>3, <2>2, StepRows DEF InStepOf
  <2>4. OfStep(wrote[p], TheDeal, step) = l /\ OfStep(wrote[Other(p)], TheDeal, step) = l /\ job[p] = Null
    BY <1>2, <2>1, <2>2
  <2> QED
    BY <2>3, <2>4 DEF CopiedIs
<1> QED
  BY <1>4, CopiedAre DEF Copying

\* The inductive invariant.
IInv == /\ WroteOK /\ TapeOK /\ PinOK /\ Honest /\ NotesOK
        /\ ProposingOK /\ OffersOK /\ ExactOK /\ CopiedOK

\* The inductive invariant holds always: what was written, what the files hold of it,
\* pins, notes, offers and copies.
THEOREM Inductive == Spec => []IInv
<1>1. Init => IInv
  BY InitWrote, InitRest, InitCopied DEF IInv
<1>2. IInv /\ [Next]_vars => IInv'
  <2> SUFFICES ASSUME WroteOK, TapeOK, PinOK, Honest, NotesOK, ProposingOK, OffersOK, ExactOK, CopiedOK, [Next]_vars
               PROVE  IInv'
    BY DEF IInv
  <2>1. Listing(mishaps)
    BY DEF Honest
  <2>2. WroteOK' /\ TapeOK'
    BY <2>1, WroteStep, TapeStep
  <2>3. PinOK' /\ Honest'
    BY HonestStep, PinStep
  <2>4. NotesOK'
    BY <2>1, NotesStep
  <2>5. ProposingOK' /\ OffersOK'
    BY <2>1, ProposingStep, OffersStep
  <2>6. ExactOK' /\ CopiedOK'
    BY <2>1, ExactStep, CopiedStep
  <2> QED
    BY <2>2, <2>3, <2>4, <2>5, <2>6 DEF IInv
<1> QED
  BY <1>1, <1>2, PTL DEF Spec

\* MATCHED is said only of two tapes, each its party's own and intact, that agree in what
\* both must hold, cite mandates that were given and kept what was pinned: dispute().
THEOREM MatchedTapesAgree == Spec => []DisputeIsTrue
<1>1. IInv => DisputeIsTrue
  BY DisputeHolds DEF IInv
<1> QED
  BY <1>1, Inductive, PTL

\* "inside" and "after_cancel" are true of the tape the row is on, whatever was appended
\* between reading the tape and writing the row: Deal.commit and Deal.ship.
THEOREM NotesAreOfTheirTape == Spec => []NotesAreTrue
<1>1. IInv => NotesAreTrue
  BY NotesHold DEF IInv
<1> QED
  BY <1>1, Inductive, PTL

\* AGREED TERMS is said only of a proposal whose writer's last it is and that the other party
\* countersigned exactly, whatever was done to offers and ledgers: handshake.verify().
THEOREM AgreedMeansCountersigned == Spec => []AgreedIsCountersigned
<1>1. IInv => AgreedIsCountersigned
  BY AgreedHolds DEF IInv
<1> QED
  BY <1>1, Inductive, PTL

\* Two parties to whom nothing happened are accused of nothing: dispute finds only rows that
\* are still to be copied, and verify agrees exactly with what was countersigned.
THEOREM HonestPartiesAreNotAccused == Spec => []HonestIsNotAccused
<1>1. IInv => HonestIsNotAccused
  BY DealHonest, HandshakeHonest DEF IInv, HonestIsNotAccused
<1> QED
  BY <1>1, Inductive, PTL
=============================================================================
