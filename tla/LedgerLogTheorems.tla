-------------------------- MODULE LedgerLogTheorems ---------------------------
(***************************************************************************)
(* What LedgerLog's operators guarantee on every file, proved: where the   *)
(* next append chains from, and what a write that heals the tail first     *)
(* does to the chain of the file, whole or cut short.                      *)
(***************************************************************************)
EXTENDS LedgerLog, FiniteSetTheorems, WellFoundedInduction, TLAPS

(***************************************************************************)
(* The tail.                                                               *)
(***************************************************************************)
\* There is one last row.
LEMMA LastRowIsUnique ==
  ASSUME NEW f, NEW n \in Nat, NEW i, NEW j, LastRowIs(f, i, n), LastRowIs(f, j, n)
  PROVE  i = j
BY DEF LastRowIs

\* _last_chain returns the chain of that row.
LEMMA TailChainIs ==
  ASSUME NEW f, NEW n \in Nat, NEW i, LastRowIs(f, i, n)
  PROVE  TailChain(f, n) = Claimed(f, i)
<1> DEFINE c == CHOOSE k \in 1..n : LastRowIs(f, k, n)
<1>1. i \in 1..n
  BY DEF LastRowIs
<1>2. c \in 1..n /\ LastRowIs(f, c, n)
  BY <1>1
<1>3. c = i
  BY <1>2, LastRowIsUnique
<1> QED
  BY <1>1, <1>3 DEF TailChain

\* It reads nothing behind the line it starts from.
LEMMA TailChainIsLocal ==
  ASSUME NEW f, NEW g, NEW n \in Nat, \A k \in 1..n : f[k] = g[k]
  PROVE  TailChain(f, n) = TailChain(g, n)
<1>1. \A i \in 1..n : LastRowIs(f, i, n) <=> LastRowIs(g, i, n)
  BY DEF LastRowIs, IsRow
<1>2. CASE \E i \in 1..n : LastRowIs(f, i, n)
  <2>1. PICK i \in 1..n : LastRowIs(f, i, n)
    BY <1>2
  <2>2. LastRowIs(g, i, n)
    BY <1>1, <2>1
  <2>3. Claimed(f, i) = Claimed(g, i)
    BY <2>1 DEF Claimed
  <2> QED
    BY <2>1, <2>2, <2>3, TailChainIs
<1>3. CASE ~ \E i \in 1..n : LastRowIs(f, i, n)
  BY <1>1, <1>3 DEF TailChain
<1> QED
  BY <1>2, <1>3

\* A last line that is no row is passed over.
LEMMA TailChainSkips ==
  ASSUME NEW f, NEW n \in Nat \ {0}, ~IsRow(f, n)
  PROVE  TailChain(f, n) = TailChain(f, n-1)
<1>1. \A i : LastRowIs(f, i, n) <=> LastRowIs(f, i, n-1)
  BY DEF LastRowIs
<1>2. CASE \E i \in 1..n-1 : LastRowIs(f, i, n-1)
  <2>1. PICK i \in 1..n-1 : LastRowIs(f, i, n-1)
    BY <1>2
  <2> QED
    BY <1>1, <2>1, TailChainIs
<1>3. CASE ~ \E i \in 1..n-1 : LastRowIs(f, i, n-1)
  <2>1. ~ \E i \in 1..n : LastRowIs(f, i, n)
    BY <1>1, <1>3 DEF LastRowIs
  <2> QED
    BY <1>3, <2>1 DEF TailChain
<1> QED
  BY <1>2, <1>3

\* A last line that is a row is what the next append chains from.
LEMMA TailChainTakes ==
  ASSUME NEW f, NEW n \in Nat \ {0}, IsRow(f, n)
  PROVE  TailChain(f, n) = Claimed(f, n)
<1>1. LastRowIs(f, n, n)
  BY DEF LastRowIs
<1> QED
  BY <1>1, TailChainIs

(***************************************************************************)
(* Healing.  A writer that found no newline at the end starts a new line;  *)
(* either way its payload meets an empty open line.                        *)
(***************************************************************************)
Healed(f) == IF EndsInNewline(f) THEN Opened(f) ELSE Append(f, <<>>)

\* A payload put to an empty open line fills that line, and may close it.
Filled(o, pieces, newline) ==
  LET line == [o EXCEPT ![Len(o)] = pieces] IN IF newline THEN Append(line, <<>>) ELSE line

LEMMA HealedIs ==
  ASSUME NEW P, NEW f \in Seq(Seq(P))
  PROVE  /\ Healed(f) \in Seq(Seq(P))
         /\ Len(Healed(f)) \in Nat \ {0}
         /\ Healed(f)[Len(Healed(f))] = <<>>
         /\ ~IsRow(Healed(f), Len(Healed(f)))
         /\ LastChain(Healed(f)) = TailChain(Healed(f), Len(Healed(f)) - 1)
         /\ LastChain(Healed(f)) = LastChain(f)
         /\ Linked(f) => Linked(Healed(f))
<1> DEFINE o == Healed(f)
           n == Len(Healed(f))
<1>1. /\ o \in Seq(Seq(P))
      /\ n \in Nat \ {0}
      /\ o[n] = <<>>
  BY DEF Healed, Opened, EndsInNewline
<1>2. ~IsRow(o, n)
  BY <1>1 DEF IsRow, Kind, RowKinds
<1>3. LastChain(o) = TailChain(o, n-1)
  BY <1>1, <1>2, TailChainSkips DEF LastChain
<1>4. Len(f) \in Nat /\ \A k \in 1..Len(f) : f[k] = o[k]
  BY DEF Healed, Opened, EndsInNewline
<1>5. n \in {Len(f), Len(f) + 1}
  BY DEF Healed, Opened, EndsInNewline
<1>6. LastChain(o) = LastChain(f)
  <2>1. TailChain(f, Len(f)) = TailChain(o, Len(f))
    BY <1>4, TailChainIsLocal
  <2>2. TailChain(o, Len(f)) = LastChain(o)
    BY <1>3, <1>4, <1>5 DEF LastChain
  <2> QED
    BY <2>1, <2>2 DEF LastChain
<1>7. ASSUME Linked(f) PROVE Linked(o)
  <2> SUFFICES ASSUME NEW i \in 1..n, Kind(o[i]) = "link"
               PROVE  Claimed(o, i) = Hash(TailChain(o, i-1), Body(o, i))
    BY DEF Linked
  <2>1. i # n
    BY <1>2 DEF IsRow, RowKinds
  <2>2. i \in 1..Len(f) /\ f[i] = o[i]
    BY <1>1, <1>4, <1>5, <2>1, SMTT(30)
  <2>3. TailChain(f, i-1) = TailChain(o, i-1)
    BY <1>4, <2>2, TailChainIsLocal
  <2> QED
    BY <1>7, <2>2, <2>3 DEF Linked, Claimed, Body
<1> QED
  BY <1>1, <1>2, <1>3, <1>6, <1>7

\* What append hands to the file, given the separator its probe calls for.
LEMMA PutHeals ==
  ASSUME NEW P, NEW f \in Seq(Seq(P)), NEW pieces \in Seq(P), NEW newline \in BOOLEAN
  PROVE  Put(f, ~EndsInNewline(f), pieces, newline) = Filled(Healed(f), pieces, newline)
<1>1. Healed(f) = IF ~EndsInNewline(f) THEN Append(Opened(f), <<>>) ELSE Opened(f)
  BY DEF Healed, Opened, EndsInNewline
<1>2. /\ Healed(f) \in Seq(Seq(P)) /\ Len(Healed(f)) \in Nat \ {0}
      /\ Healed(f)[Len(Healed(f))] \o pieces = pieces
  BY HealedIs, SMTT(30)
<1> QED
  BY <1>1, <1>2 DEF Put, Filled

(***************************************************************************)
(* A payload on an empty open line.                                        *)
(***************************************************************************)
\* The line is a row exactly when the payload is one row; nothing before it
\* changes, and a newline after it adds an empty line.
LEMMA FilledIs ==
  ASSUME NEW P, NEW o \in Seq(Seq(P)), NEW pieces \in Seq(P), NEW newline \in BOOLEAN,
         Len(o) # 0, o[Len(o)] = <<>>
  PROVE  /\ Filled(o, pieces, newline) \in Seq(Seq(P))
         /\ Len(Filled(o, pieces, newline)) = IF newline THEN Len(o) + 1 ELSE Len(o)
         /\ Filled(o, pieces, newline)[Len(o)] = pieces
         /\ \A k \in 1..Len(o)-1 : Filled(o, pieces, newline)[k] = o[k]
         /\ newline => ~IsRow(Filled(o, pieces, newline), Len(o)+1)
         /\ LastChain(Filled(o, pieces, newline)) =
              IF IsRow(Filled(o, pieces, newline), Len(o))
              THEN pieces[1].chain ELSE TailChain(o, Len(o)-1)
<1> DEFINE n == Len(o)
           g == Filled(o, pieces, newline)
<1>1. /\ n \in Nat \ {0} /\ n-1 \in Nat
      /\ g \in Seq(Seq(P))
      /\ Len(g) = IF newline THEN n + 1 ELSE n
      /\ g[n] = pieces
      /\ \A k \in 1..n-1 : g[k] = o[k]
      /\ newline => g[n+1] = <<>>
  BY DEF Filled
<1> HIDE DEF n, g
<1>2. newline => ~IsRow(g, n+1)
  BY <1>1 DEF IsRow, Kind, RowKinds
<1>3. LastChain(g) = TailChain(g, n)
  <2>1. CASE newline
    <3>1. TailChain(g, n+1) = TailChain(g, (n+1)-1)
      BY <1>1, <1>2, <2>1, TailChainSkips
    <3> QED
      BY <1>1, <2>1, <3>1 DEF LastChain
  <2>2. CASE ~newline
    BY <1>1, <2>2 DEF LastChain
  <2> QED
    BY <2>1, <2>2
<1>4. LastChain(g) = IF IsRow(g, n) THEN pieces[1].chain ELSE TailChain(o, n-1)
  <2>1. CASE IsRow(g, n)
    <3>1. TailChain(g, n) = Claimed(g, n)
      BY <1>1, <2>1, TailChainTakes
    <3> QED
      BY <1>1, <1>3, <2>1, <3>1 DEF Claimed
  <2>2. CASE ~IsRow(g, n)
    <3>1. TailChain(g, n) = TailChain(g, n-1)
      BY <1>1, <2>2, TailChainSkips
    <3>2. TailChain(g, n-1) = TailChain(o, n-1)
      BY <1>1, TailChainIsLocal
    <3> QED
      BY <1>3, <2>2, <3>1, <3>2
  <2> QED
    BY <2>1, <2>2
<1> QED
  BY <1>1, <1>2, <1>4 DEF n, g

\* Filling the line with a row that chains from the row before it, or with
\* something that is no row, leaves the file linked.
LEMMA FilledStaysLinked ==
  ASSUME NEW P, NEW o \in Seq(Seq(P)), NEW pieces \in Seq(P), NEW newline \in BOOLEAN,
         Len(o) # 0, o[Len(o)] = <<>>, Linked(o),
         IsRow(Filled(o, pieces, newline), Len(o)) =>
           Claimed(Filled(o, pieces, newline), Len(o)) =
             Hash(TailChain(o, Len(o)-1), Body(Filled(o, pieces, newline), Len(o)))
  PROVE  Linked(Filled(o, pieces, newline))
<1> DEFINE n == Len(o)
           g == Filled(o, pieces, newline)
<1>0. IsRow(g, n) => Claimed(g, n) = Hash(TailChain(o, n-1), Body(g, n))
  OBVIOUS
<1>1. /\ n \in Nat \ {0}
      /\ Len(g) = IF newline THEN n + 1 ELSE n
      /\ \A k \in 1..n-1 : g[k] = o[k]
      /\ newline => ~IsRow(g, n+1)
  BY FilledIs
<1> HIDE DEF n, g
<1> SUFFICES ASSUME NEW i \in 1..Len(g), Kind(g[i]) = "link"
             PROVE  Claimed(g, i) = Hash(TailChain(g, i-1), Body(g, i))
  BY DEF Linked, g
<1>2. IsRow(g, i)
  BY DEF IsRow, RowKinds
<1>3. i \in 1..n
  <2>1. CASE newline
    BY <1>1, <1>2, <2>1
  <2>2. CASE ~newline
    BY <1>1, <2>2
  <2> QED
    BY <2>1, <2>2
<1>4. TailChain(g, i-1) = TailChain(o, i-1)
  <2>1. i-1 \in Nat /\ \A k \in 1..i-1 : g[k] = o[k]
    BY <1>1, <1>3
  <2> QED
    BY <2>1, TailChainIsLocal
<1>5. CASE i = n
  BY <1>0, <1>2, <1>4, <1>5
<1>6. CASE i # n
  <2>1. g[i] = o[i]
    BY <1>1, <1>3, <1>6
  <2> QED
    BY <1>3, <1>4, <2>1 DEF Linked, Claimed, Body, n
<1> QED
  BY <1>5, <1>6

(***************************************************************************)
(* One append, whole or cut short.                                         *)
(***************************************************************************)
\* A healing write of nothing, of a scrap or of the next row: the tail moves
\* on by that row or stays, and a linked file stays linked.
LEMMA PutExtends ==
  ASSUME NEW P, Scrap \in P, NEW f \in Seq(Seq(P)), NEW b, Row(b, LastChain(f)) \in P,
         NEW pieces, pieces \in {<<>>, <<Scrap>>, <<Row(b, LastChain(f))>>},
         NEW newline \in BOOLEAN,
         NEW g, g = Put(f, ~EndsInNewline(f), pieces, newline)
  PROVE  /\ g \in Seq(Seq(P))
         /\ LastChain(g) = IF pieces = <<Row(b, LastChain(f))>>
                           THEN Hash(LastChain(f), b) ELSE LastChain(f)
         /\ Linked(f) => Linked(g)
<1> DEFINE o == Healed(f)
           n == Len(Healed(f))
           row == Row(b, LastChain(f))
<1>1. pieces \in Seq(P)
  <2>1. <<>> \in Seq(P) /\ <<Scrap>> \in Seq(P) /\ <<row>> \in Seq(P)
    OBVIOUS
  <2> QED
    BY <2>1
<1>2. /\ o \in Seq(Seq(P)) /\ n \in Nat \ {0} /\ o[n] = <<>>
      /\ TailChain(o, n-1) = LastChain(f)
      /\ Linked(f) => Linked(o)
  BY HealedIs
<1>3. g = Filled(o, pieces, newline)
  BY <1>1, PutHeals
<1>4. /\ g \in Seq(Seq(P))
      /\ g[n] = pieces
      /\ LastChain(g) = IF IsRow(g, n) THEN pieces[1].chain ELSE TailChain(o, n-1)
  <2> HIDE DEF o, n
  <2>1. n = Len(o)
    BY DEF o, n
  <2>2. /\ Filled(o, pieces, newline) \in Seq(Seq(P))
        /\ Filled(o, pieces, newline)[Len(o)] = pieces
        /\ LastChain(Filled(o, pieces, newline)) =
             IF IsRow(Filled(o, pieces, newline), Len(o))
             THEN pieces[1].chain ELSE TailChain(o, Len(o)-1)
    BY <1>1, <1>2, <2>1, FilledIs
  <2> QED
    BY <1>3, <2>1, <2>2
<1>5. (IsRow(g, n) => Claimed(g, n) = Hash(TailChain(o, n-1), Body(g, n)))
        => (Linked(f) => Linked(g))
  BY <1>1, <1>2, <1>3, FilledStaysLinked
<1> HIDE DEF o, n
<1>6. CASE pieces = <<row>>
  <2>1. Len(pieces) = 1 /\ pieces # <<>> /\ pieces[1] = row
    BY <1>6
  <2>2. /\ IsRow(g, n)
        /\ Claimed(g, n) = Hash(LastChain(f), b)
        /\ Body(g, n) = b
        /\ pieces[1].chain = Hash(LastChain(f), b)
    BY <1>4, <2>1 DEF IsRow, Kind, RowKinds, Row, Claimed, Body
  <2> QED
    BY <1>2, <1>4, <1>5, <1>6, <2>2
<1>7. CASE pieces \in {<<>>, <<Scrap>>}
  <2>1. ~IsRow(g, n) /\ pieces # <<row>>
    BY <1>4, <1>7 DEF IsRow, Kind, RowKinds, Row, Scrap
  <2> QED
    BY <1>2, <1>4, <1>5, <2>1
<1> QED
  BY <1>6, <1>7

\* A write cut short anywhere adds the row or adds nothing.
LEMMA LandingsExtend ==
  ASSUME NEW P, Scrap \in P, NEW f \in Seq(Seq(P)), NEW b, Row(b, LastChain(f)) \in P,
         NEW g \in Landings(f, ~EndsInNewline(f), Row(b, LastChain(f)))
  PROVE  /\ g \in Seq(Seq(P))
         /\ LastChain(g) \in {LastChain(f), Hash(LastChain(f), b)}
         /\ Linked(f) => Linked(g)
<1>1. \/ g = f
      \/ \E pieces \in {<<>>, <<Scrap>>, <<Row(b, LastChain(f))>>}, newline \in BOOLEAN :
           g = Put(f, ~EndsInNewline(f), pieces, newline)
  BY DEF Landings
<1>2. CASE g = f
  BY <1>2
<1>3. ASSUME NEW pieces \in {<<>>, <<Scrap>>, <<Row(b, LastChain(f))>>},
             NEW newline \in BOOLEAN,
             g = Put(f, ~EndsInNewline(f), pieces, newline)
      PROVE  /\ g \in Seq(Seq(P))
             /\ LastChain(g) \in {LastChain(f), Hash(LastChain(f), b)}
             /\ Linked(f) => Linked(g)
  BY <1>3, PutExtends
<1> QED
  BY <1>1, <1>2, <1>3

(***************************************************************************)
(* Counting rows.                                                          *)
(***************************************************************************)
LEMMA Smallest ==
  ASSUME NEW T \in SUBSET Nat, T # {}
  PROVE  \E x \in T : \A y \in T : x <= y
<1> DEFINE R == OpToRel(<, Nat)
<1>1. IsWellFoundedOn(R, Nat)
  BY NatLessThanWellFounded
<1>2. \A x, y \in Nat : <<y, x>> \in R <=> y < x
  BY Zenon DEF OpToRel
<1> HIDE DEF R
<1>3. PICK x \in T : \A y \in T : <<y, x>> \notin R
  BY <1>1, WFMin
<1>4. ASSUME NEW y \in T PROVE x <= y
  <2>1. x \in Nat /\ y \in Nat
    OBVIOUS
  <2>2. ~(y < x)
    BY <1>2, <1>3, <2>1
  <2> QED
    BY <2>1, <2>2
<1> QED
  BY <1>4

LEMMA Counted ==
  ASSUME NEW n \in Nat, NEW S \in SUBSET (1..n)
  PROVE  IsFiniteSet(S) /\ Cardinality(S) \in Nat /\ (Cardinality(S) = 0 <=> S = {})
<1>1. IsFiniteSet(1..n)
  BY FS_Interval
<1>2. IsFiniteSet(S)
  BY <1>1, FS_Subset
<1> QED
  BY <1>2, FS_EmptySet, FS_CardinalityType

LEMMA RowNumberSteps ==
  ASSUME NEW f, NEW n \in Nat
  PROVE  /\ RowNumber(f, n) \in Nat
         /\ RowNumber(f, 0) = 0
         /\ RowNumber(f, n+1) = IF IsRow(f, n+1) THEN RowNumber(f, n) + 1 ELSE RowNumber(f, n)
<1> DEFINE R(k) == {j \in 1..k : IsRow(f, j)}
<1>1. \A k \in Nat : R(k) \in SUBSET (1..k)
  OBVIOUS
<1>2. IsFiniteSet(R(n)) /\ RowNumber(f, n) \in Nat
  BY <1>1, Counted DEF RowNumber
<1>3. RowNumber(f, 0) = 0
  <2>1. R(0) = {}
    OBVIOUS
  <2> QED
    BY <2>1, FS_EmptySet DEF RowNumber
<1>4. CASE IsRow(f, n+1)
  <2>1. R(n+1) = R(n) \cup {n+1} /\ n+1 \notin R(n)
    BY <1>4
  <2> QED
    BY <1>2, <1>3, <1>4, <2>1, FS_AddElement DEF RowNumber
<1>5. CASE ~IsRow(f, n+1)
  <2>1. R(n+1) = R(n)
    BY <1>5
  <2> QED
    BY <1>2, <1>3, <1>5, <2>1 DEF RowNumber
<1> QED
  BY <1>4, <1>5

LEMMA RowNumberGrows ==
  ASSUME NEW f, NEW n \in Nat, NEW i \in 0..n
  PROVE  RowNumber(f, i) <= RowNumber(f, n)
<1>1. {j \in 1..i : IsRow(f, j)} \subseteq {j \in 1..n : IsRow(f, j)}
  OBVIOUS
<1>2. IsFiniteSet({j \in 1..n : IsRow(f, j)})
  BY Counted
<1> QED
  BY <1>1, <1>2, FS_Subset DEF RowNumber

\* Rows are numbered apart.
LEMMA RowNumbersDiffer ==
  ASSUME NEW f, NEW i \in Nat, NEW j \in Nat, i < j, IsRow(f, j)
  PROVE  RowNumber(f, i) < RowNumber(f, j)
<1>1. j - 1 \in Nat /\ i \in 0..j-1 /\ (j - 1) + 1 = j
  OBVIOUS
<1>2. RowNumber(f, i) <= RowNumber(f, j - 1)
  BY <1>1, RowNumberGrows
<1>3. RowNumber(f, j) = RowNumber(f, j - 1) + 1 /\ RowNumber(f, j - 1) \in Nat
  BY <1>1, RowNumberSteps
<1> QED
  BY <1>2, <1>3, RowNumberSteps

\* Each number up to the count is that of a row.
LEMMA RowNumbersAreUsed ==
  ASSUME NEW f, NEW n \in Nat, NEW k \in 1..RowNumber(f, n)
  PROVE  \E i \in 1..n : IsRow(f, i) /\ RowNumber(f, i) = k
<1> DEFINE T == {i \in 0..n : RowNumber(f, i) >= k}
<1>1. n \in T /\ RowNumber(f, n) \in Nat
  BY RowNumberSteps
<1>2. PICK i \in T : \A y \in T : i <= y
  <2>1. T \in SUBSET Nat /\ T # {}
    BY <1>1
  <2> HIDE DEF T
  <2> QED
    BY <2>1, Smallest
<1>3. i # 0
  BY <1>1, RowNumberSteps
<1>4. i - 1 \in Nat /\ (i - 1) + 1 = i /\ i - 1 \notin T /\ i \in 1..n
  BY <1>2, <1>3
<1>5. RowNumber(f, i - 1) < k /\ RowNumber(f, i - 1) \in Nat
  BY <1>1, <1>4, RowNumberSteps
<1>6. RowNumber(f, i) = IF IsRow(f, i) THEN RowNumber(f, i - 1) + 1 ELSE RowNumber(f, i - 1)
  BY <1>4, RowNumberSteps
<1>7. RowNumber(f, i) >= k /\ k \in Nat
  BY <1>1, <1>2
<1> QED
  BY <1>4, <1>5, <1>6, <1>7

(***************************************************************************)
(* Green.  A file verify_file calls "True" holds links and blank lines     *)
(* only, each link on the one before it.                                   *)
(***************************************************************************)
PieceKinds == RowKinds \cup {"scalar", "scrap"}

PiecesOver(B, C) == [kind : PieceKinds, body : B, chain : C]

Clean(f) == \A i \in 1..Len(f) : Kind(f[i]) \in {"blank", "link"}

\* A count that is not positive counts nothing.
LEMMA NoLines ==
  ASSUME NEW n \in Nat, NEW S \in SUBSET (1..n), ~(Cardinality(S) > 0)
  PROVE  S = {}
<1>1. Cardinality(S) \in Nat /\ (Cardinality(S) = 0 <=> S = {})
  BY Counted
<1> QED
  BY <1>1

LEMMA KindIsKnown ==
  ASSUME NEW B, NEW C, NEW f \in Seq(Seq(PiecesOver(B, C))), NEW i \in 1..Len(f)
  PROVE  Kind(f[i]) \in PieceKinds \cup {"blank"}
<1>1. f[i] \in Seq(PiecesOver(B, C))
  OBVIOUS
<1>2. CASE f[i] # <<>> /\ Len(f[i]) = 1
  <2>1. f[i][1] \in PiecesOver(B, C)
    BY <1>1, <1>2
  <2> QED
    BY <1>2, <2>1 DEF Kind, PiecesOver
<1>3. CASE ~(f[i] # <<>> /\ Len(f[i]) = 1)
  BY <1>3 DEF Kind, PieceKinds
<1> QED
  BY <1>2, <1>3

\* In a clean file the walk of verify_file and the tail read the same row.
LEMMA PrevInCleanFile ==
  ASSUME NEW f, Len(f) \in Nat, Clean(f), NEW i \in 1..Len(f), NEW strict \in BOOLEAN
  PROVE  Prev(f, i, strict) = TailChain(f, i - 1)
<1>1. \A j \in 1..Len(f) : /\ Sets(f, j, strict) <=> IsRow(f, j)
                           /\ IsRow(f, j) => SetTo(f, j) = Claimed(f, j)
  BY DEF Clean, Sets, Chained, IsRow, RowKinds, SetTo
<1>0. \A j \in 1..i-1 : j \in 1..Len(f) /\ j + 1 \in Nat
                           /\ \A k \in j+1..i-1 : k \in 1..Len(f)
  OBVIOUS
<1>2. \A j : LastSetter(f, i, j, strict) <=> LastRowIs(f, j, i - 1)
  <2> SUFFICES ASSUME NEW j \in 1..i-1
               PROVE  LastSetter(f, i, j, strict) <=> LastRowIs(f, j, i - 1)
    BY DEF LastSetter, LastRowIs
  <2>1. Sets(f, j, strict) <=> IsRow(f, j)
    BY <1>0, <1>1
  <2>2. \A k \in j+1..i-1 : Sets(f, k, strict) <=> IsRow(f, k)
    BY <1>0, <1>1
  <2> QED
    BY <2>1, <2>2 DEF LastSetter, LastRowIs
<1>3. CASE \E j \in 1..i-1 : LastSetter(f, i, j, strict)
  <2> DEFINE c == CHOOSE j \in 1..i-1 : LastSetter(f, i, j, strict)
  <2>1. c \in 1..i-1 /\ LastSetter(f, i, c, strict)
    BY <1>3
  <2>2. LastRowIs(f, c, i - 1) /\ IsRow(f, c) /\ c \in 1..Len(f)
    <3> HIDE DEF c
    <3> QED
      BY <1>0, <1>2, <2>1 DEF LastRowIs
  <2>3. TailChain(f, i - 1) = Claimed(f, c)
    BY <2>2, TailChainIs
  <2> QED
    BY <1>1, <1>3, <2>2, <2>3 DEF Prev
<1>4. CASE ~ \E j \in 1..i-1 : LastSetter(f, i, j, strict)
  BY <1>2, <1>4 DEF Prev, TailChain
<1> QED
  BY <1>3, <1>4

LEMMA GreenIsClean ==
  ASSUME NEW B, NEW C, NEW f \in Seq(Seq(PiecesOver(B, C))), Ok(f, FALSE) = "True"
  PROVE  Clean(f) /\ Linked(f) /\ RowCount(f) > 0
<1> DEFINE broken   == {i \in 1..Len(f) : Broken(f, i, FALSE)}
           twins    == {i \in 1..Len(f) : Kind(f[i]) = "twin"}
           before   == {i \in 1..Len(f) : Kind(f[i]) = "bare" /\ ~Begun(f, i)}
           excused  == {i \in 1..Len(f) : Declarable(f, i, FALSE) /\ ExcusedIn(f, i, FALSE)}
           rows     == {i \in 1..Len(f) : IsRow(f, i)}
<1>1. Len(f) \in Nat
  OBVIOUS
<1>2. /\ Cardinality(broken) \in Nat /\ Cardinality(twins) \in Nat
      /\ Cardinality(before) \in Nat /\ Cardinality(excused) \in Nat
      /\ Cardinality(rows) \in Nat
  <2>1. \A S \in SUBSET (1..Len(f)) : Cardinality(S) \in Nat
    BY <1>1, Counted
  <2> QED
    BY <2>1
<1>3. ~(Breaks(f, FALSE) > 0)
  BY DEF Ok
<1>unbounded. ~Bounded(f, FALSE)
  BY <1>3 DEF Ok
<1>green. ~(Prechain(f) + DeclaredBreaks(f, FALSE) > 0) /\ RowCount(f) # 0
  BY <1>unbounded, Zenon DEF Bounded
<1>4. Breaks(f, FALSE) = Cardinality(broken) + Cardinality(twins)
  BY <1>3 DEF Breaks, Lines
<1>5. /\ Prechain(f) = Cardinality(before)
      /\ DeclaredBreaks(f, FALSE) = Cardinality(excused)
      /\ RowCount(f) = Cardinality(rows)
  BY DEF Prechain, DeclaredBreaks, RowCount, Lines
<1> HIDE DEF broken, twins, before, excused, rows
<1>6. broken = {} /\ twins = {} /\ before = {} /\ excused = {}
  <2>1. /\ ~(Cardinality(broken) > 0) /\ ~(Cardinality(twins) > 0)
        /\ ~(Cardinality(before) > 0) /\ ~(Cardinality(excused) > 0)
    <3>1. ~(Cardinality(broken) + Cardinality(twins) > 0)
      BY <1>3, <1>4
    <3>2. ~(Cardinality(before) + Cardinality(excused) > 0)
      BY <1>green, <1>5
    <3> QED
      BY <1>2, <3>1, <3>2
  <2>2. \A S \in SUBSET (1..Len(f)) : ~(Cardinality(S) > 0) => S = {}
    BY <1>1, NoLines
  <2> QED
    BY <2>1, <2>2 DEF broken, twins, before, excused
<1>7. RowCount(f) > 0
  BY <1>2, <1>green, <1>5
<1>8. ASSUME NEW i \in 1..Len(f)
      PROVE  /\ Kind(f[i]) \in {"blank", "link"}
             /\ ~Mismatch(f, i, FALSE)
  <2>1. ~Declarable(f, i, FALSE)
    BY <1>6 DEF Broken, broken, excused
  <2>2. Kind(f[i]) \notin {"scrap", "scalar", "poison", "twin"}
    BY <1>6 DEF Broken, broken, twins
  <2>3. Kind(f[i]) # "bare"
    BY <1>6, <2>1 DEF Declarable, Stray, before
  <2>4. Kind(f[i]) \in PieceKinds \cup {"blank"}
    BY KindIsKnown
  <2> QED
    BY <2>1, <2>2, <2>3, <2>4 DEF Declarable, PieceKinds, RowKinds
<1>9. Clean(f)
  BY <1>8 DEF Clean
<1>10. Linked(f)
  <2> SUFFICES ASSUME NEW i \in 1..Len(f), Kind(f[i]) = "link"
               PROVE  Claimed(f, i) = Hash(TailChain(f, i-1), Body(f, i))
    BY DEF Linked
  <2>1. Claimed(f, i) = Hash(Prev(f, i, FALSE), Body(f, i))
    BY <1>8 DEF Mismatch
  <2> QED
    BY <1>1, <1>9, <2>1, PrevInCleanFile
<1> QED
  BY <1>7, <1>9, <1>10

\* And such a file is green, strictly.
LEMMA CleanIsGreen ==
  ASSUME NEW f, Len(f) \in Nat, Clean(f), Linked(f), RowCount(f) > 0
  PROVE  Ok(f, TRUE) = "True"
<1>1. f # <<>>
  <2> SUFFICES ASSUME f = <<>> PROVE FALSE
    OBVIOUS
  <2>1. {i \in 1..Len(f) : IsRow(f, i)} = {}
    OBVIOUS
  <2>2. RowCount(f) = 0
    BY <2>1, FS_EmptySet DEF RowCount, Lines
  <2> QED
    BY <2>2
<1>2. ASSUME NEW i \in 1..Len(f)
      PROVE  ~Broken(f, i, TRUE) /\ Kind(f[i]) # "twin"
  <2>1. Kind(f[i]) \in {"blank", "link"}
    BY DEF Clean
  <2>2. ~Mismatch(f, i, TRUE)
    <3>1. Prev(f, i, TRUE) = TailChain(f, i-1)
      BY PrevInCleanFile
    <3> QED
      BY <2>1, <3>1 DEF Mismatch, Linked
  <2> QED
    BY <2>1, <2>2 DEF Broken, Declarable, Stray
<1>3. ~(Breaks(f, TRUE) > 0)
  <2> DEFINE total == Breaks(f, TRUE)
             broken == {i \in 1..Len(f) : Broken(f, i, TRUE)}
             twins  == {i \in 1..Len(f) : Kind(f[i]) = "twin"}
  <2>1. broken = {} /\ twins = {}
    BY <1>2
  <2>2. total = Cardinality(broken) + Cardinality(twins)
    BY <1>1 DEF Breaks, Lines
  <2> HIDE DEF total, broken, twins
  <2>3. Cardinality(broken) = 0 /\ Cardinality(twins) = 0
    BY <2>1, FS_EmptySet
  <2>4. ~(total > 0)
    BY <2>2, <2>3
  <2> QED
    BY <2>4 DEF total
<1>4. RowCount(f) # 0
  BY RowNumberSteps DEF RowCount, Lines, RowNumber
<1>5. ~Bounded(f, TRUE)
  BY <1>4 DEF Bounded
<1> QED
  BY <1>3, <1>5 DEF Ok

\* In such a file the chain at a line spells the rows up to it.
LEMMA ChainSpells ==
  ASSUME NEW f, Len(f) \in Nat, Clean(f), Linked(f), NEW n \in 0..Len(f)
  PROVE  /\ TailChain(f, n) \in Seq({Body(f, i) : i \in 1..Len(f)})
         /\ Len(TailChain(f, n)) = RowNumber(f, n)
         /\ \A i \in 1..n : IsRow(f, i) => TailChain(f, n)[RowNumber(f, i)] = Body(f, i)
<1> DEFINE B == {Body(f, i) : i \in 1..Len(f)}
           Spells(k) == /\ TailChain(f, k) \in Seq(B)
                        /\ Len(TailChain(f, k)) = RowNumber(f, k)
                        /\ \A i \in 1..k : IsRow(f, i) =>
                             TailChain(f, k)[RowNumber(f, i)] = Body(f, i)
           T == {k \in 0..Len(f) : ~Spells(k)}
<1> SUFFICES ASSUME T # {} PROVE FALSE
  OBVIOUS
<1>1. PICK k \in T : \A y \in T : k <= y
  <2>1. T \in SUBSET Nat
    OBVIOUS
  <2> HIDE DEF T
  <2> QED
    BY <2>1, Smallest
<1>2. k \in 0..Len(f) /\ ~Spells(k)
  OBVIOUS
<1>3. k # 0
  <2>1. TailChain(f, 0) = <<>>
    BY DEF TailChain, Genesis
  <2>2. RowNumber(f, 0) = 0
    BY RowNumberSteps
  <2>3. <<>> \in Seq(B) /\ Len(<<>>) = 0
    OBVIOUS
  <2>4. Spells(0)
    <3> HIDE DEF B
    <3>1. 1..0 = {}
      OBVIOUS
    <3> QED
      BY <2>1, <2>2, <2>3, <3>1
  <2> QED
    BY <1>2, <2>4
<1>4. k \in Nat \ {0} /\ k \in 1..Len(f) /\ k - 1 \in Nat /\ (k - 1) + 1 = k
  BY <1>2, <1>3
<1>5. Spells(k - 1)
  <2>1. k - 1 \notin T /\ k - 1 \in 0..Len(f)
    <3> HIDE DEF T
    <3> QED
      BY <1>1, <1>4
  <2> QED
    BY <2>1
<1>6. /\ RowNumber(f, k) = IF IsRow(f, k) THEN RowNumber(f, k-1) + 1 ELSE RowNumber(f, k-1)
      /\ RowNumber(f, k-1) \in Nat
  BY <1>4, RowNumberSteps
<1>7. CASE ~IsRow(f, k)
  <2>1. TailChain(f, k) = TailChain(f, k-1)
    BY <1>4, <1>7, TailChainSkips
  <2>2. \A i \in 1..k : IsRow(f, i) => i \in 1..k-1
    BY <1>4, <1>7
  <2> HIDE DEF B, T
  <2> QED
    BY <1>2, <1>5, <1>6, <1>7, <2>1, <2>2
<1>8. CASE IsRow(f, k)
  <2>1. Kind(f[k]) = "link"
    BY <1>4, <1>8 DEF Clean, IsRow, RowKinds
  <2>2. TailChain(f, k) = Append(TailChain(f, k-1), Body(f, k))
    BY <1>4, <1>8, <2>1, TailChainTakes DEF Linked, Hash
  <2>3. Body(f, k) \in B
    BY <1>4
  <2>4. ASSUME NEW i \in 1..k, IsRow(f, i)
        PROVE  TailChain(f, k)[RowNumber(f, i)] = Body(f, i)
    <3>1. CASE i = k
      <4> HIDE DEF B, T
      <4> QED
        BY <1>5, <1>6, <1>8, <2>2, <3>1
    <3>2. CASE i # k
      <4>1. i \in 1..k-1 /\ i \in 0..k-1
        BY <1>4, <3>2
      <4>2. RowNumber(f, i) <= RowNumber(f, k-1)
        BY <1>4, <4>1, RowNumberGrows
      <4>3. RowNumber(f, i) \in Nat /\ RowNumber(f, i) > 0
        <5>1. 0 < i /\ RowNumber(f, 0) = 0 /\ i \in Nat
          BY RowNumberSteps
        <5> QED
          BY <2>4, <5>1, RowNumbersDiffer, RowNumberSteps
      <4>4. TailChain(f, k-1)[RowNumber(f, i)] = Body(f, i)
        BY <1>5, <2>4, <4>1
      <4> HIDE DEF B, T
      <4> QED
        BY <1>5, <1>6, <2>2, <4>2, <4>3, <4>4
    <3> QED
      BY <3>1, <3>2
  <2>5. TailChain(f, k) \in Seq(B) /\ Len(TailChain(f, k)) = RowNumber(f, k)
    <3> HIDE DEF B, T
    <3> QED
      BY <1>5, <1>6, <1>8, <2>2, <2>3
  <2> QED
    BY <1>2, <2>4, <2>5
<1> QED
  BY <1>7, <1>8

(***************************************************************************)
(* Definitions by recursion.                                               *)
(***************************************************************************)
\* A function over 0..n that is defined by its value before exists.
Recursion(g, V, n, a, h) ==
  g \in [0..n -> V] /\ g[0] = a /\ \A i \in 1..n : g[i] = h[i][g[i-1]]

LEMMA RecursionExists ==
  ASSUME NEW V, NEW a \in V, NEW n \in Nat, NEW h \in [1..n -> [V -> V]]
  PROVE  \E g : Recursion(g, V, n, a, h)
<1> DEFINE Good(m) == \E e \in [0..m -> V] :
                        e[0] = a /\ \A i \in 1..m : e[i] = h[i][e[i-1]]
           T == {m \in 0..n : ~Good(m)}
<1>1. T = {}
  <2> SUFFICES ASSUME T # {} PROVE FALSE
    OBVIOUS
  <2>1. T \in SUBSET Nat
    OBVIOUS
  <2>2. PICK m \in T : \A k \in T : m <= k
    BY <2>1, Smallest, Zenon
  <2>3. m \in 0..n /\ ~Good(m)
    BY <2>2
  <2>4. CASE m = 0
    <3> DEFINE k == [i \in 0..0 |-> a]
    <3>1. k \in [0..0 -> V] /\ k[0] = a
      OBVIOUS
    <3> HIDE DEF k
    <3>2. Good(0)
      BY <3>1
    <3> QED
      BY <2>3, <2>4, <3>2
  <2>5. CASE m # 0
    <3>1. Good(m-1) /\ m-1 \in 0..n
      <4> HIDE DEF Good
      <4> QED
        BY <2>2, <2>3, <2>5
    <3>2. PICK g \in [0..m-1 -> V] :
                 g[0] = a /\ \A i \in 1..m-1 : g[i] = h[i][g[i-1]]
      BY <3>1
    <3> DEFINE k == [i \in 0..m |-> IF i = m THEN h[m][g[m-1]] ELSE g[i]]
    <3>3. h[m][g[m-1]] \in V
      BY <2>3, <2>5
    <3>4. k \in [0..m -> V] /\ k[0] = a
      BY <2>3, <2>5, <3>2, <3>3
    <3>5. ASSUME NEW i \in 1..m
          PROVE  k[i] = h[i][k[i-1]]
      <4>1. CASE i = m
        <5>1. k[i-1] = g[m-1]
          BY <2>3, <2>5, <4>1
        <5> QED
          BY <2>5, <4>1, <5>1
      <4>2. CASE i # m
        <5>1. i \in 1..m-1 /\ i-1 \in 0..m /\ i-1 # m
          BY <2>3, <4>2
        <5> QED
          BY <3>2, <4>2, <5>1
      <4> QED
        BY <4>1, <4>2
    <3> HIDE DEF k
    <3>6. \E e \in [0..m -> V] : e[0] = a /\ \A i \in 1..m : e[i] = h[i][e[i-1]]
      BY <3>4, <3>5, Zenon
    <3> QED
      BY <2>3, <3>6
  <2> QED
    BY <2>4, <2>5
<1> QED
  BY <1>1, SMTT(30) DEF Recursion

\* What holds at 0 and is kept from each number to the next holds up to n.
LEMMA StepByStep ==
  ASSUME NEW n \in Nat, NEW S, 0 \in S, \A i \in 1..n : i-1 \in S => i \in S
  PROVE  \A i \in 0..n : i \in S
<1> DEFINE T == {i \in 0..n : i \notin S}
<1> SUFFICES ASSUME T # {} PROVE FALSE
  OBVIOUS
<1>1. T \in SUBSET Nat
  OBVIOUS
<1>2. PICK i \in T : \A k \in T : i <= k
  BY <1>1, Smallest, Zenon
<1>3. i \in 1..n
  BY <1>2
<1>4. i-1 \in 0..n /\ i-1 \notin T
  BY <1>2, <1>3
<1> QED
  BY <1>2, <1>3, <1>4

(***************************************************************************)
(* Rows by their numbers.                                                  *)
(***************************************************************************)
\* A file over fewer pieces is one over more.
LEMMA SeqGrows ==
  ASSUME NEW P, NEW Q, P \subseteq Q, NEW f \in Seq(Seq(P))
  PROVE  f \in Seq(Seq(Q))
<1>1. \A s \in Seq(P) : s \in Seq(Q)
  OBVIOUS
<1> QED
  BY <1>1

\* The n-th row, found by its number.
LEMMA RowAt ==
  ASSUME NEW f, Len(f) \in Nat, NEW i \in 1..Len(f), IsRow(f, i),
         NEW k \in 1..Len(f), IsRow(f, k), RowNumber(f, k) = RowNumber(f, i)
  PROVE  k = i
<1>1. CASE k < i
  BY <1>1, RowNumbersDiffer, RowNumberSteps
<1>2. CASE i < k
  BY <1>2, RowNumbersDiffer, RowNumberSteps
<1> QED
  BY <1>1, <1>2

\* The number of rows is the number of the last one.
LEMMA CountIsLastNumber ==
  ASSUME NEW f, Len(f) \in Nat
  PROVE  RowCount(f) = RowNumber(f, Len(f)) /\ RowCount(f) \in Nat
BY RowNumberSteps DEF RowCount, Lines, RowNumber
=============================================================================
