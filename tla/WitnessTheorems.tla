---- MODULE WitnessTheorems ----
(***************************************************************************)
(* What the pin file shows, whatever happens to it and for any number of   *)
(* publications and mishaps: it never goes backward, it accuses nobody who *)
(* only appended, and `consistent' is only said of a log that still holds  *)
(* what was pinned.                                                        *)
(***************************************************************************)
EXTENDS Witness, LedgerLogTheorems

(***************************************************************************)
(* The log.  Only the library writes to it, and what cuts or re-mints it   *)
(* leaves a log the library could have written: its lines are rows and     *)
(* blank ones, each row is linked, the last line is closed.                *)
(***************************************************************************)
LogPieces == PiecesOver(Content, Seq(Content))
Closed(s) == s # <<>> => s[Len(s)] = <<>>
Good(f) == f \in Seq(Seq(LogPieces)) /\ Clean(f) /\ Linked(f) /\ Closed(f)

\* Such a log is its last chain value: chain_at any row is a prefix of it.
LEMMA ChainOfGood ==
  ASSUME NEW f, Good(f)
  PROVE  /\ LastChain(f) \in Seq(Content) /\ Len(LastChain(f)) = RowCount(f) /\ RowCount(f) \in Nat
         /\ \A k \in 1..RowCount(f) : ChainAt(f, k) = SubSeq(LastChain(f), 1, k) /\ ChainAt(f, k) # NoChain
<1>1. /\ Len(f) \in Nat /\ Clean(f) /\ Linked(f) /\ f \in Seq(Seq(LogPieces))
      /\ RowCount(f) = RowNumber(f, Len(f)) /\ RowCount(f) \in Nat
  BY CountIsLastNumber DEF Good
<1>2. ASSUME NEW i \in 1..Len(f), IsRow(f, i)
      PROVE  Kind(f[i]) = "link" /\ Claimed(f, i) \in Seq(Content)
  <2>1. Kind(f[i]) = "link" /\ f[i] \in Seq(LogPieces) /\ f[i] # <<>>
    BY <1>1, <1>2 DEF Clean, IsRow, RowKinds, Kind
  <2>2. f[i][1] \in LogPieces
    BY <2>1
  <2> QED
    BY <2>1, <2>2 DEF LogPieces, PiecesOver, Claimed
<1>3. LastChain(f) \in Seq(Content)
  <2>1. CASE \E i \in 1..Len(f) : LastRowIs(f, i, Len(f))
    <3>1. PICK i \in 1..Len(f) : LastRowIs(f, i, Len(f))
      BY <2>1
    <3>2. LastChain(f) = Claimed(f, i) /\ IsRow(f, i)
      BY <1>1, <3>1, TailChainIs DEF LastChain, LastRowIs
    <3> QED
      BY <1>2, <3>2
  <2>2. CASE ~ \E i \in 1..Len(f) : LastRowIs(f, i, Len(f))
    BY <2>2 DEF LastChain, TailChain, Genesis
  <2> QED
    BY <2>1, <2>2
<1>4. Len(LastChain(f)) = RowCount(f)
  <2>1. Len(f) \in 0..Len(f)
    BY <1>1
  <2> QED
    BY <1>1, <2>1, ChainSpells DEF LastChain
<1>5. ASSUME NEW k \in 1..RowCount(f)
      PROVE  ChainAt(f, k) = SubSeq(LastChain(f), 1, k) /\ ChainAt(f, k) # NoChain
  <2> DEFINE c == CHOOSE i \in 1..Len(f) : IsRow(f, i) /\ RowNumber(f, i) = k
  <2>1. c \in 1..Len(f) /\ IsRow(f, c) /\ RowNumber(f, c) = k
    <3>1. \E i \in 1..Len(f) : IsRow(f, i) /\ RowNumber(f, i) = k
      BY <1>1, RowNumbersAreUsed
    <3> QED
      BY <3>1
  <2>2. ChainAt(f, k) = Claimed(f, c)
    BY <1>1, <1>2, <2>1 DEF ChainAt
  <2> HIDE DEF c
  <2>3. Claimed(f, c) = TailChain(f, c) /\ c \in Nat \ {0} /\ c \in 0..Len(f)
    BY <1>1, <2>1, TailChainTakes
  <2> DEFINE t == TailChain(f, c)
             w == LastChain(f)
  <2>4. t \in Seq(Content) /\ Len(t) = k /\ w \in Seq(Content) /\ Len(w) = RowCount(f)
    BY <1>1, <1>2, <1>3, <1>4, <2>1, <2>3, ChainSpells
  <2>5. ASSUME NEW j \in 1..k PROVE t[j] = w[j]
    <3>1. PICK i \in 1..c : IsRow(f, i) /\ RowNumber(f, i) = j
      BY <2>1, <2>3, RowNumbersAreUsed
    <3>2. t[j] = Body(f, i)
      BY <1>1, <2>3, <3>1, ChainSpells
    <3>3. w[j] = Body(f, i)
      <4>1. i \in 1..Len(f) /\ Len(f) \in 0..Len(f)
        BY <1>1, <2>1, <3>1
      <4> QED
        BY <1>1, <3>1, <4>1, ChainSpells DEF LastChain
    <3> QED
      BY <3>2, <3>3
  <2> HIDE DEF t, w
  <2>6. t = SubSeq(w, 1, k)
    BY <1>1, <2>4, <2>5, SMTT(30)
  <2>7. t # NoChain
    <3>1. t[1] \in Content
      BY <2>4
    <3> QED
      BY <3>1, VoidIsNoBody DEF NoChain
  <2> QED
    BY <2>2, <2>3, <2>6, <2>7 DEF t, w
<1> QED
  BY <1>1, <1>3, <1>4, <1>5

\* So is the empty file.
LEMMA EmptyIsGood == Good(<<>>) /\ RowCount(<<>>) = 0
<1>1. <<>> \in Seq(Seq(LogPieces)) /\ Len(<<>>) = 0
  OBVIOUS
<1>2. Good(<<>>)
  BY <1>1 DEF Good, Clean, Linked, Closed
<1>3. RowCount(<<>>) = 0
  BY <1>1, CountIsLastNumber, RowNumberSteps
<1> QED
  BY <1>2, <1>3

\* The library's append, and the append that mints a row anew.
Grown(f, b) == Put(f, FALSE, <<Row(b, LastChain(f))>>, TRUE)
\* An append adds one row to the chain and disturbs no row before it.
LEMMA GoodAppend ==
  ASSUME NEW f, Good(f), NEW b \in Content, NEW g, g = Grown(f, b)
  PROVE  /\ Good(g) /\ LastChain(g) = Append(LastChain(f), b) /\ RowCount(g) = RowCount(f) + 1
         /\ \A k \in 1..RowCount(f) : ChainAt(g, k) = ChainAt(f, k)
<1>0. PICK r : r = Row(b, LastChain(f))
  OBVIOUS
<1>one. PICK s : s = <<r>>
  OBVIOUS
<1> DEFINE P == LogPieces \cup {Scrap}
<1>1. f \in Seq(Seq(LogPieces)) /\ LastChain(f) \in Seq(Content) /\ EndsInNewline(f)
  BY ChainOfGood DEF Good, Closed, EndsInNewline
<1>2. r \in LogPieces /\ r.kind = "link"
  BY <1>0, <1>1 DEF Row, LogPieces, PiecesOver, PieceKinds, RowKinds, Hash
<1>3. /\ f \in Seq(Seq(P)) /\ Scrap \in P /\ r \in P
      /\ s \in Seq(LogPieces) /\ s # <<>> /\ Len(s) = 1 /\ s[1] = r
  BY <1>1, <1>2, <1>one, SeqGrows
<1>4. g = Put(f, ~EndsInNewline(f), s, TRUE)
  BY <1>0, <1>one, <1>1 DEF Grown
<1>5. LastChain(g) = Append(LastChain(f), b) /\ Linked(g)
  <2> HIDE DEF P
  <2>1. s = <<Row(b, LastChain(f))>> /\ Row(b, LastChain(f)) \in P
    BY <1>0, <1>one, <1>3
  <2>2. s \in {<<>>, <<Scrap>>, <<Row(b, LastChain(f))>>}
    BY <2>1
  <2>nl. PICK nl \in BOOLEAN : nl = TRUE
    OBVIOUS
  <2>put. g = Put(f, ~EndsInNewline(f), s, nl)
    BY <1>4, <2>nl
  <2>3. /\ LastChain(g) = (IF s = <<Row(b, LastChain(f))>>
                          THEN Hash(LastChain(f), b) ELSE LastChain(f))
        /\ Linked(f) => Linked(g)
    BY <1>3, <2>put, <2>1, <2>2, PutExtends
  <2> QED
    BY <2>1, <2>3 DEF Hash, Good
<1>6. g = Filled(Healed(f), s, TRUE)
  BY <1>1, <1>3, <1>4, PutHeals
<1>7. PICK o : o = Healed(f)
  OBVIOUS
<1>m. PICK m : m = Len(o)
  OBVIOUS
<1>8. /\ o \in Seq(Seq(LogPieces)) /\ Len(o) = m /\ m \in Nat \ {0} /\ o[m] = <<>>
      /\ o = Opened(f)
  BY <1>1, <1>7, <1>m, HealedIs DEF Healed
<1>9. /\ g \in Seq(Seq(LogPieces)) /\ Len(g) = m + 1 /\ g[m] = s
      /\ \A k \in 1..m-1 : g[k] = o[k]
      /\ g[m+1] = <<>>
  <2>1. PICK h : h = [o EXCEPT ![m] = s]
    OBVIOUS
  <2>2. /\ h \in Seq(Seq(LogPieces)) /\ Len(h) = m /\ h[m] = s
        /\ \A k \in 1..m-1 : h[k] = o[k]
    BY <1>3, <1>8, <2>1
  <2>3. g = Append(h, <<>>)
    BY <1>6, <1>7, <1>8, <2>1 DEF Filled
  <2>4. <<>> \in Seq(LogPieces)
    OBVIOUS
  <2> QED
    BY <1>8, <2>2, <2>3, <2>4
<1>clean. Clean(g)
  <2> SUFFICES ASSUME NEW i \in 1..Len(g) PROVE Kind(g[i]) \in {"blank", "link"}
    BY DEF Clean
  <2>1. CASE i = m + 1
    BY <1>9, <2>1 DEF Kind
  <2>2. CASE i = m
    BY <1>2, <1>3, <1>9, <2>2 DEF Kind
  <2>3. CASE i \in 1..m-1
    <3>1. g[i] = o[i] /\ i \in 1..Len(o)
      BY <1>8, <1>9, <2>3
    <3>2. o # << <<>> >> \/ m = 1
      BY <1>8
    <3>3. o = f /\ i \in 1..Len(f)
      BY <1>8, <2>3, <3>1, <3>2 DEF Opened
    <3> QED
      BY <3>1, <3>3 DEF Good, Clean
  <2> QED
    BY <1>8, <1>9, <2>1, <2>2, <2>3
<1>10. Good(g)
  BY <1>5, <1>8, <1>9, <1>clean DEF Good, Closed
<1>11. RowCount(g) = RowCount(f) + 1
  <2>1. /\ Len(LastChain(g)) = RowCount(g) /\ Len(LastChain(f)) = RowCount(f)
        /\ RowCount(f) \in Nat
    <3>1. Len(LastChain(g)) = RowCount(g)
      BY <1>10, ChainOfGood
    <3> QED
      BY <3>1, ChainOfGood
  <2>2. Len(Append(LastChain(f), b)) = Len(LastChain(f)) + 1
    BY <1>1
  <2> QED
    BY <1>5, <2>1, <2>2
<1>12. ASSUME NEW k \in 1..RowCount(f) PROVE ChainAt(g, k) = ChainAt(f, k)
  <2>1. RowCount(f) \in Nat /\ Len(LastChain(f)) = RowCount(f)
    BY ChainOfGood
  <2>2. k \in 1..RowCount(g)
    BY <1>11, <2>1
  <2>3. ChainAt(g, k) = SubSeq(Append(LastChain(f), b), 1, k)
    BY <1>5, <1>10, <2>2, ChainOfGood
  <2>4. ChainAt(f, k) = SubSeq(LastChain(f), 1, k)
    BY ChainOfGood
  <2>5. SubSeq(Append(LastChain(f), b), 1, k) = SubSeq(LastChain(f), 1, k)
    BY <1>1, <2>1
  <2> QED
    BY <2>3, <2>4, <2>5
<1> QED
  BY <1>5, <1>10, <1>11, <1>12

\* Line i and all after it cut off.
CutAt(f, i) == [SubSeq(f, 1, i) EXCEPT ![i] = <<>>]
\* What is left of a log that is cut is such a log.
LEMMA GoodCut ==
  ASSUME NEW f, Good(f), NEW i \in 1..Len(f), NEW g, g = CutAt(f, i)
  PROVE  Good(g)
<1>1. f \in Seq(Seq(LogPieces)) /\ Len(f) \in Nat /\ i \in 1..Len(f)
  BY DEF Good
<1>2. /\ g \in Seq(Seq(LogPieces)) /\ Len(g) = i /\ g[i] = <<>>
      /\ \A k \in 1..i-1 : g[k] = f[k]
  <2> DEFINE h == SubSeq(f, 1, i)
  <2>1. h \in Seq(Seq(LogPieces)) /\ Len(h) = i /\ \A k \in 1..i : h[k] = f[k]
    BY <1>1
  <2>2. <<>> \in Seq(LogPieces)
    OBVIOUS
  <2> HIDE DEF h
  <2>3. g = [h EXCEPT ![i] = <<>>]
    BY DEF h, CutAt
  <2> QED
    BY <1>1, <2>1, <2>2, <2>3
<1>3. Clean(g)
  <2> SUFFICES ASSUME NEW k \in 1..Len(g) PROVE Kind(g[k]) \in {"blank", "link"}
    BY DEF Clean
  <2>1. CASE k = i
    BY <1>2, <2>1 DEF Kind
  <2>2. CASE k # i
    <3>1. g[k] = f[k] /\ k \in 1..Len(f)
      BY <1>1, <1>2, <2>2
    <3> QED
      BY <3>1 DEF Good, Clean
  <2> QED
    BY <2>1, <2>2
<1>4. Linked(g)
  <2> SUFFICES ASSUME NEW j \in 1..Len(g), Kind(g[j]) = "link"
               PROVE  Claimed(g, j) = Hash(TailChain(g, j-1), Body(g, j))
    BY DEF Linked
  <2>1. j # i
    BY <1>2 DEF Kind
  <2>2. j \in 1..i-1 /\ g[j] = f[j] /\ j \in 1..Len(f) /\ j - 1 \in Nat
    BY <1>1, <1>2, <2>1
  <2>3. TailChain(g, j-1) = TailChain(f, j-1)
    <3>1. \A k \in 1..j-1 : g[k] = f[k]
      BY <1>1, <1>2, <2>2
    <3> QED
      BY <2>2, <3>1, TailChainIsLocal
  <2>4. Claimed(f, j) = Hash(TailChain(f, j-1), Body(f, j))
    BY <2>2 DEF Good, Linked
  <2> QED
    BY <2>2, <2>3, <2>4 DEF Claimed, Body
<1> QED
  BY <1>2, <1>3, <1>4 DEF Good, Closed

(***************************************************************************)
(* The pin file, whoever writes to it.                                     *)
(***************************************************************************)
Digests == [rows : Int, chain : Seq(Content), stamp : Nat]
Pins == [kind : {"pin"}, rows : Nat, chain : Seq(Content), stamp : Nat, prev : Digests,
         self : Digests, edited : BOOLEAN]
PinFiles == Seq(Seq(Pins \cup {Scrap}))

\* A line that holds a pin holds nothing else.
LEMMA PinLine ==
  ASSUME NEW s \in PinFiles, NEW i \in 1..Len(s), IsPin(s, i)
  PROVE  /\ s[i] = <<s[i][1]>> /\ Len(s[i]) = 1 /\ s[i] # <<>>
         /\ s[i][1] \in Pins /\ Digest(s[i][1]) \in Digests
<1>1. s[i] \in Seq(Pins \cup {Scrap})
  BY DEF PinFiles
<1>2. s[i] # <<>> /\ Len(s[i]) = 1 /\ s[i][1].kind = "pin"
  BY DEF IsPin, Kind
<1>3. s[i][1] \in Pins
  BY <1>1, <1>2 DEF Scrap
<1>4. Digest(s[i][1]) \in Digests
  BY <1>3 DEF Digest, Digests, Pins
<1> QED
  BY <1>1, <1>2, <1>3, <1>4

\* A line of one pin.
LEMMA OnePin ==
  ASSUME NEW x \in Pins, NEW s, NEW i, s[i] = <<x>>
  PROVE  IsPin(s, i) /\ s[i][1] = x
<1>1. x.kind = "pin"
  BY DEF Pins
<1> QED
  BY <1>1 DEF IsPin, Kind

\* A blank line holds no pin.
LEMMA BlankIsNoPin ==
  ASSUME NEW s, NEW i, s[i] = <<>>
  PROVE  ~IsPin(s, i) /\ Kind(s[i]) = "blank"
BY DEF IsPin, Kind

\* Scrapped lines.
Scrapped(s) == \E i \in 1..Len(s) : Kind(s[i]) = "scrap"

\* What a write of pin x at the end of s, whole or cut short, makes of it:
\* the pins of s stay, and x comes after them, unless the open line was no
\* empty one.
Kept(s, g, i) == i \in 1..Len(s) /\ i \in 1..Len(g) /\ g[i] = s[i]
Landed(s, g, x) ==
  /\ \A i \in 1..Len(g) : IsPin(g, i) =>
       \/ Kept(s, g, i)
       \/ /\ g[i] = <<x>> /\ i = Len(Opened(s))
          /\ \A j \in 1..Len(s) : IsPin(s, j) => j < i
  /\ \A i \in 1..Len(s) : IsPin(s, i) => Kept(s, g, i) \/ Scrapped(g)
  /\ Scrapped(s) => Scrapped(g)

\* A payload that begins a line of its own.
PutPieces(s, pieces, newline) == Put(s, FALSE, pieces, newline)

PutIs(s, g, pieces, m) ==
  /\ g \in PinFiles /\ m \in Nat \ {0} /\ Len(g) \in {m, m + 1}
  /\ \A k \in 1..m-1 : k \in 1..Len(s) /\ g[k] = s[k]
  /\ s # <<>> => m = Len(s) /\ g[m] = s[m] \o pieces
  /\ s = <<>> => m = 1 /\ g[m] = pieces
  /\ m + 1 \in 1..Len(g) => g[m+1] = <<>>

\* Put, for the pin file: the new pieces end the open line.
LEMMA PiecesPut ==
  ASSUME NEW s \in PinFiles, NEW pieces \in Seq(Pins \cup {Scrap}), NEW newline \in BOOLEAN,
         NEW g, g = PutPieces(s, pieces, newline), NEW m, m = Len(Opened(s))
  PROVE  PutIs(s, g, pieces, m) /\ (newline => Len(g) = m + 1)
<1>1. PICK o : o = Opened(s)
  OBVIOUS
<1>2. /\ o \in PinFiles /\ Len(o) = m /\ m \in Nat \ {0}
      /\ s # <<>> => o = s
      /\ s = <<>> => m = 1 /\ o[m] = <<>>
  <2>1. CASE s = <<>>
    <3>1. o = << <<>> >> /\ <<>> \in Seq(Pins \cup {Scrap})
      BY <1>1, <2>1 DEF Opened
    <3>2. o \in PinFiles /\ Len(o) = 1 /\ o[1] = <<>>
      BY <3>1 DEF PinFiles
    <3> QED
      BY <1>1, <2>1, <3>2
  <2>2. CASE s # <<>>
    BY <1>1, <2>2 DEF Opened, PinFiles
  <2> QED
    BY <2>1, <2>2
<1>3. PICK h : h = [o EXCEPT ![m] = o[m] \o pieces]
  OBVIOUS
<1>4. /\ h \in PinFiles /\ Len(h) = m /\ h[m] = o[m] \o pieces
      /\ \A k \in 1..m-1 : h[k] = o[k]
  BY <1>2, <1>3 DEF PinFiles
<1>5. g = IF newline THEN Append(h, <<>>) ELSE h
  BY <1>1, <1>2, <1>3 DEF Put, PutPieces
<1>6. <<>> \in Seq(Pins \cup {Scrap})
  OBVIOUS
<1> HIDE <1>3
<1>7. /\ g \in PinFiles /\ Len(g) \in {m, m + 1}
      /\ g[m] = h[m] /\ \A k \in 1..m-1 : g[k] = h[k]
      /\ m + 1 \in 1..Len(g) => g[m+1] = <<>>
      /\ newline => Len(g) = m + 1
  <2>1. CASE newline
    <3>1. g = Append(h, <<>>)
      BY <1>5, <2>1
    <3>0. h \in Seq(Seq(Pins \cup {Scrap})) /\ Len(h) = m /\ m \in Nat \ {0}
      BY <1>2, <1>4 DEF PinFiles
    <3>2. Len(g) = m + 1 /\ g[m+1] = <<>> /\ g[m] = h[m] /\ \A k \in 1..m-1 : g[k] = h[k]
      BY <3>0, <3>1
    <3>3. g \in PinFiles
      BY <1>4, <1>6, <3>1 DEF PinFiles
    <3> QED
      BY <3>2, <3>3
  <2>2. CASE ~newline
    <3>1. g = h
      BY <1>5, <2>2
    <3> QED
      BY <1>2, <1>4, <2>2, <3>1
  <2> QED
    BY <2>1, <2>2
<1>8. \A k \in 1..m-1 : k \in 1..Len(s) /\ o[k] = s[k]
  BY <1>2
<1>9. s # <<>> => m = Len(s) /\ g[m] = s[m] \o pieces
  BY <1>2, <1>4, <1>7
<1>10. s = <<>> => m = 1 /\ g[m] = pieces
  <2>1. <<>> \o pieces = pieces
    OBVIOUS
  <2> QED
    BY <1>2, <1>4, <1>7, <2>1
<1>11. \A k \in 1..m-1 : k \in 1..Len(s) /\ g[k] = s[k]
  BY <1>4, <1>7, <1>8
<1> QED
  BY <1>2, <1>7, <1>9, <1>10, <1>11 DEF PutIs

\* Pieces that ran into each other are scrap.
LEMMA LongLine ==
  ASSUME NEW t, NEW n \in Nat, Len(t) = n, n > 1
  PROVE  Kind(t) = "scrap"
<1>1. t # <<>>
  <2>1. Len(<<>>) = 0
    OBVIOUS
  <2> QED
    BY <2>1
<1> QED
  BY <1>1 DEF Kind

\* One put of a pin, whole or cut short, lands as Landed says.
LEMMA PutLands ==
  ASSUME NEW s \in PinFiles, NEW x \in Pins, NEW pieces \in {<<>>, <<Scrap>>, <<x>>},
         NEW newline \in BOOLEAN, NEW g, g = PutPieces(s, pieces, newline)
  PROVE  g \in PinFiles /\ Landed(s, g, x)
<1>0. PICK m : m = Len(Opened(s))
  OBVIOUS
<1>1. pieces \in Seq(Pins \cup {Scrap}) /\ (pieces = <<>> \/ Len(pieces) = 1)
  <2>1. <<>> \in Seq(Pins \cup {Scrap})
    OBVIOUS
  <2>2. <<Scrap>> \in Seq(Pins \cup {Scrap}) /\ Len(<<Scrap>>) = 1
    OBVIOUS
  <2>3. <<x>> \in Seq(Pins \cup {Scrap}) /\ Len(<<x>>) = 1
    OBVIOUS
  <2> QED
    BY <2>1, <2>2, <2>3
<1>put. PutIs(s, g, pieces, m)
  BY <1>0, <1>1, PiecesPut
<1>2. /\ g \in PinFiles /\ m \in Nat \ {0} /\ m \in 1..Len(g)
      /\ Len(g) \in {m, m + 1}
      /\ \A k \in 1..m-1 : k \in 1..Len(s) /\ g[k] = s[k]
      /\ s # <<>> => m = Len(s) /\ g[m] = s[m] \o pieces
      /\ s = <<>> => m = 1 /\ g[m] = pieces
      /\ m + 1 \in 1..Len(g) => g[m+1] = <<>>
  BY <1>put DEF PutIs
<1>3. Len(s) \in Nat /\ (s = <<>> => Len(s) = 0)
  BY DEF PinFiles
<1>m. \A i \in 1..Len(s) : s # <<>> /\ i \in 1..m /\ i \in 1..Len(g)
  BY <1>2, <1>3
<1>4. ASSUME s # <<>>, s[m] # <<>>, pieces # <<>>
      PROVE  Kind(g[m]) = "scrap"
  <2>1. s[m] \in Seq(Pins \cup {Scrap}) /\ Len(s[m]) > 0
    BY <1>2, <1>3, <1>4 DEF PinFiles
  <2>2. Len(g[m]) \in Nat /\ Len(g[m]) > 1
    BY <1>1, <1>2, <1>4, <2>1
  <2> QED
    BY <2>2, LongLine
<1>5. ASSUME s # <<>>, pieces = <<>> PROVE g[m] = s[m]
  <2>1. s[m] \in Seq(Pins \cup {Scrap})
    BY <1>2, <1>3, <1>5 DEF PinFiles
  <2> QED
    BY <1>2, <1>5, <2>1
<1>6. ASSUME s # <<>>, s[m] = <<>> PROVE g[m] = pieces
  BY <1>1, <1>2, <1>6
<1>7. ASSUME NEW i \in 1..Len(g), IsPin(g, i)
      PROVE  \/ Kept(s, g, i)
             \/ /\ g[i] = <<x>> /\ i = m
                /\ \A j \in 1..Len(s) : IsPin(s, j) => j < i
  <2>1. CASE i \in 1..m-1
    BY <1>2, <2>1 DEF Kept
  <2>2. CASE i = m + 1
    <3>1. g[i] = <<>>
      BY <1>2, <2>2
    <3> QED
      BY <1>7, <3>1, BlankIsNoPin
  <2>3. CASE i = m
    <3>1. CASE s # <<>> /\ s[m] # <<>>
      <4>1. pieces = <<>>
        BY <1>4, <1>7, <2>3, <3>1 DEF IsPin
      <4> QED
        BY <1>2, <1>3, <1>5, <2>3, <3>1, <4>1 DEF Kept
    <3>2. CASE s = <<>> \/ s[m] = <<>>
      <4>1. g[m] = pieces
        BY <1>2, <1>6, <3>2
      <4>2. pieces # <<>> /\ pieces # <<Scrap>>
        <5>1. g[i] # <<>>
          BY <1>7, BlankIsNoPin
        <5>2. Kind(<<Scrap>>) # "pin"
          BY DEF Kind, Scrap
        <5> QED
          BY <1>7, <2>3, <4>1, <5>1, <5>2 DEF IsPin
      <4>3. g[i] = <<x>>
        BY <2>3, <4>1, <4>2
      <4>4. ASSUME NEW j \in 1..Len(s), IsPin(s, j) PROVE j < i
        <5>1. s[m] = <<>>
          BY <1>m, <3>2
        <5>2. j # m
          BY <4>4, <5>1, BlankIsNoPin
        <5> QED
          BY <1>2, <1>m, <2>3, <5>2
      <4> QED
        BY <2>3, <4>3, <4>4
    <3> QED
      BY <3>1, <3>2
  <2> QED
    BY <1>2, <2>1, <2>2, <2>3
<1>8. ASSUME NEW i \in 1..Len(s)
      PROVE  \/ Kept(s, g, i)
             \/ s[i] = <<>> /\ i = m
             \/ Kind(g[i]) = "scrap" /\ i \in 1..Len(g)
  <2>1. CASE i \in 1..m-1
    BY <1>2, <1>m, <2>1 DEF Kept
  <2>2. CASE i = m
    <3>1. CASE pieces = <<>>
      BY <1>5, <1>m, <2>2, <3>1 DEF Kept
    <3>2. CASE pieces # <<>>
      BY <1>4, <1>m, <2>2, <3>2
    <3> QED
      BY <3>1, <3>2
  <2> QED
    BY <1>2, <1>m, <2>1, <2>2
<1>9. \A i \in 1..Len(s) : IsPin(s, i) => Kept(s, g, i) \/ Scrapped(g)
  BY <1>8, BlankIsNoPin DEF Scrapped
<1>10. Scrapped(s) => Scrapped(g)
  <2> SUFFICES ASSUME NEW i \in 1..Len(s), Kind(s[i]) = "scrap" PROVE Scrapped(g)
    BY DEF Scrapped
  <2>1. s[i] # <<>>
    BY DEF Kind
  <2> QED
    BY <1>8, <2>1 DEF Scrapped, Kept
<1> QED
  BY <1>0, <1>2, <1>7, <1>9, <1>10 DEF Landed

\* Every landing of a torn write.
LEMMA LandingLands ==
  ASSUME NEW s \in PinFiles, NEW x \in Pins, NEW g \in Landings(s, FALSE, x)
  PROVE  g \in PinFiles /\ Landed(s, g, x)
<1>1. \/ g = s
      \/ \E pieces \in {<<>>, <<Scrap>>, <<x>>}, newline \in BOOLEAN :
           g = PutPieces(s, pieces, newline)
  BY DEF Landings, PutPieces
<1>2. CASE g = s
  BY <1>2 DEF Landed, Kept
<1>3. ASSUME NEW pieces \in {<<>>, <<Scrap>>, <<x>>}, NEW newline \in BOOLEAN,
             g = PutPieces(s, pieces, newline)
      PROVE  g \in PinFiles /\ Landed(s, g, x)
  BY <1>3, PutLands
<1> QED
  BY <1>1, <1>2, <1>3

\* record's own write: it lands whole, on a line of its own if the open line is
\* empty.
Written(s, x) == PutPieces(s, <<x>>, TRUE)

\* Then the pin is stored, or the file shows a scrapped line.
LEMMA WriteLands ==
  ASSUME NEW s \in PinFiles, NEW x \in Pins, NEW g, g = Written(s, x)
  PROVE  /\ g \in PinFiles /\ Landed(s, g, x)
         /\ Scrapped(g) \/ \E i \in 1..Len(g) : g[i] = <<x>>
<1>1. PICK pieces : pieces = <<x>>
  OBVIOUS
<1>2. PICK nl \in BOOLEAN : nl = TRUE
  OBVIOUS
<1>3. g = PutPieces(s, pieces, nl)
  BY <1>1, <1>2 DEF Written
<1>4. pieces \in {<<>>, <<Scrap>>, <<x>>} /\ pieces \in Seq(Pins \cup {Scrap}) /\ Len(pieces) = 1
  BY <1>1
<1>5. g \in PinFiles /\ Landed(s, g, x)
  BY <1>3, <1>4, PutLands
<1>6. PICK m : m = Len(Opened(s))
  OBVIOUS
<1>7. /\ m \in Nat \ {0} /\ m \in 1..Len(g)
      /\ s # <<>> => m = Len(s) /\ g[m] = s[m] \o pieces
      /\ s = <<>> => m = 1 /\ g[m] = pieces
  <2>1. PutIs(s, g, pieces, m)
    BY <1>3, <1>4, <1>6, PiecesPut
  <2> QED
    BY <2>1 DEF PutIs
<1> HIDE <1>6, <1>3
<1>8. CASE s = <<>>
  BY <1>1, <1>5, <1>7, <1>8, Zenon
<1>9. CASE s # <<>>
  <2>1. s[m] \in Seq(Pins \cup {Scrap})
    BY <1>7, <1>9 DEF PinFiles
  <2>2. CASE s[m] = <<>>
    <3>1. g[m] = pieces
      BY <1>4, <1>7, <1>9, <2>2
    <3> QED
      BY <1>1, <1>5, <1>7, <3>1, Zenon
  <2>3. CASE s[m] # <<>>
    <3>1. Len(g[m]) \in Nat /\ Len(g[m]) > 1
      BY <1>4, <1>7, <1>9, <2>1, <2>3
    <3>2. Kind(g[m]) = "scrap"
      BY <3>1, LongLine
    <3> QED
      BY <1>5, <1>7, <3>2, Zenon DEF Scrapped
  <2> QED
    BY <2>2, <2>3
<1> QED
  BY <1>5, <1>8, <1>9

(***************************************************************************)
(* The last pin.                                                           *)
(***************************************************************************)
LastIs(s, n, i) == i \in 1..n /\ IsPin(s, i) /\ \A j \in i+1..n : ~IsPin(s, j)

\* The last pin of the first n lines, and its digest.
LEMMA LastPinIs ==
  ASSUME NEW s, NEW n \in Nat, NEW i, LastIs(s, n, i)
  PROVE  LastPin(s, n) = i /\ TailDigest(s, n) = Digest(s[i][1])
<1> DEFINE c == CHOOSE k \in 1..n : IsPin(s, k) /\ \A j \in k+1..n : ~IsPin(s, j)
<1>1. c \in 1..n /\ IsPin(s, c) /\ \A j \in c+1..n : ~IsPin(s, j)
  BY DEF LastIs
<1>2. i \in 1..n /\ IsPin(s, i) /\ \A j \in i+1..n : ~IsPin(s, j)
  BY DEF LastIs
<1>3. c = LastPin(s, n)
  BY DEF LastPin
<1> HIDE DEF c
<1>4. c = i
  BY <1>1, <1>2
<1> QED
  BY <1>2, <1>3, <1>4 DEF TailDigest

\* There is one when there is a pin at all.
LEMMA LastPinExists ==
  ASSUME NEW s, NEW n \in Nat, NEW k \in 1..n, IsPin(s, k)
  PROVE  \E i : LastIs(s, n, i) /\ k <= i
<1> DEFINE T == {x \in 0..n : n - x \in 1..n /\ IsPin(s, n - x)}
<1>1. n - k \in T
  <2>1. n - k \in 0..n /\ n - (n - k) = k
    OBVIOUS
  <2> QED
    BY <2>1
<1>2. T \in SUBSET Nat /\ T # {}
  <2>1. T \in SUBSET Nat
    OBVIOUS
  <2> HIDE DEF T
  <2> QED
    BY <1>1, <2>1
<1>3. PICK x \in T : \A y \in T : x <= y
  <2> HIDE DEF T
  <2> QED
    BY <1>2, Smallest
<1>4. x \in 0..n /\ n - x \in 1..n /\ IsPin(s, n - x) /\ x <= n - k
  BY <1>1, <1>3
<1>5. ASSUME NEW j \in (n - x) + 1..n, IsPin(s, j) PROVE FALSE
  <2>1. n - j \in 0..n /\ n - (n - j) = j /\ j \in 1..n /\ n - j < x
    BY <1>4
  <2>2. n - j \in T
    BY <1>5, <2>1
  <2>3. x <= n - j
    BY <1>3, <2>2
  <2> QED
    BY <1>4, <2>1, <2>3
<1>6. LastIs(s, n, n - x) /\ k <= n - x
  BY <1>4, <1>5 DEF LastIs
<1> QED
  BY <1>6

\* The first pin after line i.
LEMMA NextPinExists ==
  ASSUME NEW s, Len(s) \in Nat, NEW i \in 1..Len(s),
         NEW k \in i+1..Len(s), IsPin(s, k)
  PROVE  \E j \in i+1..Len(s) : IsPin(s, j) /\ \A m \in i+1..j-1 : ~IsPin(s, m)
<1> DEFINE T == {j \in i+1..Len(s) : IsPin(s, j)}
<1>1. T \in SUBSET Nat /\ T # {}
  OBVIOUS
<1>2. PICK j \in T : \A y \in T : j <= y
  <2> HIDE DEF T
  <2> QED
    BY <1>1, Smallest
<1>3. j \in i+1..Len(s) /\ IsPin(s, j)
  OBVIOUS
<1>4. ASSUME NEW m \in i+1..j-1, IsPin(s, m) PROVE FALSE
  <2>1. m \in T /\ m < j
    BY <1>3, <1>4
  <2> QED
    BY <1>2, <1>3, <2>1
<1> QED
  BY <1>3, <1>4

\* What the next pin is linked to: the last pin, or the witness's genesis.
LEMMA TailDigestIs ==
  ASSUME NEW s, NEW n \in Nat
  PROVE  \/ TailDigest(s, n) = WitnessGenesis /\ \A i \in 1..n : ~IsPin(s, i)
         \/ \E i : LastIs(s, n, i) /\ TailDigest(s, n) = Digest(s[i][1])
<1>1. CASE \E i \in 1..n : IsPin(s, i)
  BY <1>1, LastPinExists, LastPinIs
<1>2. CASE ~ \E i \in 1..n : IsPin(s, i)
  BY <1>2 DEF TailDigest
<1> QED
  BY <1>1, <1>2

\* It depends on the lines before it only.
LEMMA TailDigestIsLocal ==
  ASSUME NEW s, NEW g, NEW n \in Nat, \A k \in 1..n : s[k] = g[k]
  PROVE  TailDigest(s, n) = TailDigest(g, n)
<1>1. \A k \in 1..n : IsPin(s, k) <=> IsPin(g, k)
  BY DEF IsPin
<1>2. CASE TailDigest(s, n) = WitnessGenesis /\ \A i \in 1..n : ~IsPin(s, i)
  BY <1>1, <1>2 DEF TailDigest
<1>3. ASSUME NEW i, LastIs(s, n, i), TailDigest(s, n) = Digest(s[i][1])
      PROVE  TailDigest(s, n) = TailDigest(g, n)
  <2>1. LastIs(g, n, i) /\ s[i] = g[i]
    BY <1>1, <1>3 DEF LastIs
  <2> QED
    BY <1>3, <2>1, LastPinIs
<1> QED
  BY <1>2, <1>3, TailDigestIs

\* Blank and scrapped lines do not change it.
LEMMA TailDigestSkips ==
  ASSUME NEW s, NEW n \in Nat \ {0}, ~IsPin(s, n)
  PROVE  TailDigest(s, n) = TailDigest(s, n - 1)
<1>1. n - 1 \in Nat
  OBVIOUS
<1>2. CASE TailDigest(s, n-1) = WitnessGenesis /\ \A i \in 1..n-1 : ~IsPin(s, i)
  <2>1. \A i \in 1..n : ~IsPin(s, i)
    BY <1>2
  <2> QED
    BY <1>2, <2>1 DEF TailDigest
<1>3. ASSUME NEW i, LastIs(s, n-1, i), TailDigest(s, n-1) = Digest(s[i][1])
      PROVE  TailDigest(s, n) = TailDigest(s, n-1)
  <2>1. LastIs(s, n, i)
    BY <1>3 DEF LastIs
  <2> QED
    BY <1>3, <2>1, LastPinIs
<1> QED
  BY <1>1, <1>2, <1>3, TailDigestIs

(***************************************************************************)
(* What an edit and a removal leave of the pin file.                       *)
(***************************************************************************)
EditedTo(s, g, i) ==
  /\ Len(g) = Len(s)
  /\ \A j \in 1..Len(s) :
       /\ j # i => g[j] = s[j]
       /\ IsPin(g, j) <=> IsPin(s, j)
       /\ Kind(s[j]) = "scrap" <=> Kind(g[j]) = "scrap"
       /\ IsPin(s, j) => /\ g[j][1].stamp = s[j][1].stamp
                         /\ g[j][1].prev = s[j][1].prev
                         /\ g[j][1].self = s[j][1].self
  /\ g[i][1].edited

Edits(s, i, rows, chain) ==
  [s EXCEPT ![i] = <<[s[i][1] EXCEPT !.rows = rows, !.chain = chain, !.edited = TRUE]>>]

\* An edit changes the height and chain value of one pin, and marks it.
LEMMA EditIs ==
  ASSUME NEW s \in PinFiles, NEW i \in 1..Len(s), IsPin(s, i),
         NEW rows \in Nat, NEW chain \in Seq(Content), NEW g, g = Edits(s, i, rows, chain)
  PROVE  g \in PinFiles /\ EditedTo(s, g, i)
<1>1. s[i][1] \in Pins /\ Kind(s[i]) = "pin"
  BY PinLine DEF IsPin
<1>2. PICK x : x = s[i][1]
  OBVIOUS
<1>3. PICK now : now = [x EXCEPT !.rows = rows, !.chain = chain, !.edited = TRUE]
  OBVIOUS
<1>4. /\ now \in Pins /\ now.stamp = x.stamp /\ now.prev = x.prev /\ now.self = x.self
      /\ now.edited = TRUE
  BY <1>1, <1>2, <1>3 DEF Pins
<1>5. PICK t : t = <<now>>
  OBVIOUS
<1>6. t \in Seq(Pins \cup {Scrap})
  BY <1>4, <1>5
<1>7. g = [s EXCEPT ![i] = t]
  BY <1>2, <1>3, <1>5 DEF Edits
<1>8. /\ g \in PinFiles /\ Len(g) = Len(s) /\ g[i] = t
      /\ \A j \in 1..Len(s) : j # i => g[j] = s[j]
  BY <1>6, <1>7 DEF PinFiles
<1>9. IsPin(g, i) /\ g[i][1] = now /\ Kind(g[i]) = "pin"
  BY <1>4, <1>5, <1>8, OnePin DEF IsPin
<1>10. ASSUME NEW j \in 1..Len(s)
       PROVE  /\ j # i => g[j] = s[j]
              /\ IsPin(g, j) <=> IsPin(s, j)
              /\ Kind(s[j]) = "scrap" <=> Kind(g[j]) = "scrap"
              /\ IsPin(s, j) => /\ g[j][1].stamp = s[j][1].stamp
                                /\ g[j][1].prev = s[j][1].prev
                                /\ g[j][1].self = s[j][1].self
  <2>1. CASE j = i
    BY <1>1, <1>2, <1>4, <1>9, <2>1
  <2>2. CASE j # i
    BY <1>8, <2>2 DEF IsPin
  <2> QED
    BY <2>1, <2>2
<1> QED
  BY <1>4, <1>8, <1>9, <1>10 DEF EditedTo

\* Line j of the new file was line Lift(i, j).
Lift(i, j) == IF j < i THEN j ELSE j + 1
Without(s, i) == [j \in 1..Len(s)-1 |-> s[IF j < i THEN j ELSE j+1]]

DroppedFrom(s, g, i) ==
  /\ Len(g) = Len(s) - 1
  /\ \A j \in 1..Len(g) : Lift(i, j) \in 1..Len(s) /\ Lift(i, j) # i /\ g[j] = s[Lift(i, j)]
  /\ \A k \in 1..Len(s) : k # i => \E j \in 1..Len(g) : Lift(i, j) = k /\ g[j] = s[k]

\* A drop takes one line out and moves up those after it.
LEMMA DropIs ==
  ASSUME NEW s \in PinFiles, NEW i \in 1..Len(s), NEW g, g = Without(s, i)
  PROVE  g \in PinFiles /\ DroppedFrom(s, g, i)
<1>1. Len(s) \in Nat /\ Len(s) - 1 \in Nat /\ s \in Seq(Seq(Pins \cup {Scrap}))
  BY DEF PinFiles
<1>2. PICK n : n = Len(s) - 1
  OBVIOUS
<1>3. ASSUME NEW j \in 1..n PROVE Lift(i, j) \in 1..Len(s) /\ Lift(i, j) # i
  BY <1>1, <1>2 DEF Lift
<1>4. g = [j \in 1..n |-> s[Lift(i, j)]]
  BY <1>2 DEF Without, Lift
<1>5. ASSUME NEW j \in 1..n PROVE g[j] = s[Lift(i, j)] /\ g[j] \in Seq(Pins \cup {Scrap})
  BY <1>1, <1>3, <1>4
<1>6. g \in PinFiles /\ Len(g) = n
  <2>1. g \in [1..n -> Seq(Pins \cup {Scrap})]
    BY <1>4, <1>5
  <2>2. n \in Nat
    BY <1>1, <1>2
  <2> QED
    BY <2>1, <2>2 DEF PinFiles
<1>7. ASSUME NEW k \in 1..Len(s), k # i
      PROVE  \E j \in 1..n : Lift(i, j) = k /\ g[j] = s[k]
  <2>1. CASE k < i
    <3>1. k \in 1..n /\ Lift(i, k) = k
      BY <1>1, <1>2, <2>1 DEF Lift
    <3> QED
      BY <1>5, <3>1
  <2>2. CASE k > i
    <3>1. k - 1 \in 1..n /\ Lift(i, k - 1) = k
      BY <1>1, <1>2, <2>2 DEF Lift
    <3> QED
      BY <1>5, <3>1
  <2> QED
    BY <1>1, <1>7, <2>1, <2>2
<1> QED
  BY <1>2, <1>3, <1>5, <1>6, <1>7 DEF DroppedFrom

\* Moving up keeps the order of the lines.
LEMMA LiftGrows ==
  ASSUME NEW i \in Nat, NEW j \in Nat, NEW k \in Nat
  PROVE  (j < k <=> Lift(i, j) < Lift(i, k)) /\ Lift(i, j) \in Nat
BY DEF Lift

(***************************************************************************)
(* What tells a tampered store: the pins' stamps grow, and each pin names  *)
(* the one before it, so that a pin that is gone leaves the next one loose.*)
(***************************************************************************)
Ordered(s) == \A i, j \in 1..Len(s) :
                i < j /\ IsPin(s, i) /\ IsPin(s, j) => s[i][1].stamp < s[j][1].stamp
LinkedTo(s, i, x) == /\ x.prev # NoDigest /\ x.prev.stamp < x.stamp
                     /\ \A j \in 1..i-1 : IsPin(s, j) => s[j][1].stamp <= x.prev.stamp
Linking(s) == \A i \in 1..Len(s) : IsPin(s, i) =>
                IF s[i][1].stamp = 0 THEN s[i][1].prev = NoDigest ELSE LinkedTo(s, i, s[i][1])
Sound(s) == Ordered(s) /\ Linking(s)

Loose(s, x) == /\ x.prev.stamp > 0
               /\ \A i \in 1..Len(s) : IsPin(s, i) => s[i][1].stamp # x.prev.stamp
Gap(s) == \E i \in 1..Len(s) : IsPin(s, i) /\ Loose(s, s[i][1])

\* A pin record returned is stored, or the store shows that it is not.
Stored(s, y) == \E i \in 1..Len(s) : /\ IsPin(s, i) /\ s[i][1].stamp = y.stamp
                                     /\ s[i][1].self = Digest(y)
Holds(s, y) == Stored(s, y) \/ Gap(s) \/ Scrapped(s)

\* Stamps are seconds, and no pin's digest is the empty one.
LEMMA PinNumbers ==
  ASSUME NEW x \in Pins
  PROVE  /\ x.stamp \in Nat /\ x.prev.stamp \in Nat /\ x.rows \in Nat
         /\ Digest(x).stamp = x.stamp /\ Digest(x) # NoDigest /\ WitnessGenesis # NoDigest
         /\ NoDigest.stamp = 0 /\ WitnessGenesis.stamp = 0
<1>1. Digest(x).rows \in Nat /\ NoDigest.rows = -2 /\ WitnessGenesis.rows = -1
  BY DEF Pins, Digest, NoDigest, WitnessGenesis
<1>2. Digest(x) # NoDigest /\ WitnessGenesis # NoDigest
  BY <1>1
<1> QED
  BY <1>2 DEF Pins, Digests, Digest, NoDigest, WitnessGenesis

\* A pin that is loose is later than the one it names.
LEMMA LooseIsStamped ==
  ASSUME NEW s \in PinFiles, Sound(s), NEW i \in 1..Len(s), IsPin(s, i), Loose(s, s[i][1])
  PROVE  s[i][1].prev.stamp < s[i][1].stamp /\ s[i][1].stamp > 0 /\ s[i][1].stamp \in Nat
<1>1. s[i][1] \in Pins
  BY PinLine
<1>2. s[i][1].stamp # 0
  <2>1. NoDigest.stamp = 0 /\ s[i][1].prev.stamp \in Nat
    BY <1>1, PinNumbers
  <2> QED
    BY <2>1 DEF Loose, Sound, Linking
<1> QED
  BY <1>1, <1>2, PinNumbers DEF Sound, Linking, LinkedTo

\* A new pin is linked to all pins before it.
LEMMA NewIsLinked ==
  ASSUME NEW s \in PinFiles, Sound(s), NEW x \in Pins, x.prev = TailDigest(s, Len(s)),
         x.stamp > 0, \A i \in 1..Len(s) : IsPin(s, i) => s[i][1].stamp < x.stamp
  PROVE  /\ x.prev # NoDigest /\ x.prev.stamp < x.stamp
         /\ \A j \in 1..Len(s) : IsPin(s, j) => s[j][1].stamp <= x.prev.stamp
<1>0. Len(s) \in Nat
  BY DEF PinFiles
<1>1. CASE x.prev = WitnessGenesis /\ \A i \in 1..Len(s) : ~IsPin(s, i)
  BY <1>1, PinNumbers
<1>2. ASSUME NEW i, LastIs(s, Len(s), i), x.prev = Digest(s[i][1])
      PROVE  /\ x.prev # NoDigest /\ x.prev.stamp < x.stamp
             /\ \A j \in 1..Len(s) : IsPin(s, j) => s[j][1].stamp <= x.prev.stamp
  <2>1. i \in 1..Len(s) /\ IsPin(s, i)
    BY <1>2 DEF LastIs
  <2>2. s[i][1] \in Pins
    BY <2>1, PinLine
  <2>3. x.prev # NoDigest /\ x.prev.stamp = s[i][1].stamp /\ s[i][1].stamp \in Nat
    BY <1>2, <2>2, PinNumbers
  <2>4. ASSUME NEW j \in 1..Len(s), IsPin(s, j) PROVE s[j][1].stamp <= x.prev.stamp
    <3>1. j <= i
      BY <1>0, <1>2, <2>1, <2>4 DEF LastIs
    <3>2. CASE j = i
      BY <2>3, <3>2
    <3>3. CASE j < i
      <4>1. s[j][1].stamp < s[i][1].stamp
        BY <2>1, <2>4, <3>3 DEF Sound, Ordered
      <4>2. s[j][1].stamp \in Nat
        BY <2>4, PinLine, PinNumbers
      <4> QED
        BY <2>3, <4>1, <4>2
    <3> QED
      BY <2>1, <3>1, <3>2, <3>3
  <2> QED
    BY <2>1, <2>3, <2>4
<1> QED
  BY <1>0, <1>1, <1>2, TailDigestIs

\* A write by record keeps the store sound, and what it held.
LEMMA LandingKeeps ==
  ASSUME NEW s \in PinFiles, Sound(s), NEW x \in Pins, x.prev = TailDigest(s, Len(s)),
         x.stamp > 0, \A i \in 1..Len(s) : IsPin(s, i) => s[i][1].stamp < x.stamp,
         NEW g \in PinFiles, Landed(s, g, x)
  PROVE  Sound(g) /\ \A y : Holds(s, y) => Holds(g, y)
<1>0. Len(s) \in Nat /\ Len(g) \in Nat /\ x.stamp \in Nat /\ x.prev.stamp \in Nat
  BY PinNumbers DEF PinFiles
<1>1. /\ x.prev # NoDigest /\ x.prev.stamp < x.stamp
      /\ \A j \in 1..Len(s) : IsPin(s, j) => s[j][1].stamp <= x.prev.stamp
  BY NewIsLinked
<1>2. ASSUME NEW i \in 1..Len(g), IsPin(g, i)
      PROVE  \/ i \in 1..Len(s) /\ g[i] = s[i] /\ IsPin(s, i)
             \/ g[i][1] = x /\ i = Len(Opened(s)) /\ \A j \in 1..Len(s) : IsPin(s, j) => j < i
  <2>1. CASE Kept(s, g, i)
    BY <1>2, <2>1 DEF Kept, IsPin
  <2>2. CASE g[i] = <<x>> /\ i = Len(Opened(s)) /\ \A j \in 1..Len(s) : IsPin(s, j) => j < i
    <3>1. g[i][1] = x
      BY <2>2, OnePin
    <3> QED
      BY <2>2, <3>1
  <2> QED
    BY <1>2, <2>1, <2>2 DEF Landed
<1>3. ASSUME NEW i \in 1..Len(s), IsPin(s, i)
      PROVE  (i \in 1..Len(g) /\ IsPin(g, i) /\ g[i] = s[i]) \/ Scrapped(g)
  BY <1>3 DEF Landed, Kept, IsPin
<1>4. Ordered(g)
  <2> SUFFICES ASSUME NEW i \in 1..Len(g), NEW j \in 1..Len(g),
                      i < j, IsPin(g, i), IsPin(g, j)
               PROVE  g[i][1].stamp < g[j][1].stamp
    BY DEF Ordered
  <2>1. CASE i \in 1..Len(s) /\ g[i] = s[i] /\ IsPin(s, i)
    <3>1. CASE j \in 1..Len(s) /\ g[j] = s[j] /\ IsPin(s, j)
      BY <2>1, <3>1 DEF Sound, Ordered
    <3>2. CASE g[j][1] = x
      BY <2>1, <3>2
    <3> QED
      BY <1>2, <3>1, <3>2
  <2>2. CASE g[i][1] = x /\ i = Len(Opened(s)) /\ \A k \in 1..Len(s) : IsPin(s, k) => k < i
    <3>1. j \notin 1..Len(s) \/ ~IsPin(s, j)
      BY <2>2
    <3>2. j = Len(Opened(s))
      BY <1>2, <3>1
    <3> QED
      BY <2>2, <3>2
  <2> QED
    BY <1>2, <2>1, <2>2
<1>5. Linking(g)
  <2> SUFFICES ASSUME NEW i \in 1..Len(g), IsPin(g, i)
               PROVE  IF g[i][1].stamp = 0 THEN g[i][1].prev = NoDigest
                      ELSE LinkedTo(g, i, g[i][1])
    BY DEF Linking
  <2>1. CASE i \in 1..Len(s) /\ g[i] = s[i] /\ IsPin(s, i)
    <3>1. IF s[i][1].stamp = 0 THEN s[i][1].prev = NoDigest ELSE LinkedTo(s, i, s[i][1])
      BY <2>1 DEF Sound, Linking
    <3>2. ASSUME LinkedTo(s, i, s[i][1]) PROVE LinkedTo(g, i, s[i][1])
      <4> SUFFICES ASSUME NEW j \in 1..i-1, IsPin(g, j)
                   PROVE  g[j][1].stamp <= s[i][1].prev.stamp
        BY <3>2 DEF LinkedTo
      <4>1. j \in 1..Len(g)
        BY <1>0
      <4>2. j \in 1..Len(s) /\ g[j] = s[j] /\ IsPin(s, j)
        <5>1. ~(\A k \in 1..Len(s) : IsPin(s, k) => k < j)
          BY <1>0, <2>1
        <5> QED
          BY <1>2, <4>1, <5>1
      <4> QED
        BY <3>2, <4>2 DEF LinkedTo
    <3> QED
      BY <2>1, <3>1, <3>2
  <2>2. CASE g[i][1] = x /\ i = Len(Opened(s)) /\ \A k \in 1..Len(s) : IsPin(s, k) => k < i
    <3>1. x.stamp # 0
      BY <1>0
    <3>2. ASSUME NEW j \in 1..i-1, IsPin(g, j) PROVE g[j][1].stamp <= x.prev.stamp
      <4>1. j \in 1..Len(g) /\ j # i
        BY <1>0
      <4>2. j \in 1..Len(s) /\ g[j] = s[j] /\ IsPin(s, j)
        BY <1>2, <2>2, <3>2, <4>1
      <4> QED
        BY <1>1, <4>2
    <3>3. LinkedTo(g, i, x)
      BY <1>1, <3>2 DEF LinkedTo
    <3> QED
      BY <2>2, <3>1, <3>3
  <2> QED
    BY <1>2, <2>1, <2>2
<1>6. ASSUME NEW y, Holds(s, y) PROVE Holds(g, y)
  <2>1. CASE Stored(s, y)
    <3>1. PICK i \in 1..Len(s) : IsPin(s, i) /\ s[i][1].stamp = y.stamp /\ s[i][1].self = Digest(y)
      BY <2>1 DEF Stored
    <3> QED
      BY <1>3, <3>1 DEF Holds, Stored
  <2>2. CASE Gap(s)
    <3>1. PICK i \in 1..Len(s) : IsPin(s, i) /\ Loose(s, s[i][1])
      BY <2>2 DEF Gap
    <3>2. s[i][1].prev.stamp < s[i][1].stamp /\ s[i][1].stamp < x.stamp /\ s[i][1].stamp \in Nat
      BY <3>1, LooseIsStamped
    <3>3. CASE i \in 1..Len(g) /\ IsPin(g, i) /\ g[i] = s[i]
      <4>1. ASSUME NEW k \in 1..Len(g), IsPin(g, k)
            PROVE  g[k][1].stamp # s[i][1].prev.stamp
        <5>1. CASE k \in 1..Len(s) /\ g[k] = s[k] /\ IsPin(s, k)
          BY <3>1, <5>1 DEF Loose
        <5>2. CASE g[k][1] = x
          <6>1. s[i][1].prev.stamp \in Nat
            BY <3>1, PinLine, PinNumbers
          <6> QED
            BY <1>0, <3>2, <5>2, <6>1
        <5> QED
          BY <1>2, <4>1, <5>1, <5>2
      <4>2. Loose(g, g[i][1])
        BY <3>1, <3>3, <4>1 DEF Loose
      <4> QED
        BY <3>3, <4>2 DEF Holds, Gap
    <3> QED
      BY <1>3, <3>1, <3>3 DEF Holds
  <2>3. CASE Scrapped(s)
    BY <2>3 DEF Holds, Landed
  <2> QED
    BY <1>6, <2>1, <2>2, <2>3 DEF Holds
<1> QED
  BY <1>4, <1>5, <1>6 DEF Sound

\* So does an edit: stamps, links and digests are not touched.
LEMMA EditKeeps ==
  ASSUME NEW s \in PinFiles, Sound(s), NEW i \in 1..Len(s), NEW g \in PinFiles, EditedTo(s, g, i)
  PROVE  Sound(g) /\ \A y : Holds(s, y) => Holds(g, y)
<1>1. /\ Len(g) = Len(s)
      /\ \A j \in 1..Len(s) :
           /\ IsPin(g, j) <=> IsPin(s, j)
           /\ Kind(s[j]) = "scrap" <=> Kind(g[j]) = "scrap"
           /\ IsPin(s, j) => /\ g[j][1].stamp = s[j][1].stamp
                             /\ g[j][1].prev = s[j][1].prev
                             /\ g[j][1].self = s[j][1].self
  BY DEF EditedTo
<1>2. Ordered(g)
  BY <1>1 DEF Sound, Ordered
<1>3. Linking(g)
  <2> SUFFICES ASSUME NEW k \in 1..Len(g), IsPin(g, k)
               PROVE  IF g[k][1].stamp = 0 THEN g[k][1].prev = NoDigest
                      ELSE LinkedTo(g, k, g[k][1])
    BY DEF Linking
  <2>1. \A j \in 1..k-1 : j \in 1..Len(s)
    BY <1>1 DEF PinFiles
  <2>2. IF s[k][1].stamp = 0 THEN s[k][1].prev = NoDigest ELSE LinkedTo(s, k, s[k][1])
    BY <1>1 DEF Sound, Linking
  <2> QED
    BY <1>1, <2>1, <2>2 DEF LinkedTo
<1>4. ASSUME NEW y, Holds(s, y) PROVE Holds(g, y)
  <2>1. Stored(s, y) => Stored(g, y)
    BY <1>1 DEF Stored
  <2>2. Gap(s) => Gap(g)
    BY <1>1 DEF Gap, Loose
  <2>3. Scrapped(s) => Scrapped(g)
    BY <1>1 DEF Scrapped
  <2> QED
    BY <1>4, <2>1, <2>2, <2>3 DEF Holds
<1> QED
  BY <1>2, <1>3, <1>4 DEF Sound

\* A pin that is dropped while a pin follows it leaves that one loose, unless it
\* is one from before the pins were chained.
LEMMA DropKeeps ==
  ASSUME NEW s \in PinFiles, Sound(s), NEW i \in 1..Len(s), IsPin(s, i),
         NEW k \in i+1..Len(s), IsPin(s, k), NEW g \in PinFiles, DroppedFrom(s, g, i)
  PROVE  Sound(g) /\ \A y : y.stamp > 0 /\ Holds(s, y) => Holds(g, y)
<1>0. Len(s) \in Nat /\ Len(g) \in Nat /\ i \in Nat
  BY DEF PinFiles
<1>1. ASSUME NEW j \in 1..Len(g)
      PROVE  /\ Lift(i, j) \in 1..Len(s) /\ Lift(i, j) # i /\ g[j] = s[Lift(i, j)]
             /\ IsPin(g, j) <=> IsPin(s, Lift(i, j))
  BY DEF DroppedFrom, IsPin
<1>2. ASSUME NEW m \in 1..Len(s), m # i
      PROVE  \E j \in 1..Len(g) : Lift(i, j) = m /\ g[j] = s[m] /\ (IsPin(g, j) <=> IsPin(s, m))
  BY <1>2 DEF DroppedFrom, IsPin
<1>3. ASSUME NEW j \in 1..Len(g), NEW m \in 1..Len(g)
      PROVE  j < m <=> Lift(i, j) < Lift(i, m)
  <2>1. j \in Nat /\ m \in Nat
    BY <1>0
  <2> QED
    BY <1>0, <2>1, LiftGrows
<1>4. Ordered(g)
  <2> SUFFICES ASSUME NEW j \in 1..Len(g), NEW m \in 1..Len(g),
                      j < m, IsPin(g, j), IsPin(g, m)
               PROVE  g[j][1].stamp < g[m][1].stamp
    BY DEF Ordered
  <2>1. Lift(i, j) < Lift(i, m)
    BY <1>3
  <2> QED
    BY <1>1, <2>1 DEF Sound, Ordered
<1>5. Linking(g)
  <2> SUFFICES ASSUME NEW j \in 1..Len(g), IsPin(g, j)
               PROVE  IF g[j][1].stamp = 0 THEN g[j][1].prev = NoDigest
                      ELSE LinkedTo(g, j, g[j][1])
    BY DEF Linking
  <2>1. PICK l \in 1..Len(s) : l = Lift(i, j) /\ g[j] = s[l] /\ IsPin(s, l)
    BY <1>1
  <2>2. IF s[l][1].stamp = 0 THEN s[l][1].prev = NoDigest ELSE LinkedTo(s, l, s[l][1])
    BY <2>1 DEF Sound, Linking
  <2>3. ASSUME NEW m \in 1..j-1, IsPin(g, m)
        PROVE  \E n \in 1..l-1 : g[m] = s[n] /\ IsPin(s, n)
    <3>1. m \in 1..Len(g) /\ m < j
      BY <1>0
    <3>2. Lift(i, m) \in 1..l-1
      BY <1>0, <1>1, <1>3, <2>1, <3>1
    <3> QED
      BY <1>1, <2>3, <3>1, <3>2
  <2>4. ASSUME LinkedTo(s, l, s[l][1]) PROVE LinkedTo(g, j, s[l][1])
    BY <2>3, <2>4 DEF LinkedTo
  <2> QED
    BY <2>1, <2>2, <2>4
<1>6. ASSUME s[i][1].stamp > 0 PROVE Gap(g)
  <2>1. PICK j \in i+1..Len(s) : IsPin(s, j) /\ \A m \in i+1..j-1 : ~IsPin(s, m)
    BY <1>0, NextPinExists
  <2>2. j \in 1..Len(s) /\ j # i /\ i \in 1..j-1
    BY <1>0, <2>1
  <2>3. s[j][1] \in Pins /\ s[i][1] \in Pins
    BY <2>1, <2>2, PinLine
  <2>4. /\ s[i][1].stamp \in Nat /\ s[j][1].stamp \in Nat /\ s[j][1].prev.stamp \in Nat
    BY <2>3, PinNumbers
  <2>5. s[i][1].stamp < s[j][1].stamp
    BY <2>1, <2>2 DEF Sound, Ordered
  <2>6. LinkedTo(s, j, s[j][1])
    BY <1>6, <2>1, <2>2, <2>4, <2>5 DEF Sound, Linking
  <2>7. s[i][1].stamp <= s[j][1].prev.stamp /\ s[j][1].prev.stamp < s[j][1].stamp
    BY <2>2, <2>6 DEF LinkedTo
  <2>8. ASSUME NEW m \in 1..Len(s), IsPin(s, m), m # i
        PROVE  s[m][1].stamp # s[j][1].prev.stamp
    <3>0. s[m][1].stamp \in Nat
      BY <2>8, PinLine, PinNumbers
    <3>1. CASE m < i
      <4>1. s[m][1].stamp < s[i][1].stamp
        BY <2>8, <3>1 DEF Sound, Ordered
      <4> QED
        BY <2>4, <2>7, <3>0, <4>1
    <3>2. CASE m > i
      <4>1. ~(m < j)
        BY <1>0, <2>1, <2>2, <2>8, <3>2
      <4>2. m = j \/ s[j][1].stamp < s[m][1].stamp
        BY <1>0, <2>1, <2>2, <2>8, <4>1 DEF Sound, Ordered
      <4> QED
        BY <2>4, <2>7, <3>0, <4>2
    <3> QED
      BY <1>0, <2>8, <3>1, <3>2
  <2>9. PICK l \in 1..Len(g) : g[l] = s[j] /\ IsPin(g, l)
    BY <1>2, <2>1, <2>2
  <2>10. Loose(g, g[l][1])
    <3>1. ASSUME NEW m \in 1..Len(g), IsPin(g, m) PROVE g[m][1].stamp # s[j][1].prev.stamp
      <4>1. PICK n \in 1..Len(s) : n = Lift(i, m)
        BY <1>1
      <4> QED
        BY <1>1, <2>8, <3>1, <4>1
    <3>2. s[j][1].prev.stamp > 0
      BY <1>6, <2>4, <2>7
    <3> QED
      BY <2>9, <3>1, <3>2 DEF Loose
  <2> QED
    BY <2>9, <2>10 DEF Gap
<1>7. ASSUME NEW y, y.stamp > 0, Holds(s, y), ~(s[i][1].stamp > 0) PROVE Holds(g, y)
  <2>1. CASE Stored(s, y)
    <3>1. PICK m \in 1..Len(s) : IsPin(s, m) /\ s[m][1].stamp = y.stamp /\ s[m][1].self = Digest(y)
      BY <2>1 DEF Stored
    <3>2. m # i
      BY <1>7, <3>1
    <3>3. PICK j \in 1..Len(g) : g[j] = s[m] /\ IsPin(g, j)
      BY <1>2, <3>1, <3>2
    <3> QED
      BY <3>1, <3>3 DEF Holds, Stored
  <2>2. CASE Gap(s)
    <3>1. PICK m \in 1..Len(s) : IsPin(s, m) /\ Loose(s, s[m][1])
      BY <2>2 DEF Gap
    <3>2. m # i
      BY <1>7, <3>1, LooseIsStamped
    <3>3. PICK j \in 1..Len(g) : g[j] = s[m] /\ IsPin(g, j)
      BY <1>2, <3>1, <3>2
    <3>4. ASSUME NEW n \in 1..Len(g), IsPin(g, n) PROVE g[n][1].stamp # g[j][1].prev.stamp
      BY <1>1, <3>1, <3>3, <3>4 DEF Loose
    <3>5. Loose(g, g[j][1])
      BY <3>1, <3>3, <3>4 DEF Loose
    <3> QED
      BY <3>3, <3>5 DEF Holds, Gap
  <2>3. CASE Scrapped(s)
    <3>1. PICK m \in 1..Len(s) : Kind(s[m]) = "scrap"
      BY <2>3 DEF Scrapped
    <3>2. m # i
      BY <3>1 DEF IsPin
    <3>3. PICK j \in 1..Len(g) : g[j] = s[m]
      BY <1>2, <3>2
    <3> QED
      BY <3>1, <3>3 DEF Holds, Scrapped
  <2> QED
    BY <1>7, <2>1, <2>2, <2>3 DEF Holds
<1> QED
  BY <1>4, <1>5, <1>6, <1>7 DEF Sound, Holds

(***************************************************************************)
(* Types, and what a publisher has read.                                   *)
(***************************************************************************)
LogFiles == Seq(Seq(LogPieces))
Oks == {"True", "None", "False"}
Verdicts == {"none", "no_record", "local_broken", "witness_broken",
             "truncated", "rewritten", "consistent"}
PubStates == [at : {"idle", "tip", "guard", "link", "write"}, rows : Nat, ok : Oks,
              chain : Seq(Content), stamp : Nat, prev : Digests, taken : LogFiles]
AuditStates == [at : {"idle", "local", "latest", "head", "history", "compare"}, latest : Pins,
                rows : Nat, pins : PinFiles, due : Nat, verdict : Verdicts]

Taken(q) == q.at \in {"guard", "link", "write"}
Sane(q, f, n) == /\ q.at # "idle" => n > 0
                 /\ q.at = "tip" => q.rows <= RowCount(f)
                 /\ Taken(q) => /\ Good(q.taken) /\ RowCount(q.taken) > 0 /\ q.rows > 0
                                /\ q.chain = LastChain(q.taken)

Typed == /\ Good(file) /\ pins \in PinFiles
         /\ pub \in [Publishers -> PubStates] /\ audit \in AuditStates
         /\ damage \in Nat /\ crashes \in Nat /\ publishes \in 0..MaxPublishes
         /\ returned \in Seq([pin : Pins, taken : LogFiles])
         /\ \A p \in Publishers : Sane(pub[p], file, publishes)

\* verify's three answers.
LEMMA OkIsKnown == ASSUME NEW f PROVE HeadOk(f) \in Oks
BY DEF HeadOk, Ok, Oks

\* A count of pins that is not 0 has a last pin.
LEMMA PinsCounted ==
  ASSUME NEW s \in PinFiles
  PROVE  /\ PinCount(s) \in Nat /\ (PinCount(s) = 0 <=> \A i \in 1..Len(s) : ~IsPin(s, i))
         /\ PinCount(s) # 0 => LastPin(s, Len(s)) \in 1..Len(s) /\ IsPin(s, LastPin(s, Len(s)))
<1>0. Len(s) \in Nat
  BY DEF PinFiles
<1>1. PinCount(s) \in Nat /\ (PinCount(s) = 0 <=> \A i \in 1..Len(s) : ~IsPin(s, i))
  <2> DEFINE S == {i \in 1..Len(s) : IsPin(s, i)}
  <2>1. Cardinality(S) \in Nat /\ (Cardinality(S) = 0 <=> S = {})
    <3>1. S \in SUBSET (1..Len(s))
      OBVIOUS
    <3> HIDE DEF S
    <3> QED
      BY <1>0, <3>1, Counted
  <2>2. PinCount(s) = Cardinality(S)
    BY DEF PinCount, Lines
  <2>3. S = {} <=> \A i \in 1..Len(s) : ~IsPin(s, i)
    OBVIOUS
  <2> HIDE DEF S
  <2> QED
    BY <2>1, <2>2, <2>3
<1>2. ASSUME PinCount(s) # 0
      PROVE  LastPin(s, Len(s)) \in 1..Len(s) /\ IsPin(s, LastPin(s, Len(s)))
  <2>1. PICK k \in 1..Len(s) : IsPin(s, k)
    BY <1>1, <1>2
  <2>2. PICK i : LastIs(s, Len(s), i)
    BY <1>0, <2>1, LastPinExists
  <2>3. LastPin(s, Len(s)) = i
    BY <1>0, <2>2, LastPinIs
  <2> QED
    BY <2>2, <2>3 DEF LastIs
<1> QED
  BY <1>1, <1>2

\* The library's append to such a log.
LEMMA AppendGrows ==
  ASSUME NEW f, Good(f), NEW b
  PROVE  Put(f, ~EndsInNewline(f), <<Row(b, LastChain(f))>>, TRUE) = Grown(f, b)
<1>1. EndsInNewline(f)
  BY DEF Good, Closed, EndsInNewline
<1> QED
  BY <1>1 DEF Grown

CompareWords == {"no_record", "truncated", "neither", "rewritten", "consistent"}

\* _compare accuses unless the log has the pin's chain value at its height.
LEMMA CompareIs ==
  ASSUME audit.rows \in Nat, NEW x \in Pins
  PROVE  /\ Compare(x) \in CompareWords
         /\ (x.rows > 0 /\ x.chain # Genesis /\ Compare(x) \notin Accusations) =>
              ChainAt(file, x.rows) = x.chain /\ ChainAt(file, x.rows) # NoChain
         /\ (x.rows \in 1..audit.rows /\ ChainAt(file, x.rows) = x.chain
               /\ ChainAt(file, x.rows) # NoChain) => Compare(x) = "consistent"
<1>1. x.rows \in Nat
  BY PinNumbers
<1>2. CASE x.rows = 0
  <2>1. Compare(x) = "no_record"
    BY <1>2 DEF Compare
  <2> QED
    BY <1>2, <2>1 DEF CompareWords
<1>3. CASE x.rows > audit.rows
  <2>1. Compare(x) = "truncated"
    BY <1>1, <1>3 DEF Compare
  <2> QED
    BY <1>1, <1>3, <2>1 DEF CompareWords, Accusations
<1>4. CASE x.rows \in 1..audit.rows
  <2>1. Compare(x) = IF ChainAt(file, x.rows) = NoChain
                     THEN IF x.chain = Genesis THEN "neither" ELSE "truncated"
                     ELSE IF ChainAt(file, x.rows) # x.chain THEN "rewritten" ELSE "consistent"
    BY <1>1, <1>4 DEF Compare
  <2> QED
    BY <1>1, <1>4, <2>1 DEF CompareWords, Accusations
<1> QED
  BY <1>1, <1>2, <1>3, <1>4

\* "consistent" clears every pin, and a log that all pins agree with gets it.
LEMMA VerdictIs ==
  ASSUME audit \in AuditStates
  PROVE  /\ Verdict \in Verdicts
         /\ Verdict = "consistent" =>
              \A i \in History(audit.pins) : Compare(audit.pins[i][1]) \notin Accusations
         /\ (Compare(audit.latest) = "consistent"
               /\ \A i \in History(audit.pins) : Compare(audit.pins[i][1]) \notin Accusations)
              => Verdict = "consistent"
<1> DEFINE last == Compare(audit.latest)
           Found == {i \in History(audit.pins) : Compare(audit.pins[i][1]) \in Accusations}
           first == CHOOSE i \in Found : \A j \in Found : i <= j
           agreed == \E i \in History(audit.pins) : Compare(audit.pins[i][1]) = "consistent"
<1>1. audit.rows \in Nat /\ audit.latest \in Pins /\ audit.pins \in PinFiles
  BY DEF AuditStates
<1>2. last \in CompareWords
  BY <1>1, CompareIs
<1>3. Verdict = IF last \in Accusations THEN last
                ELSE IF Found # {} THEN Compare(audit.pins[first][1])
                ELSE IF last # "neither" THEN last
                ELSE IF agreed THEN "consistent" ELSE "no_record"
  BY DEF Verdict
<1>4. ASSUME Found # {} PROVE Compare(audit.pins[first][1]) \in Accusations
  <2>1. Found \in SUBSET Nat
    <3>1. Len(audit.pins) \in Nat
      BY <1>1 DEF PinFiles
    <3> QED
      BY <3>1 DEF History
  <2>2. \E i \in Found : \A j \in Found : i <= j
    <3> HIDE DEF Found
    <3> QED
      BY <1>4, <2>1, Smallest
  <2>3. first \in Found
    <3> HIDE DEF Found
    <3> QED
      BY <2>2
  <2> QED
    BY <2>3
<1>5. Found = {} <=> \A i \in History(audit.pins) : Compare(audit.pins[i][1]) \notin Accusations
  OBVIOUS
<1> HIDE DEF last, Found, first, agreed
<1>6. Verdict \in Verdicts
  BY <1>2, <1>3, <1>4 DEF CompareWords, Verdicts, Accusations
<1>7. Verdict = "consistent" => Found = {}
  BY <1>3, <1>4 DEF Accusations
<1>8. last = "consistent" /\ Found = {} => Verdict = "consistent"
  BY <1>3 DEF Accusations
<1> QED
  BY <1>5, <1>6, <1>7, <1>8 DEF last

\* A publisher's step changes its own progress only.
LEMMA StepIs ==
  ASSUME pub \in [Publishers -> PubStates], NEW p \in Publishers, NEW q \in PubStates,
         pub' = [pub EXCEPT ![p] = q]
  PROVE  /\ pub' \in [Publishers -> PubStates] /\ pub'[p] = q
         /\ \A o \in Publishers : o # p => pub'[o] = pub[o]
OBVIOUS

\* The states between two calls.
LEMMA IdleIsTyped == IdlePublisher \in PubStates /\ IdleAudit \in AuditStates
<1>1. /\ WitnessGenesis \in Digests /\ NoDigest \in Digests /\ <<>> \in LogFiles
      /\ <<>> \in PinFiles /\ Genesis \in Seq(Content)
  BY DEF WitnessGenesis, NoDigest, Digests, Genesis, LogFiles, PinFiles
<1>2. IdlePublisher \in PubStates
  BY <1>1 DEF IdlePublisher, PubStates, Oks
<1>3. MakePin(0, Genesis, 0, NoDigest) \in Pins
  BY <1>1 DEF MakePin, Pins, Digests
<1> QED
  BY <1>1, <1>2, <1>3 DEF IdleAudit, AuditStates, Verdicts

\* What record builds is a pin.
LEMMA NewPinIsPin ==
  ASSUME Typed, NEW p \in Publishers
  PROVE  NewPin(p) \in Pins /\ pub[p].taken \in LogFiles
<1>1. pub[p] \in PubStates
  BY DEF Typed
<1> QED
  BY <1>1 DEF NewPin, MakePin, PubStates, Pins, Digests

\* The legacy pin of a first row.
LEMMA LegacyIsPin ==
  ASSUME NEW b \in Content
  PROVE  /\ LegacyPin(b) \in Pins /\ LegacyPin(b).rows = 1 /\ LegacyPin(b).chain = <<b>>
         /\ LegacyPin(b).stamp = 0 /\ LegacyPin(b).prev = NoDigest
<1>1. NoDigest \in Digests /\ <<b>> \in Seq(Content)
  BY DEF NoDigest, Digests, Genesis
<1> QED
  BY <1>1 DEF LegacyPin, MakePin, Pins, Digests

\* The first files: empty, or a first row with its legacy pin or without.
LEMMA FirstFiles ==
  ASSUME Init
  PROVE  /\ Good(file) /\ pins \in PinFiles
         /\ \/ pins = <<>>
            \/ \E b \in Content : pins = Written(<<>>, LegacyPin(b)) /\ file = Grown(<<>>, b)
<1>1. CASE file = <<>> /\ pins = <<>>
  BY <1>1, EmptyIsGood DEF PinFiles
<1>2. ASSUME NEW b \in Content, file = Put(<<>>, FALSE, <<Row(b, Genesis)>>, TRUE),
             pins = Put(<<>>, FALSE, <<LegacyPin(b)>>, TRUE)
      PROVE  Good(file) /\ pins \in PinFiles /\ pins = Written(<<>>, LegacyPin(b))
             /\ file = Grown(<<>>, b)
  <2>1. LastChain(<<>>) = Genesis
    BY DEF LastChain, TailChain, Genesis
  <2>2. file = Grown(<<>>, b)
    BY <1>2, <2>1 DEF Grown
  <2>3. pins = Written(<<>>, LegacyPin(b))
    BY <1>2 DEF Written, PutPieces
  <2>4. Good(file)
    BY <2>2, EmptyIsGood, GoodAppend
  <2>5. <<>> \in PinFiles
    BY DEF PinFiles
  <2>6. pins \in PinFiles
    BY <2>3, <2>5, LegacyIsPin, WriteLands
  <2> QED
    BY <2>2, <2>3, <2>4, <2>6
<1> QED
  BY <1>1, <1>2 DEF Init

\* The invariant of types, and of the log that the library wrote.
LEMMA TypedInit == Init => Typed
<1> SUFFICES ASSUME Init PROVE Typed
  OBVIOUS
<1>1. Good(file) /\ pins \in PinFiles
  BY FirstFiles
<1>2. /\ pub = [p \in Publishers |-> IdlePublisher] /\ audit = IdleAudit
      /\ damage = 0 /\ crashes = 0 /\ publishes = 0 /\ returned = <<>>
  BY DEF Init
<1>3. \A p \in Publishers : Sane(pub[p], file, publishes)
  BY <1>2 DEF Sane, Taken, IdlePublisher
<1>4. publishes \in 0..MaxPublishes
  BY <1>2, ClockAssumption
<1> QED
  BY <1>1, <1>2, <1>3, <1>4, IdleIsTyped DEF Typed

\* Each action keeps it.
LEMMA TypedStep == Typed /\ [Next]_vars => Typed'
<1> SUFFICES ASSUME Typed, [Next]_vars PROVE Typed'
  OBVIOUS
<1>0. /\ Good(file) /\ pins \in PinFiles
      /\ pub \in [Publishers -> PubStates] /\ audit \in AuditStates
      /\ damage \in Nat /\ crashes \in Nat /\ publishes \in 0..MaxPublishes
      /\ returned \in Seq([pin : Pins, taken : LogFiles])
      /\ \A p \in Publishers : Sane(pub[p], file, publishes)
      /\ MaxPublishes \in Nat
  BY ClockAssumption DEF Typed
<1>idle. ASSUME ~Publishing, NEW f, NEW n, NEW p \in Publishers
         PROVE  Sane(pub[p], f, n)
  BY <1>idle DEF Publishing, Sane, Taken
<1>pub. ASSUME NEW p \in Publishers, NEW q \in PubStates, Step(p, q),
               Sane(q, file, publishes'), publishes' \in publishes..MaxPublishes,
               pins' \in PinFiles, crashes' \in Nat,
               returned' \in Seq([pin : Pins, taken : LogFiles])
        PROVE  Typed'
  <2>1. file' = file /\ audit' = audit /\ damage' = damage /\ pub' = [pub EXCEPT ![p] = q]
    BY <1>pub DEF Step
  <2>2. /\ pub' \in [Publishers -> PubStates] /\ pub'[p] = q
        /\ \A o \in Publishers : o # p => pub'[o] = pub[o]
    BY <1>0, <2>1
  <2>3. publishes' \in 0..MaxPublishes /\ (publishes > 0 => publishes' > 0)
    BY <1>0, <1>pub
  <2>4. ASSUME NEW o \in Publishers PROVE Sane(pub'[o], file, publishes')
    <3>1. CASE o = p
      BY <1>pub, <2>2, <3>1
    <3>2. CASE o # p
      BY <1>0, <2>2, <2>3, <3>2 DEF Sane
    <3> QED
      BY <3>1, <3>2
  <2> QED
    BY <1>0, <1>pub, <2>1, <2>2, <2>3, <2>4 DEF Typed
<1>on. ASSUME NEW p \in Publishers, NEW q \in PubStates, Step(p, q),
              Sane(q, file, publishes), publishes' = publishes,
              pins' \in PinFiles, crashes' \in Nat,
              returned' \in Seq([pin : Pins, taken : LogFiles])
       PROVE  Typed'
  <2>1. Sane(q, file, publishes') /\ publishes' \in publishes..MaxPublishes
    BY <1>0, <1>on
  <2> QED
    BY <1>pub, <1>on, <2>1
<1>audit. ASSUME NEW q \in AuditStates, AuditStep(q) PROVE Typed'
  BY <1>0, <1>audit DEF AuditStep, Typed
<1>1. ASSUME NEW b \in Content, LibraryAppend(b) PROVE Typed'
  <2>1. file' = Grown(file, b)
    BY <1>0, <1>1, AppendGrows DEF LibraryAppend
  <2>2. Good(file') /\ RowCount(file') = RowCount(file) + 1 /\ RowCount(file) \in Nat
    BY <1>0, <2>1, GoodAppend, ChainOfGood
  <2>3. \A p \in Publishers : Sane(pub[p], file', publishes)
    <3>1. \A p \in Publishers : pub[p].rows \in Nat
      BY <1>0 DEF PubStates
    <3> QED
      BY <1>0, <2>2, <3>1 DEF Sane
  <2> QED
    BY <1>0, <1>1, <2>2, <2>3 DEF LibraryAppend, Typed
<1>2. ASSUME NEW i \in 1..Len(file), Truncate(i) PROVE Typed'
  <2>1. file' = CutAt(file, i) /\ ~Publishing /\ pins' = pins
    BY <1>2 DEF Truncate, Damages, CutAt
  <2>2. Good(file')
    BY <1>0, <2>1, GoodCut
  <2> QED
    BY <1>0, <1>2, <1>idle, <2>1, <2>2 DEF Truncate, Damages, Typed
<1>3. ASSUME NEW i \in 1..Len(file), NEW b \in Content, Remint(i, b) PROVE Typed'
  <2>1. PICK kept : kept = CutAt(file, i)
    OBVIOUS
  <2>2. file' = Grown(kept, b)
    BY <1>3, <2>1 DEF Remint, Damages, CutAt, Grown
  <2>3. Good(file')
    BY <1>0, <2>1, <2>2, GoodCut, GoodAppend
  <2>4. /\ ~Publishing /\ pins' = pins /\ pub' = pub /\ audit' = audit /\ damage' = damage + 1
        /\ crashes' = crashes /\ publishes' = publishes /\ returned' = returned
    BY <1>3 DEF Remint, Damages
  <2> QED
    BY <1>0, <1>idle, <2>3, <2>4 DEF Typed
<1>4. ASSUME NEW i \in 1..Len(pins), EditPin(i) PROVE Typed'
  <2>1. /\ IsPin(pins, i) /\ file' = file /\ ~Publishing
        /\ pins' = Edits(pins, i, RowCount(file), LastChain(file))
    BY <1>4 DEF EditPin, Edits, Damages
  <2>2. pins' \in PinFiles
    BY <1>0, <2>1, ChainOfGood, EditIs
  <2> QED
    BY <1>0, <1>4, <1>idle, <2>1, <2>2 DEF EditPin, Damages, Typed
<1>5. ASSUME NEW i \in 1..Len(pins), DropPin(i) PROVE Typed'
  <2>1. file' = file /\ ~Publishing /\ pins' = Without(pins, i)
    BY <1>5 DEF DropPin, Without, Damages
  <2>2. pins' \in PinFiles
    BY <1>0, <2>1, DropIs
  <2> QED
    BY <1>0, <1>5, <1>idle, <2>1, <2>2 DEF DropPin, Damages, Typed
<1>6. ASSUME NEW p \in Publishers, HeadVerify(p) PROVE Typed'
  <2>1. PICK q : q = [IdlePublisher EXCEPT !.at = "tip", !.rows = RowCount(file),
                                           !.ok = HeadOk(file)]
    OBVIOUS
  <2>2. q \in PubStates /\ q.at = "tip" /\ q.rows = RowCount(file) /\ RowCount(file) \in Nat
    BY <1>0, <2>1, ChainOfGood, OkIsKnown, IdleIsTyped DEF PubStates
  <2>3. publishes' = publishes + 1 /\ publishes' \in publishes..MaxPublishes
    BY <1>0, <1>6 DEF HeadVerify
  <2>4. Sane(q, file, publishes')
    BY <1>0, <2>2, <2>3 DEF Sane, Taken
  <2>5. Step(p, q) /\ pins' = pins /\ crashes' = crashes /\ returned' = returned
    BY <1>6, <2>1 DEF HeadVerify
  <2> QED
    BY <1>0, <1>pub, <2>2, <2>3, <2>4, <2>5
<1>idler. Sane(IdlePublisher, file, publishes)
  BY DEF Sane, Taken, IdlePublisher
<1>7. ASSUME NEW p \in Publishers, HeadTip(p) PROVE Typed'
  <2>0. /\ pub[p].at = "tip" /\ pub[p] \in PubStates /\ Sane(pub[p], file, publishes)
        /\ pins' = pins /\ crashes' = crashes /\ returned' = returned /\ publishes' = publishes
    BY <1>0, <1>7 DEF HeadTip
  <2>1. CASE pub[p].ok = "False" \/ pub[p].rows = 0
    <3>1. Step(p, IdlePublisher)
      BY <1>7, <2>1 DEF HeadTip
    <3> QED
      BY <1>0, <1>on, <1>idler, <2>0, <3>1, IdleIsTyped
  <2>2. CASE ~(pub[p].ok = "False" \/ pub[p].rows = 0)
    <3>1. PICK q : q = [pub[p] EXCEPT !.at = "guard", !.chain = LastChain(file),
                                      !.stamp = Clock[publishes], !.taken = file]
      OBVIOUS
    <3>2. Step(p, q)
      BY <1>7, <2>2, <3>1 DEF HeadTip
    <3>3. /\ publishes > 0 /\ pub[p].rows <= RowCount(file) /\ RowCount(file) \in Nat
          /\ pub[p].rows \in Nat /\ pub[p].rows > 0 /\ LastChain(file) \in Seq(Content)
      BY <1>0, <2>0, <2>2, ChainOfGood DEF Sane, PubStates
    <3>4. Clock[publishes] \in Nat
      BY <1>0, <3>3, ClockAssumption
    <3>5. file \in LogFiles
      BY <1>0 DEF Good, LogFiles
    <3>6. /\ q \in PubStates /\ q.at = "guard" /\ q.taken = file /\ q.rows = pub[p].rows
          /\ q.chain = LastChain(file)
      BY <2>0, <3>1, <3>3, <3>4, <3>5 DEF PubStates
    <3>7. Sane(q, file, publishes')
      BY <1>0, <2>0, <3>3, <3>6 DEF Sane, Taken
    <3> QED
      BY <1>0, <1>on, <2>0, <3>2, <3>6, <3>7
  <2> QED
    BY <2>1, <2>2
<1>8. ASSUME NEW p \in Publishers, RecordGuards(p) PROVE Typed'
  <2>0. /\ pub[p].at = "guard" /\ pub[p] \in PubStates /\ Sane(pub[p], file, publishes)
        /\ pins' = pins /\ crashes' = crashes /\ returned' = returned /\ publishes' = publishes
    BY <1>0, <1>8 DEF RecordGuards
  <2>1. PICK q : q = [pub[p] EXCEPT !.at = "link"]
    OBVIOUS
  <2>2. Step(p, IdlePublisher) \/ Step(p, q)
    BY <1>8, <2>1 DEF RecordGuards
  <2>3. /\ q \in PubStates /\ q.at = "link" /\ q.taken = pub[p].taken /\ q.rows = pub[p].rows
        /\ q.chain = pub[p].chain
    BY <2>0, <2>1 DEF PubStates
  <2>4. Sane(q, file, publishes)
    BY <2>0, <2>3 DEF Sane, Taken
  <2> QED
    BY <1>0, <1>on, <1>idler, <2>0, <2>2, <2>3, <2>4, IdleIsTyped
<1>9. ASSUME NEW p \in Publishers, RecordLink(p) PROVE Typed'
  <2>0. /\ pub[p].at = "link" /\ pub[p] \in PubStates /\ Sane(pub[p], file, publishes)
        /\ pins' = pins /\ crashes' = crashes /\ returned' = returned /\ publishes' = publishes
    BY <1>0, <1>9 DEF RecordLink
  <2>1. PICK q : q = [pub[p] EXCEPT !.at = "write", !.prev = TailDigest(pins, Len(pins))]
    OBVIOUS
  <2>2. Step(p, q)
    BY <1>9, <2>1 DEF RecordLink
  <2>3. TailDigest(pins, Len(pins)) \in Digests
    <3>1. Len(pins) \in Nat
      BY <1>0 DEF PinFiles
    <3>2. WitnessGenesis \in Digests
      BY DEF WitnessGenesis, Digests, Genesis
    <3> QED
      BY <1>0, <3>1, <3>2, TailDigestIs, PinLine DEF LastIs
  <2>4. /\ q \in PubStates /\ q.at = "write" /\ q.taken = pub[p].taken /\ q.rows = pub[p].rows
        /\ q.chain = pub[p].chain
    BY <2>0, <2>1, <2>3 DEF PubStates
  <2>5. Sane(q, file, publishes)
    BY <2>0, <2>4 DEF Sane, Taken
  <2> QED
    BY <1>0, <1>on, <2>0, <2>2, <2>4, <2>5
<1>10. ASSUME NEW p \in Publishers, RecordWrite(p) PROVE Typed'
  <2>1. /\ Step(p, IdlePublisher) /\ crashes' = crashes /\ publishes' = publishes
        /\ pins' = Written(pins, NewPin(p))
        /\ returned' = Append(returned, [pin |-> NewPin(p), taken |-> pub[p].taken])
    BY <1>10 DEF RecordWrite, Written, PutPieces
  <2>2. pins' \in PinFiles
    BY <1>0, <2>1, NewPinIsPin, WriteLands
  <2>3. returned' \in Seq([pin : Pins, taken : LogFiles])
    BY <1>0, <2>1, NewPinIsPin
  <2> QED
    BY <1>0, <1>on, <1>idler, <2>1, <2>2, <2>3, IdleIsTyped
<1>11. ASSUME NEW p \in Publishers, Crash(p) PROVE Typed'
  <2>1. /\ Step(p, IdlePublisher) /\ crashes' = crashes + 1 /\ publishes' = publishes
        /\ returned' = returned
        /\ pins' = pins \/ pins' \in Landings(pins, FALSE, NewPin(p))
    BY <1>11 DEF Crash
  <2>2. pins' \in PinFiles
    BY <1>0, <2>1, NewPinIsPin, LandingLands
  <2>3. Step(p, IdlePublisher) /\ crashes' \in Nat /\ publishes' = publishes
    BY <1>0, <2>1
  <2>4. returned' \in Seq([pin : Pins, taken : LogFiles])
    BY <1>0, <2>1
  <2> QED
    BY <1>on, <1>idler, <2>2, <2>3, <2>4, IdleIsTyped
<1>say. ASSUME NEW v \in Verdicts, Say(v) PROVE Typed'
  <2>1. PICK q : q = [IdleAudit EXCEPT !.verdict = v, !.due = audit.due]
    OBVIOUS
  <2>2. audit.due \in Nat
    BY <1>0 DEF AuditStates
  <2>3. q \in AuditStates
    BY <2>1, <2>2, IdleIsTyped DEF AuditStates
  <2> QED
    BY <1>audit, <1>say, <2>1, <2>3 DEF Say
<1>12. ASSUME AuditStore PROVE Typed'
  <2>1. PICK q : q = [IdleAudit EXCEPT !.due = Len(returned)]
    OBVIOUS
  <2>2. q \in AuditStates
    BY <1>0, <2>1, IdleIsTyped DEF AuditStates
  <2>3. PICK q1 : q1 = [q EXCEPT !.verdict = "witness_broken"]
    OBVIOUS
  <2>4. PICK q2 : q2 = [q EXCEPT !.at = "local"]
    OBVIOUS
  <2>5. q1 \in AuditStates /\ q2 \in AuditStates
    BY <2>2, <2>3, <2>4 DEF AuditStates, Verdicts
  <2>6. AuditStep(q1) \/ AuditStep(q2)
    BY <1>12, <2>1, <2>3, <2>4 DEF AuditStore
  <2> QED
    BY <1>audit, <2>5, <2>6
<1>13. ASSUME AuditLocal PROVE Typed'
  <2>1. PICK q : q = [audit EXCEPT !.at = "latest"]
    OBVIOUS
  <2>2. q \in AuditStates /\ "local_broken" \in Verdicts
    BY <1>0, <2>1 DEF AuditStates, Verdicts
  <2>3. Say("local_broken") \/ AuditStep(q)
    BY <1>13, <2>1 DEF AuditLocal
  <2> QED
    BY <1>audit, <1>say, <2>2, <2>3
<1>14. ASSUME AuditLatest PROVE Typed'
  <2>1. PICK q : q = [audit EXCEPT !.at = "head", !.latest = pins[LastPin(pins, Len(pins))][1]]
    OBVIOUS
  <2>2. CASE PinCount(pins) = 0
    <3>1. Say("no_record") /\ "no_record" \in Verdicts
      BY <1>14, <2>2 DEF AuditLatest, Verdicts
    <3> QED
      BY <1>say, <3>1
  <2>3. CASE PinCount(pins) # 0
    <3>1. pins[LastPin(pins, Len(pins))][1] \in Pins
      BY <1>0, <2>3, PinsCounted, PinLine
    <3>2. q \in AuditStates
      BY <1>0, <2>1, <3>1 DEF AuditStates
    <3>3. AuditStep(q)
      BY <1>14, <2>1, <2>3 DEF AuditLatest
    <3> QED
      BY <1>audit, <3>2, <3>3
  <2> QED
    BY <2>2, <2>3
<1>15. ASSUME AuditHead PROVE Typed'
  <2>1. PICK q : q = [audit EXCEPT !.at = "history", !.rows = RowCount(file)]
    OBVIOUS
  <2>2. RowCount(file) \in Nat
    BY <1>0, ChainOfGood
  <2>3. q \in AuditStates
    BY <1>0, <2>1, <2>2 DEF AuditStates
  <2>4. AuditStep(q)
    BY <1>15, <2>1 DEF AuditHead
  <2> QED
    BY <1>audit, <2>3, <2>4
<1>16. ASSUME AuditHistory PROVE Typed'
  <2>1. PICK q : q = [audit EXCEPT !.at = "compare", !.pins = pins]
    OBVIOUS
  <2>2. q \in AuditStates /\ "witness_broken" \in Verdicts
    BY <1>0, <2>1 DEF AuditStates, Verdicts
  <2>3. Say("witness_broken") \/ AuditStep(q)
    BY <1>16, <2>1 DEF AuditHistory
  <2> QED
    BY <1>audit, <1>say, <2>2, <2>3
<1>17. ASSUME AuditCompare PROVE Typed'
  <2>1. Say(Verdict) /\ Verdict \in Verdicts
    BY <1>0, <1>17, VerdictIs DEF AuditCompare
  <2> QED
    BY <1>say, <2>1
<1>18. CASE UNCHANGED vars
  BY <1>0, <1>18 DEF vars, Typed
<1> QED
  BY <1>1, <1>2, <1>3, <1>4, <1>5, <1>6, <1>7, <1>8, <1>9, <1>10, <1>11, <1>12, <1>13,
     <1>14, <1>15, <1>16, <1>17, <1>18
     DEF Next, Publisher, Auditor

\* Every behaviour is well typed, and a publisher that took a head took it from a
\* log that the library could have written.
THEOREM TypedHolds == Spec => []Typed
BY TypedInit, TypedStep, PTL DEF Spec

(***************************************************************************)
(* One publisher at a time.  record's guards are of use only when nobody   *)
(* writes between them and its own write: the pin file is not locked.      *)
(***************************************************************************)
OneAtATime == \A p, q \in Publishers : p = q

\* One pin, its heights and its heads before another's.
Below(x, y) == x.rows < y.rows \/ <<x.rows, x.chain>> = <<y.rows, y.chain>>

Rising(s) == \A i, j \in 1..Len(s) :
               (i < j /\ IsPin(s, i) /\ ~s[i][1].edited /\ IsPin(s, j) /\ ~s[j][1].edited) =>
                 Below(s[i][1], s[j][1])

AllBelow(s, q) == \A i \in 1..Len(s) : IsPin(s, i) => Below(s[i][1], q)

Guarded == \A p \in Publishers : pub[p].at \in {"link", "write"} => AllBelow(pins, pub[p])

\* A pin above all others keeps the store rising, however its write ends.
LEMMA LandingRises ==
  ASSUME NEW s \in PinFiles, Rising(s), NEW x \in Pins, AllBelow(s, x),
         NEW g \in PinFiles, Landed(s, g, x)
  PROVE  Rising(g)
<1>1. ASSUME NEW i \in 1..Len(g), IsPin(g, i)
      PROVE  \/ i \in 1..Len(s) /\ g[i] = s[i] /\ IsPin(s, i)
             \/ g[i][1] = x /\ i = Len(Opened(s)) /\ \A j \in 1..Len(s) : IsPin(s, j) => j < i
  <2>1. CASE Kept(s, g, i)
    BY <1>1, <2>1 DEF Kept, IsPin
  <2>2. CASE g[i] = <<x>> /\ i = Len(Opened(s)) /\ \A j \in 1..Len(s) : IsPin(s, j) => j < i
    <3>1. g[i][1] = x
      BY <2>2, OnePin
    <3> QED
      BY <2>2, <3>1
  <2> QED
    BY <1>1, <2>1, <2>2 DEF Landed
<1> SUFFICES ASSUME NEW i \in 1..Len(g), NEW j \in 1..Len(g), i < j,
                    IsPin(g, i), ~g[i][1].edited, IsPin(g, j), ~g[j][1].edited
             PROVE  Below(g[i][1], g[j][1])
  BY DEF Rising
<1>2. Len(g) \in Nat
  BY DEF PinFiles
<1>3. CASE i \in 1..Len(s) /\ g[i] = s[i] /\ IsPin(s, i)
  <2>1. CASE j \in 1..Len(s) /\ g[j] = s[j] /\ IsPin(s, j)
    BY <1>3, <2>1 DEF Rising
  <2>2. CASE g[j][1] = x
    BY <1>3, <2>2 DEF AllBelow
  <2> QED
    BY <1>1, <2>1, <2>2
<1>4. CASE i = Len(Opened(s)) /\ \A k \in 1..Len(s) : IsPin(s, k) => k < i
  <2>1. ~(j \in 1..Len(s) /\ IsPin(s, j))
    BY <1>2, <1>4
  <2>2. j = Len(Opened(s))
    BY <1>1, <2>1
  <2> QED
    BY <1>2, <1>4, <2>2
<1> QED
  BY <1>1, <1>3, <1>4

\* An edit leaves one pin fewer to speak of.
LEMMA EditRises ==
  ASSUME NEW s \in PinFiles, Rising(s), NEW i \in 1..Len(s), NEW g \in PinFiles, EditedTo(s, g, i)
  PROVE  Rising(g)
BY DEF EditedTo, Rising

\* A drop keeps the order of the pins that stay.
LEMMA DropRises ==
  ASSUME NEW s \in PinFiles, Rising(s), NEW i \in 1..Len(s), NEW g \in PinFiles,
         DroppedFrom(s, g, i)
  PROVE  Rising(g)
<1> SUFFICES ASSUME NEW j \in 1..Len(g), NEW k \in 1..Len(g), j < k,
                    IsPin(g, j), ~g[j][1].edited, IsPin(g, k), ~g[k][1].edited
             PROVE  Below(g[j][1], g[k][1])
  BY DEF Rising
<1>1. j \in Nat /\ k \in Nat /\ i \in Nat
  BY DEF PinFiles
<1>2. Lift(i, j) < Lift(i, k)
  BY <1>1, LiftGrows
<1>3. /\ Lift(i, j) \in 1..Len(s) /\ g[j] = s[Lift(i, j)]
      /\ Lift(i, k) \in 1..Len(s) /\ g[k] = s[Lift(i, k)]
  BY DEF DroppedFrom
<1> QED
  BY <1>2, <1>3 DEF Rising, IsPin

\* The property, as it is said of any pin file.
LEMMA NeverBackwardIs == NeverBackward <=> Rising(pins)
BY DEF NeverBackward, Genuine, Rising, Below

\* What record's guards establish, and the write relies on.
LEMMA GuardedInit == Init => Guarded /\ NeverBackward
<1> SUFFICES ASSUME Init PROVE Guarded /\ Rising(pins)
  BY NeverBackwardIs
<1>1. Guarded
  BY DEF Init, IdlePublisher, Guarded
<1>2. CASE pins = <<>>
  BY <1>1, <1>2 DEF Rising
<1>3. ASSUME NEW b \in Content, pins = Written(<<>>, LegacyPin(b)) PROVE Rising(pins)
  <2>1. <<>> \in PinFiles /\ Rising(<<>>) /\ AllBelow(<<>>, LegacyPin(b))
    BY DEF PinFiles, Rising, AllBelow
  <2> QED
    BY <1>3, <2>1, LegacyIsPin, WriteLands, LandingRises
<1> QED
  BY <1>1, <1>2, <1>3, FirstFiles

\* With one publisher nothing but its own write makes a pin between the two.
LEMMA GuardedStep ==
  OneAtATime /\ Typed /\ Guarded /\ NeverBackward /\ [Next]_vars => Guarded' /\ NeverBackward'
<1> SUFFICES ASSUME OneAtATime, Typed, Guarded, Rising(pins), [Next]_vars
             PROVE  Guarded' /\ Rising(pins')
  <2>1. NeverBackward' <=> Rising(pins')
    BY DEF NeverBackward, Genuine, Rising, Below
  <2> QED
    BY <2>1, NeverBackwardIs
<1>0. /\ Good(file) /\ pins \in PinFiles /\ pub \in [Publishers -> PubStates]
      /\ \A p, q \in Publishers : p = q
  BY DEF Typed, OneAtATime
<1>same. ASSUME pins' = pins, pub' = pub PROVE Guarded' /\ Rising(pins')
  BY <1>same DEF Guarded
<1>quiet. ASSUME pub' = pub, ~Publishing PROVE Guarded'
  BY <1>quiet DEF Guarded, Publishing
<1>step. ASSUME NEW p \in Publishers, NEW q \in PubStates, Step(p, q),
                q.at \in {"link", "write"} => AllBelow(pins', q)
         PROVE  Guarded'
  <2>1. pub'[p] = q
    BY <1>0, <1>step DEF Step
  <2> QED
    BY <1>0, <1>step, <2>1 DEF Guarded
<1>idle. IdlePublisher \in PubStates /\ IdlePublisher.at = "idle"
  BY IdleIsTyped DEF IdlePublisher
<1>1. ASSUME NEW b \in Content, LibraryAppend(b) PROVE Guarded' /\ Rising(pins')
  BY <1>same, <1>1 DEF LibraryAppend
<1>2. ASSUME NEW i \in 1..Len(file), Truncate(i) PROVE Guarded' /\ Rising(pins')
  BY <1>same, <1>2 DEF Truncate, Damages
<1>3. ASSUME NEW i \in 1..Len(file), NEW b \in Content, Remint(i, b)
      PROVE  Guarded' /\ Rising(pins')
  BY <1>same, <1>3 DEF Remint, Damages
<1>4. ASSUME NEW i \in 1..Len(pins), EditPin(i) PROVE Guarded' /\ Rising(pins')
  <2>1. /\ IsPin(pins, i) /\ pub' = pub /\ ~Publishing
        /\ pins' = Edits(pins, i, RowCount(file), LastChain(file))
    BY <1>4 DEF EditPin, Edits, Damages
  <2>2. pins' \in PinFiles /\ EditedTo(pins, pins', i)
    BY <1>0, <2>1, ChainOfGood, EditIs
  <2> QED
    BY <1>0, <1>quiet, <2>1, <2>2, EditRises
<1>5. ASSUME NEW i \in 1..Len(pins), DropPin(i) PROVE Guarded' /\ Rising(pins')
  <2>1. pub' = pub /\ ~Publishing /\ pins' = Without(pins, i)
    BY <1>5 DEF DropPin, Without, Damages
  <2>2. pins' \in PinFiles /\ DroppedFrom(pins, pins', i)
    BY <1>0, <2>1, DropIs
  <2> QED
    BY <1>0, <1>quiet, <2>1, <2>2, DropRises
<1>6. ASSUME NEW p \in Publishers, HeadVerify(p) PROVE Guarded' /\ Rising(pins')
  <2>1. PICK q : q = [IdlePublisher EXCEPT !.at = "tip", !.rows = RowCount(file),
                                           !.ok = HeadOk(file)]
    OBVIOUS
  <2>2. q \in PubStates /\ q.at = "tip"
    BY <1>0, <1>idle, <2>1, ChainOfGood, OkIsKnown DEF PubStates
  <2>3. Step(p, q) /\ pins' = pins
    BY <1>6, <2>1 DEF HeadVerify
  <2> QED
    BY <1>step, <2>2, <2>3
<1>7. ASSUME NEW p \in Publishers, HeadTip(p) PROVE Guarded' /\ Rising(pins')
  <2>1. pub'[p].at \in {"idle", "guard"} /\ pins' = pins
    <3>1. PICK q : q = [pub[p] EXCEPT !.at = "guard", !.chain = LastChain(file),
                                      !.stamp = Clock[publishes], !.taken = file]
      OBVIOUS
    <3>2. q.at = "guard"
      BY <1>0, <3>1 DEF PubStates
    <3>3. Step(p, IdlePublisher) \/ Step(p, q)
      BY <1>7, <3>1 DEF HeadTip
    <3>4. pub'[p] = IdlePublisher \/ pub'[p] = q
      BY <1>0, <3>3 DEF Step
    <3> QED
      BY <1>7, <1>idle, <3>2, <3>4 DEF HeadTip
  <2> QED
    BY <1>0, <2>1 DEF Guarded
<1>8. ASSUME NEW p \in Publishers, RecordGuards(p) PROVE Guarded' /\ Rising(pins')
  <2>0. pub[p] \in PubStates /\ pins' = pins
    BY <1>0, <1>8 DEF RecordGuards
  <2>1. CASE Backward(pins, p) \/ Equivocates(pins, p)
    <3>1. Step(p, IdlePublisher)
      BY <1>8, <2>1 DEF RecordGuards
    <3> QED
      BY <1>step, <1>idle, <2>0, <3>1
  <2>2. CASE ~(Backward(pins, p) \/ Equivocates(pins, p))
    <3>1. PICK q : q = [pub[p] EXCEPT !.at = "link"]
      OBVIOUS
    <3>2. Step(p, q)
      BY <1>8, <2>2, <3>1 DEF RecordGuards
    <3>3. q \in PubStates /\ q.rows = pub[p].rows /\ q.chain = pub[p].chain /\ q.rows \in Nat
      BY <2>0, <3>1 DEF PubStates
    <3>4. ASSUME NEW i \in 1..Len(pins), IsPin(pins, i) PROVE Below(pins[i][1], q)
      <4>1. pins[i][1].rows \in Nat
        BY <1>0, <3>4, PinLine, PinNumbers
      <4>2. ~(pins[i][1].rows > pub[p].rows)
        BY <2>2, <3>4 DEF Backward
      <4>3. ~(pins[i][1].rows = pub[p].rows /\ pins[i][1].chain # pub[p].chain)
        BY <2>2, <3>4 DEF Equivocates
      <4> QED
        BY <3>3, <4>1, <4>2, <4>3 DEF Below
    <3> QED
      BY <1>step, <2>0, <3>2, <3>3, <3>4 DEF AllBelow
  <2> QED
    BY <2>1, <2>2
<1>9. ASSUME NEW p \in Publishers, RecordLink(p) PROVE Guarded' /\ Rising(pins')
  <2>0. pub[p] \in PubStates /\ pins' = pins /\ pub[p].at = "link"
    BY <1>0, <1>9 DEF RecordLink
  <2>1. PICK q : q = [pub[p] EXCEPT !.at = "write", !.prev = TailDigest(pins, Len(pins))]
    OBVIOUS
  <2>2. Step(p, q)
    BY <1>9, <2>1 DEF RecordLink
  <2>3. q.rows = pub[p].rows /\ q.chain = pub[p].chain
    BY <2>0, <2>1 DEF PubStates
  <2>4. AllBelow(pins, pub[p])
    BY <2>0 DEF Guarded
  <2>5. AllBelow(pins, q)
    BY <2>3, <2>4 DEF AllBelow, Below
  <2>6. pub'[p] = q
    BY <1>0, <2>2 DEF Step
  <2> QED
    BY <1>0, <2>0, <2>5, <2>6 DEF Guarded
<1>write. ASSUME NEW p \in Publishers, pub[p].at = "write" PROVE AllBelow(pins, NewPin(p))
  <2>1. AllBelow(pins, pub[p])
    BY <1>write DEF Guarded
  <2>2. NewPin(p).rows = pub[p].rows /\ NewPin(p).chain = pub[p].chain
    BY DEF NewPin, MakePin
  <2> QED
    BY <2>1, <2>2 DEF AllBelow, Below
<1>10. ASSUME NEW p \in Publishers, RecordWrite(p) PROVE Guarded' /\ Rising(pins')
  <2>1. Step(p, IdlePublisher) /\ pins' = Written(pins, NewPin(p)) /\ pub[p].at = "write"
    BY <1>10 DEF RecordWrite, Written, PutPieces
  <2>2. pins' \in PinFiles /\ Landed(pins, pins', NewPin(p)) /\ NewPin(p) \in Pins
    BY <1>0, <2>1, NewPinIsPin, WriteLands
  <2>3. Rising(pins')
    BY <1>0, <1>write, <2>1, <2>2, LandingRises
  <2> QED
    BY <1>step, <1>idle, <2>1, <2>3
<1>11. ASSUME NEW p \in Publishers, Crash(p) PROVE Guarded' /\ Rising(pins')
  <2>1. Step(p, IdlePublisher)
    BY <1>11 DEF Crash
  <2>2. CASE pub[p].at = "write"
    <3>1. pins' \in Landings(pins, FALSE, NewPin(p)) /\ NewPin(p) \in Pins
      BY <1>11, <2>2, NewPinIsPin DEF Crash
    <3>2. pins' \in PinFiles /\ Landed(pins, pins', NewPin(p))
      BY <1>0, <3>1, LandingLands
    <3> QED
      BY <1>0, <1>step, <1>idle, <1>write, <2>1, <2>2, <3>1, <3>2, LandingRises
  <2>3. CASE pub[p].at # "write"
    BY <1>11, <1>step, <1>idle, <2>1, <2>3 DEF Crash
  <2> QED
    BY <2>2, <2>3
<1>12. ASSUME Auditor PROVE Guarded' /\ Rising(pins')
  BY <1>12, <1>same
     DEF Auditor, AuditStore, AuditLocal, AuditLatest, AuditHead, AuditHistory, AuditCompare,
         Say, AuditStep
<1>13. CASE UNCHANGED vars
  BY <1>13, <1>same DEF vars
<1> QED
  BY <1>1, <1>2, <1>3, <1>4, <1>5, <1>6, <1>7, <1>8, <1>9, <1>10, <1>11, <1>12, <1>13
     DEF Next, Publisher

\* The store never goes backward and never holds two heads of one height among
\* its unedited pins, whatever is torn, dropped or edited in between, when
\* publish_head does not overlap itself.
THEOREM NeverBackwardHolds == OneAtATime => (Spec => []NeverBackward)
<1> SUFFICES ASSUME OneAtATime PROVE Spec => []NeverBackward
  OBVIOUS
<1>1. Typed /\ Guarded /\ NeverBackward /\ [Next]_vars => Guarded' /\ NeverBackward'
  BY GuardedStep
<1> QED
  BY GuardedInit, <1>1, TypedHolds, PTL DEF Spec

(***************************************************************************)
(* Heads taken in different seconds.  Then no pin bears the stamp of one   *)
(* that is gone, and what record returned is stored or visibly missing.    *)
(***************************************************************************)
HeadsApart == \A m, n \in 1..MaxPublishes : m < n => Clock[m] < Clock[n]

DatedBy(s, n) == \A i \in 1..Len(s) : IsPin(s, i) =>
                   s[i][1].stamp = 0 \/ \E m \in 1..n : s[i][1].stamp = Clock[m]

Dated == /\ DatedBy(pins, publishes)
         /\ Publishing => DatedBy(pins, publishes - 1)
         /\ \A p \in Publishers : Taken(pub[p]) => pub[p].stamp = Clock[publishes]

PrevIsTail == \A p \in Publishers :
                pub[p].at = "write" => pub[p].prev = TailDigest(pins, Len(pins))

Proper(r) == /\ r.pin.stamp > 0 /\ r.pin.rows > 0
             /\ Good(r.taken) /\ RowCount(r.taken) > 0 /\ r.pin.chain = LastChain(r.taken)

ReturnedHeld == \A n \in 1..Len(returned) : Proper(returned[n]) /\ Holds(pins, returned[n].pin)

Apart == ~(Publishing /\ Auditing)

Read == Auditing =>
          /\ audit.due = Len(returned)
          /\ StoreOk(pins) # "False" \/ PinCount(pins) = 0
          /\ audit.at \in {"head", "history", "compare"} => PinCount(pins) # 0
          /\ audit.at = "compare" => audit.pins = pins

StoreSpeaks == Sound(pins) /\ Dated /\ PrevIsTail /\ ReturnedHeld

\* The stamps of a store are seconds in which a head was taken.
LEMMA LandingDates ==
  ASSUME NEW s \in PinFiles, NEW n, DatedBy(s, n), NEW x \in Pins,
         \E m \in 1..n : x.stamp = Clock[m], NEW g \in PinFiles, Landed(s, g, x)
  PROVE  DatedBy(g, n)
<1> SUFFICES ASSUME NEW i \in 1..Len(g), IsPin(g, i)
             PROVE  g[i][1].stamp = 0 \/ \E m \in 1..n : g[i][1].stamp = Clock[m]
  BY DEF DatedBy
<1>1. CASE Kept(s, g, i)
  BY <1>1 DEF DatedBy, Kept, IsPin
<1>2. CASE g[i] = <<x>>
  <2>1. g[i][1] = x
    BY <1>2, OnePin
  <2> QED
    BY <2>1
<1> QED
  BY <1>1, <1>2 DEF Landed

\* No edit forges a stamp.
LEMMA EditDates ==
  ASSUME NEW s, NEW n, DatedBy(s, n), NEW i, NEW g, EditedTo(s, g, i)
  PROVE  DatedBy(g, n)
BY DEF DatedBy, EditedTo

\* No drop does.
LEMMA DropDates ==
  ASSUME NEW s, NEW n, DatedBy(s, n), NEW i, NEW g, DroppedFrom(s, g, i)
  PROVE  DatedBy(g, n)
BY DEF DatedBy, DroppedFrom, IsPin

\* A later publication dates no pin.
LEMMA DatedLater ==
  ASSUME NEW s, NEW n \in Nat, DatedBy(s, n)
  PROVE  DatedBy(s, n + 1)
<1>1. \A m \in 1..n : m \in 1..n+1
  OBVIOUS
<1> QED
  BY <1>1 DEF DatedBy

\* What a store shows, and what a call has read of it.
LEMMA SpeaksInit == Init => StoreSpeaks /\ Apart /\ Read
<1> SUFFICES ASSUME Init PROVE StoreSpeaks /\ Apart /\ Read
  OBVIOUS
<1>1. /\ pub = [p \in Publishers |-> IdlePublisher] /\ audit = IdleAudit
      /\ publishes = 0 /\ returned = <<>>
  BY DEF Init
<1>2. ~Publishing /\ ~Auditing /\ \A p \in Publishers : pub[p].at = "idle"
  BY <1>1 DEF Publishing, Auditing, IdlePublisher, IdleAudit
<1>3. Apart /\ Read /\ PrevIsTail /\ ReturnedHeld
  BY <1>1, <1>2 DEF Apart, Read, PrevIsTail, ReturnedHeld
<1>4. ASSUME NEW i \in 1..Len(pins), IsPin(pins, i)
      PROVE  i = 1 /\ pins[i][1].stamp = 0 /\ pins[i][1].prev = NoDigest
  <2>1. CASE pins = <<>>
    BY <2>1
  <2>2. ASSUME NEW b \in Content, pins = Written(<<>>, LegacyPin(b))
        PROVE  i = 1 /\ pins[i][1].stamp = 0 /\ pins[i][1].prev = NoDigest
    <3>1. <<>> \in PinFiles /\ Opened(<<>>) = << <<>> >> /\ Len(Opened(<<>>)) = 1
      BY DEF PinFiles, Opened
    <3>2. Landed(<<>>, pins, LegacyPin(b)) /\ LegacyPin(b) \in Pins
      BY <2>2, <3>1, LegacyIsPin, WriteLands
    <3>3. ~Kept(<<>>, pins, i)
      BY DEF Kept
    <3>4. pins[i] = <<LegacyPin(b)>> /\ i = 1
      BY <1>4, <3>1, <3>2, <3>3 DEF Landed
    <3>5. pins[i][1] = LegacyPin(b)
      BY <3>2, <3>4, OnePin
    <3> QED
      BY <3>4, <3>5, LegacyIsPin
  <2> QED
    BY <2>1, <2>2, FirstFiles
<1>5. Sound(pins)
  BY <1>4 DEF Sound, Ordered, Linking
<1>6. Dated
  BY <1>2, <1>4 DEF Dated, DatedBy, Taken
<1> QED
  BY <1>3, <1>5, <1>6 DEF StoreSpeaks

\* Pins are read and written apart, and an audit compares what it read.
LEMMA ReadStep ==
  OneAtATime /\ "publish/audit" \notin Overlapping /\ Typed /\ Apart /\ Read /\ [Next]_vars
    => Apart' /\ Read'
<1> SUFFICES ASSUME OneAtATime, "publish/audit" \notin Overlapping, Typed, Apart, Read, [Next]_vars
             PROVE  Apart' /\ Read'
  OBVIOUS
<1>0. /\ Good(file) /\ pins \in PinFiles /\ pub \in [Publishers -> PubStates]
      /\ audit \in AuditStates /\ \A p, q \in Publishers : p = q
  BY DEF Typed, OneAtATime
<1>quiet. ASSUME ~Auditing, audit' = audit PROVE Apart' /\ Read'
  BY <1>quiet DEF Apart, Read, Auditing
<1>pub. ASSUME NEW p \in Publishers, Publisher(p) PROVE Apart' /\ Read'
  <2>1. audit' = audit
    BY <1>pub DEF Publisher, HeadVerify, HeadTip, RecordGuards, RecordLink, RecordWrite, Crash, Step
  <2>2. ~Auditing
    <3>1. CASE HeadVerify(p)
      BY <3>1 DEF HeadVerify, Beside
    <3>2. CASE pub[p].at # "idle"
      BY <3>2 DEF Apart, Publishing
    <3> QED
      BY <1>pub, <3>1, <3>2 DEF Publisher, HeadTip, RecordGuards, RecordLink, RecordWrite, Crash
  <2> QED
    BY <1>quiet, <2>1, <2>2
<1>damage. ASSUME Damages PROVE Apart' /\ Read'
  BY <1>damage, <1>quiet DEF Damages
<1>1. ASSUME NEW b \in Content, LibraryAppend(b) PROVE Apart' /\ Read'
  BY <1>1 DEF LibraryAppend, Apart, Read, Publishing, Auditing
<1>reads. ASSUME NEW q \in AuditStates, AuditStep(q), ~Publishing,
                 q.at # "idle" =>
                   /\ q.due = Len(returned)
                   /\ StoreOk(pins) # "False" \/ PinCount(pins) = 0
                   /\ q.at \in {"head", "history", "compare"} => PinCount(pins) # 0
                   /\ q.at = "compare" => q.pins = pins
          PROVE  Apart' /\ Read'
  BY <1>reads DEF AuditStep, Apart, Read, Publishing, Auditing
<1>say. ASSUME NEW v, Say(v) PROVE Apart' /\ Read'
  <2>1. audit'.at = "idle"
    BY <1>say DEF Say, AuditStep, IdleAudit
  <2> QED
    BY <2>1 DEF Apart, Read, Auditing
<1>2. ASSUME AuditStore PROVE Apart' /\ Read'
  <2>0. ~Publishing
    BY <1>2 DEF AuditStore, Beside
  <2>1. CASE StoreOk(pins) = "False" /\ PinCount(pins) > 0
    <3>1. audit'.at = "idle"
      BY <1>2, <2>1 DEF AuditStore, AuditStep, IdleAudit
    <3> QED
      BY <3>1 DEF Apart, Read, Auditing
  <2>2. CASE ~(StoreOk(pins) = "False" /\ PinCount(pins) > 0)
    <3>1. PICK q : q = [[IdleAudit EXCEPT !.due = Len(returned)] EXCEPT !.at = "local"]
      OBVIOUS
    <3>2. AuditStep(q)
      BY <1>2, <2>2, <3>1 DEF AuditStore
    <3>3. Len(returned) \in Nat
      BY DEF Typed
    <3>4. q \in AuditStates /\ q.at = "local" /\ q.due = Len(returned)
      BY <3>1, <3>3, IdleIsTyped DEF AuditStates
    <3>5. StoreOk(pins) # "False" \/ PinCount(pins) = 0
      BY <1>0, <2>2, PinsCounted
    <3> QED
      BY <1>reads, <2>0, <3>2, <3>4, <3>5
  <2> QED
    BY <2>1, <2>2
<1>on. ASSUME Auditing
       PROVE  /\ ~Publishing /\ audit.due = Len(returned)
              /\ StoreOk(pins) # "False" \/ PinCount(pins) = 0
  BY <1>on DEF Apart, Read
<1>3. ASSUME AuditLocal PROVE Apart' /\ Read'
  <2>1. PICK q : q = [audit EXCEPT !.at = "latest"]
    OBVIOUS
  <2>2. q \in AuditStates /\ q.at = "latest" /\ q.due = audit.due
    BY <1>0, <2>1 DEF AuditStates
  <2>3. Say("local_broken") \/ AuditStep(q)
    BY <1>3, <2>1 DEF AuditLocal
  <2>4. Auditing
    BY <1>3 DEF AuditLocal, Auditing
  <2> QED
    BY <1>on, <1>reads, <1>say, <2>2, <2>3, <2>4
<1>4. ASSUME AuditLatest PROVE Apart' /\ Read'
  <2>0. Auditing
    BY <1>4 DEF AuditLatest, Auditing
  <2>1. CASE PinCount(pins) = 0
    <3>1. Say("no_record")
      BY <1>4, <2>1 DEF AuditLatest
    <3> QED
      BY <1>say, <3>1
  <2>2. CASE PinCount(pins) # 0
    <3>1. PICK q : q = [audit EXCEPT !.at = "head", !.latest = pins[LastPin(pins, Len(pins))][1]]
      OBVIOUS
    <3>2. pins[LastPin(pins, Len(pins))][1] \in Pins
      BY <1>0, <2>2, PinsCounted, PinLine
    <3>3. q \in AuditStates /\ q.at = "head" /\ q.due = audit.due
      BY <1>0, <3>1, <3>2 DEF AuditStates
    <3>4. AuditStep(q)
      BY <1>4, <2>2, <3>1 DEF AuditLatest
    <3> QED
      BY <1>on, <1>reads, <2>0, <2>2, <3>3, <3>4
  <2> QED
    BY <2>1, <2>2
<1>5. ASSUME AuditHead PROVE Apart' /\ Read'
  <2>1. PICK q : q = [audit EXCEPT !.at = "history", !.rows = RowCount(file)]
    OBVIOUS
  <2>2. q \in AuditStates /\ q.at = "history" /\ q.due = audit.due
    BY <1>0, <2>1, ChainOfGood DEF AuditStates
  <2>3. AuditStep(q) /\ Auditing /\ audit.at = "head"
    BY <1>5, <2>1 DEF AuditHead, Auditing
  <2>4. PinCount(pins) # 0
    BY <2>3 DEF Read
  <2> QED
    BY <1>on, <1>reads, <2>2, <2>3, <2>4
<1>6. ASSUME AuditHistory PROVE Apart' /\ Read'
  <2>1. PICK q : q = [audit EXCEPT !.at = "compare", !.pins = pins]
    OBVIOUS
  <2>2. q \in AuditStates /\ q.at = "compare" /\ q.due = audit.due /\ q.pins = pins
    BY <1>0, <2>1 DEF AuditStates
  <2>3. (Say("witness_broken") \/ AuditStep(q)) /\ Auditing /\ audit.at = "history"
    BY <1>6, <2>1 DEF AuditHistory, Auditing
  <2>4. PinCount(pins) # 0
    BY <2>3 DEF Read
  <2> QED
    BY <1>on, <1>reads, <1>say, <2>2, <2>3, <2>4
<1>7. ASSUME AuditCompare PROVE Apart' /\ Read'
  BY <1>7, <1>say DEF AuditCompare
<1>8. CASE UNCHANGED vars
  BY <1>8 DEF vars, Apart, Read, Publishing, Auditing
<1> QED
  BY <1>pub, <1>damage, <1>1, <1>2, <1>3, <1>4, <1>5, <1>6, <1>7, <1>8
     DEF Next, Auditor, Truncate, Remint, EditPin, DropPin

\* Each action keeps the store speaking of every pin record returned.
LEMMA SpeaksStep ==
  OneAtATime /\ HeadsApart /\ Typed /\ StoreSpeaks /\ [Next]_vars => StoreSpeaks'
<1> SUFFICES ASSUME OneAtATime, HeadsApart, Typed, StoreSpeaks, [Next]_vars
             PROVE  StoreSpeaks'
  OBVIOUS
<1>0. /\ Good(file) /\ pins \in PinFiles /\ pub \in [Publishers -> PubStates]
      /\ publishes \in 0..MaxPublishes /\ MaxPublishes \in Nat
      /\ returned \in Seq([pin : Pins, taken : LogFiles])
      /\ \A p, q \in Publishers : p = q
      /\ \A p \in Publishers : Sane(pub[p], file, publishes)
  BY ClockAssumption DEF Typed, OneAtATime
<1>now. Sound(pins) /\ Dated /\ PrevIsTail /\ ReturnedHeld
  BY DEF StoreSpeaks
<1>same. ASSUME pins' = pins, pub' = pub, publishes' = publishes, returned' = returned
         PROVE  StoreSpeaks'
  <2>1. Dated'
    BY <1>now, <1>same DEF Dated, Publishing
  <2>2. PrevIsTail'
    BY <1>now, <1>same DEF PrevIsTail
  <2>3. ReturnedHeld'
    BY <1>now, <1>same DEF ReturnedHeld
  <2> QED
    BY <1>now, <1>same, <2>1, <2>2, <2>3 DEF StoreSpeaks
<1>damaged. ASSUME pins' \in PinFiles, Sound(pins'), \A y : y.stamp > 0 /\ Holds(pins, y) => Holds(pins', y),
                   DatedBy(pins', publishes), ~Publishing,
                   pub' = pub, publishes' = publishes, returned' = returned
            PROVE  StoreSpeaks'
  <2>1. \A p \in Publishers : pub[p].at = "idle"
    BY <1>damaged DEF Publishing
  <2>2. Dated'
    BY <1>damaged, <2>1 DEF Dated, Publishing, Taken
  <2>3. PrevIsTail'
    BY <1>damaged, <2>1 DEF PrevIsTail
  <2>4. ReturnedHeld'
    BY <1>now, <1>damaged DEF ReturnedHeld, Proper
  <2> QED
    BY <1>damaged, <2>2, <2>3, <2>4 DEF StoreSpeaks
<1>on. ASSUME NEW p \in Publishers, pub[p].at # "idle"
       PROVE  DatedBy(pins, publishes - 1) /\ publishes \in 1..MaxPublishes
  <2>1. Publishing
    BY <1>on DEF Publishing
  <2> QED
    BY <1>0, <1>now, <1>on, <2>1 DEF Dated, Sane
\* A publisher's step that writes nothing.
<1>step. ASSUME NEW p \in Publishers, NEW q \in PubStates, pub' = [pub EXCEPT ![p] = q],
                pub[p].at # "idle", pins' = pins, publishes' = publishes, returned' = returned,
                Taken(q) => q.stamp = Clock[publishes],
                q.at = "write" => q.prev = TailDigest(pins, Len(pins))
         PROVE  StoreSpeaks'
  <2>1. pub'[p] = q
    BY <1>0, <1>step
  <2>2. Dated'
    BY <1>0, <1>now, <1>on, <1>step, <2>1 DEF Dated
  <2>3. PrevIsTail'
    BY <1>0, <1>step, <2>1 DEF PrevIsTail
  <2>4. ReturnedHeld'
    BY <1>now, <1>step DEF ReturnedHeld
  <2> QED
    BY <1>now, <1>step, <2>2, <2>3, <2>4 DEF StoreSpeaks
<1>idle. IdlePublisher \in PubStates /\ IdlePublisher.at = "idle" /\ ~Taken(IdlePublisher)
  BY IdleIsTyped DEF IdlePublisher, Taken
<1>1. ASSUME NEW b \in Content, LibraryAppend(b) PROVE StoreSpeaks'
  BY <1>1, <1>same DEF LibraryAppend
<1>2. ASSUME NEW i \in 1..Len(file), Truncate(i) PROVE StoreSpeaks'
  BY <1>2, <1>same DEF Truncate, Damages
<1>3. ASSUME NEW i \in 1..Len(file), NEW b \in Content, Remint(i, b) PROVE StoreSpeaks'
  BY <1>3, <1>same DEF Remint, Damages
<1>4. ASSUME NEW i \in 1..Len(pins), EditPin(i) PROVE StoreSpeaks'
  <2>1. /\ IsPin(pins, i) /\ pub' = pub /\ ~Publishing /\ publishes' = publishes
        /\ returned' = returned
        /\ pins' = Edits(pins, i, RowCount(file), LastChain(file))
    BY <1>4 DEF EditPin, Edits, Damages
  <2>2. pins' \in PinFiles /\ EditedTo(pins, pins', i)
    BY <1>0, <2>1, ChainOfGood, EditIs
  <2>3. Sound(pins') /\ \A y : Holds(pins, y) => Holds(pins', y)
    BY <1>0, <1>now, <2>2, EditKeeps
  <2>4. DatedBy(pins', publishes)
    BY <1>now, <2>2, EditDates DEF Dated
  <2> QED
    BY <1>damaged, <2>1, <2>2, <2>3, <2>4
<1>5. ASSUME NEW i \in 1..Len(pins), DropPin(i) PROVE StoreSpeaks'
  <2>1. /\ IsPin(pins, i) /\ pub' = pub /\ ~Publishing /\ publishes' = publishes
        /\ returned' = returned /\ pins' = Without(pins, i)
    BY <1>5 DEF DropPin, Without, Damages
  <2>2. PICK k \in i+1..Len(pins) : IsPin(pins, k)
    BY <1>5 DEF DropPin
  <2>3. pins' \in PinFiles /\ DroppedFrom(pins, pins', i)
    BY <1>0, <2>1, DropIs
  <2>4. Sound(pins') /\ \A y : y.stamp > 0 /\ Holds(pins, y) => Holds(pins', y)
    BY <1>0, <1>now, <2>1, <2>2, <2>3, DropKeeps
  <2>5. DatedBy(pins', publishes)
    BY <1>now, <2>3, DropDates DEF Dated
  <2> QED
    BY <1>damaged, <2>1, <2>3, <2>4, <2>5
<1>6. ASSUME NEW p \in Publishers, HeadVerify(p) PROVE StoreSpeaks'
  <2>1. PICK q : q = [IdlePublisher EXCEPT !.at = "tip", !.rows = RowCount(file),
                                           !.ok = HeadOk(file)]
    OBVIOUS
  <2>2. q.at = "tip"
    BY <1>idle, <2>1 DEF PubStates
  <2>3. /\ pub' = [pub EXCEPT ![p] = q] /\ pins' = pins /\ returned' = returned
        /\ publishes' = publishes + 1
    BY <1>6, <2>1 DEF HeadVerify, Step
  <2>4. pub'[p] = q
    BY <1>0, <2>3
  <2>5. DatedBy(pins, publishes) /\ publishes \in Nat /\ (publishes + 1) - 1 = publishes
    BY <1>0, <1>now DEF Dated
  <2>6. DatedBy(pins, publishes + 1)
    BY <2>5, DatedLater
  <2>7. Dated'
    BY <1>0, <2>2, <2>3, <2>4, <2>5, <2>6 DEF Dated, Taken
  <2>8. PrevIsTail'
    BY <1>0, <2>2, <2>4 DEF PrevIsTail
  <2>9. ReturnedHeld'
    BY <1>now, <2>3 DEF ReturnedHeld
  <2> QED
    BY <1>now, <2>3, <2>7, <2>8, <2>9 DEF StoreSpeaks
<1>7. ASSUME NEW p \in Publishers, HeadTip(p) PROVE StoreSpeaks'
  <2>0. /\ pub[p].at = "tip" /\ pub[p] \in PubStates /\ pub[p].at # "idle"
        /\ pins' = pins /\ returned' = returned /\ publishes' = publishes
    BY <1>0, <1>7 DEF HeadTip
  <2>1. PICK q : q = [pub[p] EXCEPT !.at = "guard", !.chain = LastChain(file),
                                    !.stamp = Clock[publishes], !.taken = file]
    OBVIOUS
  <2>2. pub' = [pub EXCEPT ![p] = IdlePublisher] \/ pub' = [pub EXCEPT ![p] = q]
    BY <1>7, <2>1 DEF HeadTip, Step
  <2>3. q.at = "guard" /\ q.stamp = Clock[publishes]
    BY <2>0, <2>1 DEF PubStates
  <2>4. q \in PubStates
    <3>1. Clock[publishes] \in Nat
      BY <1>0, <1>on, <2>0, ClockAssumption
    <3>2. file \in LogFiles /\ LastChain(file) \in Seq(Content)
      BY <1>0, ChainOfGood DEF Good, LogFiles
    <3> QED
      BY <2>0, <2>1, <3>1, <3>2 DEF PubStates
  <2> QED
    BY <1>step, <1>idle, <2>0, <2>2, <2>3, <2>4
<1>8. ASSUME NEW p \in Publishers, RecordGuards(p) PROVE StoreSpeaks'
  <2>0. /\ pub[p].at = "guard" /\ pub[p] \in PubStates /\ pub[p].at # "idle"
        /\ pins' = pins /\ returned' = returned /\ publishes' = publishes
    BY <1>0, <1>8 DEF RecordGuards
  <2>1. PICK q : q = [pub[p] EXCEPT !.at = "link"]
    OBVIOUS
  <2>2. pub' = [pub EXCEPT ![p] = IdlePublisher] \/ pub' = [pub EXCEPT ![p] = q]
    BY <1>8, <2>1 DEF RecordGuards, Step
  <2>3. q \in PubStates /\ q.at = "link" /\ q.stamp = pub[p].stamp
    BY <2>0, <2>1 DEF PubStates
  <2>4. q.stamp = Clock[publishes]
    BY <1>now, <2>0, <2>3 DEF Dated, Taken
  <2> QED
    BY <1>step, <1>idle, <2>0, <2>2, <2>3, <2>4
<1>9. ASSUME NEW p \in Publishers, RecordLink(p) PROVE StoreSpeaks'
  <2>0. /\ pub[p].at = "link" /\ pub[p] \in PubStates /\ pub[p].at # "idle"
        /\ pins' = pins /\ returned' = returned /\ publishes' = publishes
    BY <1>0, <1>9 DEF RecordLink
  <2>1. PICK q : q = [pub[p] EXCEPT !.at = "write", !.prev = TailDigest(pins, Len(pins))]
    OBVIOUS
  <2>2. pub' = [pub EXCEPT ![p] = q]
    BY <1>9, <2>1 DEF RecordLink, Step
  <2>3. q.at = "write" /\ q.stamp = pub[p].stamp /\ q.prev = TailDigest(pins, Len(pins))
    BY <2>0, <2>1 DEF PubStates
  <2>4. q.stamp = Clock[publishes]
    BY <1>now, <2>0, <2>3 DEF Dated, Taken
  <2>5. q \in PubStates
    <3>1. TailDigest(pins, Len(pins)) \in Digests
      <4>1. Len(pins) \in Nat
        BY <1>0 DEF PinFiles
      <4>2. WitnessGenesis \in Digests
        BY DEF WitnessGenesis, Digests, Genesis
      <4> QED
        BY <1>0, <4>1, <4>2, TailDigestIs, PinLine DEF LastIs
    <3> QED
      BY <2>0, <2>1, <3>1 DEF PubStates
  <2> QED
    BY <1>step, <2>0, <2>2, <2>3, <2>4, <2>5
\* What the new pin is.
<1>new. ASSUME NEW p \in Publishers, pub[p].at = "write"
        PROVE  /\ NewPin(p) \in Pins /\ NewPin(p).prev = TailDigest(pins, Len(pins))
               /\ NewPin(p).stamp = Clock[publishes] /\ NewPin(p).stamp > 0
               /\ \A i \in 1..Len(pins) : IsPin(pins, i) => pins[i][1].stamp < NewPin(p).stamp
               /\ NewPin(p).rows = pub[p].rows /\ NewPin(p).chain = pub[p].chain
  <2>1. /\ NewPin(p).prev = pub[p].prev /\ NewPin(p).stamp = pub[p].stamp
        /\ NewPin(p).rows = pub[p].rows /\ NewPin(p).chain = pub[p].chain
    BY DEF NewPin, MakePin
  <2>2. pub[p].prev = TailDigest(pins, Len(pins)) /\ pub[p].stamp = Clock[publishes]
    BY <1>now, <1>new DEF PrevIsTail, Dated, Taken
  <2>3. publishes \in 1..MaxPublishes /\ DatedBy(pins, publishes - 1)
    BY <1>on, <1>new
  <2>4. Clock[publishes] \in Nat \ {0}
    BY <2>3, ClockAssumption
  <2>5. ASSUME NEW i \in 1..Len(pins), IsPin(pins, i) PROVE pins[i][1].stamp < Clock[publishes]
    <3>1. CASE pins[i][1].stamp = 0
      BY <2>4, <3>1
    <3>2. ASSUME NEW m \in 1..publishes - 1, pins[i][1].stamp = Clock[m]
          PROVE  pins[i][1].stamp < Clock[publishes]
      <4>1. m \in 1..MaxPublishes /\ m < publishes
        BY <1>0, <2>3
      <4> QED
        BY <2>3, <3>2, <4>1 DEF HeadsApart
    <3> QED
      BY <2>3, <2>5, <3>1, <3>2 DEF DatedBy
  <2> QED
    BY <2>1, <2>2, <2>4, <2>5, NewPinIsPin
<1>landed. ASSUME NEW p \in Publishers, pub[p].at = "write", pins' \in PinFiles,
                  Landed(pins, pins', NewPin(p))
           PROVE  /\ Sound(pins') /\ \A y : Holds(pins, y) => Holds(pins', y)
                  /\ DatedBy(pins', publishes)
  <2>1. Sound(pins') /\ \A y : Holds(pins, y) => Holds(pins', y)
    BY <1>0, <1>now, <1>new, <1>landed, LandingKeeps
  <2>2. publishes \in 1..publishes
    BY <1>on, <1>landed
  <2>3. DatedBy(pins', publishes)
    BY <1>0, <1>now, <1>new, <1>landed, <2>2, LandingDates DEF Dated
  <2> QED
    BY <2>1, <2>3
<1>done. ASSUME NEW p \in Publishers, pub' = [pub EXCEPT ![p] = IdlePublisher],
                publishes' = publishes, Sound(pins'), DatedBy(pins', publishes), ReturnedHeld'
         PROVE  StoreSpeaks'
  <2>1. \A o \in Publishers : pub'[o] = IdlePublisher
    BY <1>0, <1>done
  <2>2. Dated' /\ PrevIsTail'
    BY <1>done, <1>idle, <2>1 DEF Dated, PrevIsTail, Publishing
  <2> QED
    BY <1>done, <2>2 DEF StoreSpeaks
<1>10. ASSUME NEW p \in Publishers, RecordWrite(p) PROVE StoreSpeaks'
  <2>1. /\ pub' = [pub EXCEPT ![p] = IdlePublisher] /\ pub[p].at = "write"
        /\ publishes' = publishes /\ pins' = Written(pins, NewPin(p))
        /\ returned' = Append(returned, [pin |-> NewPin(p), taken |-> pub[p].taken])
    BY <1>10 DEF RecordWrite, Written, PutPieces, Step
  <2>2. /\ pins' \in PinFiles /\ Landed(pins, pins', NewPin(p))
        /\ Scrapped(pins') \/ \E i \in 1..Len(pins') : pins'[i] = <<NewPin(p)>>
    BY <1>0, <1>new, <2>1, WriteLands, ZenonT(40)
  <2>3. /\ Sound(pins') /\ \A y : Holds(pins, y) => Holds(pins', y)
        /\ DatedBy(pins', publishes)
    BY <1>landed, <2>1, <2>2
  <2>4. Holds(pins', NewPin(p))
    <3>1. CASE Scrapped(pins')
      BY <3>1 DEF Holds
    <3>2. ASSUME NEW i \in 1..Len(pins'), pins'[i] = <<NewPin(p)>> PROVE Stored(pins', NewPin(p))
      <4>1. IsPin(pins', i) /\ pins'[i][1] = NewPin(p)
        BY <1>new, <2>1, <3>2, OnePin
      <4>2. NewPin(p).self = Digest(NewPin(p))
        BY DEF NewPin, MakePin, Digest
      <4> QED
        BY <4>1, <4>2 DEF Stored
    <3> QED
      BY <2>2, <3>1, <3>2 DEF Holds
  <2>5. PICK r : r = [pin |-> NewPin(p), taken |-> pub[p].taken]
    OBVIOUS
  <2>6. Proper(r) /\ r.pin = NewPin(p)
    <3>1. r.pin = NewPin(p) /\ r.taken = pub[p].taken
      BY <2>5
    <3>2. /\ Good(pub[p].taken) /\ RowCount(pub[p].taken) > 0 /\ pub[p].rows > 0
          /\ pub[p].chain = LastChain(pub[p].taken)
      BY <1>0, <2>1 DEF Sane, Taken
    <3> QED
      BY <1>new, <2>1, <3>1, <3>2 DEF Proper
  <2>7. ReturnedHeld'
    <3>1. ASSUME NEW n \in 1..Len(returned')
          PROVE  Proper(returned'[n]) /\ Holds(pins', returned'[n].pin)
      <4>1. CASE n \in 1..Len(returned)
        <5>1. returned'[n] = returned[n]
          BY <1>0, <2>1, <4>1
        <5> QED
          BY <1>now, <2>3, <4>1, <5>1 DEF ReturnedHeld
      <4>2. CASE n = Len(returned) + 1
        <5>1. returned'[n] = r
          BY <1>0, <2>1, <2>5, <4>2
        <5> QED
          BY <2>4, <2>6, <5>1
      <4>3. Len(returned') = Len(returned) + 1 /\ Len(returned) \in Nat
        BY <1>0, <2>1
      <4> QED
        BY <4>1, <4>2, <4>3
    <3> QED
      BY <3>1 DEF ReturnedHeld
  <2> QED
    BY <1>done, <2>1, <2>3, <2>7
<1>11. ASSUME NEW p \in Publishers, Crash(p) PROVE StoreSpeaks'
  <2>1. /\ pub' = [pub EXCEPT ![p] = IdlePublisher] /\ pub[p].at # "idle"
        /\ publishes' = publishes /\ returned' = returned
    BY <1>11 DEF Crash, Step
  <2>2. CASE pub[p].at = "write"
    <3>1. pins' \in Landings(pins, FALSE, NewPin(p)) /\ NewPin(p) \in Pins
      BY <1>11, <1>new, <2>2 DEF Crash
    <3>2. pins' \in PinFiles /\ Landed(pins, pins', NewPin(p))
      BY <1>0, <3>1, LandingLands
    <3>3. /\ Sound(pins') /\ \A y : Holds(pins, y) => Holds(pins', y)
          /\ DatedBy(pins', publishes)
      BY <1>landed, <2>2, <3>2
    <3>4. ReturnedHeld'
      BY <1>now, <2>1, <3>3 DEF ReturnedHeld
    <3> QED
      BY <1>done, <2>1, <3>3, <3>4
  <2>3. CASE pub[p].at # "write"
    <3>1. pins' = pins
      BY <1>11, <2>3 DEF Crash
    <3> QED
      BY <1>step, <1>idle, <2>1, <3>1
  <2> QED
    BY <2>2, <2>3
<1>12. ASSUME Auditor PROVE StoreSpeaks'
  BY <1>12, <1>same
     DEF Auditor, AuditStore, AuditLocal, AuditLatest, AuditHead, AuditHistory, AuditCompare,
         Say, AuditStep
<1>13. CASE UNCHANGED vars
  BY <1>13, <1>same DEF vars
<1> QED
  BY <1>1, <1>2, <1>3, <1>4, <1>5, <1>6, <1>7, <1>8, <1>9, <1>10, <1>11, <1>12, <1>13
     DEF Next, Publisher

\* An unbroken store that holds a pin record returned holds it as it was.
LEMMA UnbrokenHolds ==
  ASSUME NEW s \in PinFiles, Sound(s), StoreOk(s) # "False",
         NEW y, y.stamp > 0, Holds(s, y)
  PROVE  \E i \in 1..Len(s) : IsPin(s, i) /\ Digest(s[i][1]) = Digest(y)
<1>0. Len(s) \in Nat
  BY DEF PinFiles
<1>1. \A i \in 1..Len(s) : ~PinBroken(s, i)
  BY DEF StoreOk
<1>2. ~Scrapped(s)
  BY <1>1 DEF Scrapped, PinBroken
<1>3. ~Gap(s)
  <2> SUFFICES ASSUME NEW i \in 1..Len(s), IsPin(s, i), Loose(s, s[i][1]) PROVE FALSE
    BY DEF Gap
  <2>1. s[i][1].prev.stamp > 0 /\ i - 1 \in Nat
    BY <1>0 DEF Loose
  <2>2. s[i][1].prev # NoDigest
    BY <2>1 DEF NoDigest
  <2>3. s[i][1].prev = TailDigest(s, i - 1)
    BY <1>1, <2>2 DEF PinBroken, ChainedPin
  <2>4. TailDigest(s, i - 1) # WitnessGenesis
    BY <2>1, <2>3 DEF WitnessGenesis
  <2>5. PICK k : LastIs(s, i - 1, k) /\ TailDigest(s, i - 1) = Digest(s[k][1])
    BY <2>1, <2>4, TailDigestIs
  <2>6. k \in 1..Len(s) /\ IsPin(s, k)
    BY <1>0, <2>5 DEF LastIs
  <2>7. s[k][1].stamp = s[i][1].prev.stamp
    BY <2>3, <2>5 DEF Digest
  <2> QED
    BY <2>6, <2>7 DEF Loose
<1>4. PICK i \in 1..Len(s) : IsPin(s, i) /\ s[i][1].stamp = y.stamp /\ s[i][1].self = Digest(y)
  BY <1>2, <1>3 DEF Holds, Stored
<1>5. s[i][1].prev # NoDigest
  BY <1>4 DEF Sound, Linking, LinkedTo
<1>6. s[i][1].self = Digest(s[i][1])
  BY <1>1, <1>4, <1>5 DEF PinBroken, ChainedPin
<1> QED
  BY <1>4, <1>6

\* The chain value of a log at a pin's height tells all the rows up to it.
LEMMA ChainTellsAll ==
  ASSUME NEW f, Good(f), NEW g, Good(g), NEW n \in Nat \ {0}, ChainAt(f, n) # NoChain,
         ChainAt(f, n) = LastChain(g), NEW k \in 1..n
  PROVE  ChainAt(f, k) # NoChain /\ ChainAt(f, k) = ChainAt(g, k)
<1>1. n \in 1..RowCount(f) /\ RowCount(f) \in Nat
  <2>1. RowCount(f) \in Nat
    BY ChainOfGood
  <2> QED
    BY <2>1 DEF ChainAt
<1>2. PICK v : v = LastChain(f)
  OBVIOUS
<1>3. PICK w : w = LastChain(g)
  OBVIOUS
<1>4. v \in Seq(Content) /\ Len(v) = RowCount(f) /\ ChainAt(f, n) = SubSeq(v, 1, n)
  BY <1>1, <1>2, ChainOfGood
<1>5. w \in Seq(Content) /\ Len(w) = RowCount(g)
  BY <1>3, ChainOfGood
<1>6. w = SubSeq(v, 1, n)
  BY <1>3, <1>4
<1>7. RowCount(g) = n
  BY <1>1, <1>4, <1>5, <1>6
<1>8. k \in 1..RowCount(f) /\ k \in 1..RowCount(g)
  BY <1>1, <1>7
<1>9. ChainAt(f, k) = SubSeq(v, 1, k) /\ ChainAt(f, k) # NoChain
  BY <1>2, <1>8, ChainOfGood
<1>10. ChainAt(g, k) = SubSeq(w, 1, k)
  BY <1>3, <1>8, ChainOfGood
<1>11. SubSeq(w, 1, k) = SubSeq(v, 1, k)
  BY <1>1, <1>4, <1>6
<1> QED
  BY <1>9, <1>10, <1>11

\* The audit's last step, from what it read.
LEMMA ConsistentNow ==
  ASSUME Typed, StoreSpeaks, Read, AuditCompare, audit'.verdict = "consistent",
         NEW n \in 1..audit.due, NEW k \in 1..returned[n].pin.rows
  PROVE  ChainAt(file, k) # NoChain /\ ChainAt(file, k) = ChainAt(returned[n].taken, k)
<1>1. /\ Good(file) /\ pins \in PinFiles /\ audit \in AuditStates
      /\ Sound(pins) /\ ReturnedHeld
      /\ returned \in Seq([pin : Pins, taken : LogFiles])
  BY DEF Typed, StoreSpeaks
<1>2. audit.at = "compare" /\ Say(Verdict)
  BY DEF AuditCompare
<1>3. /\ audit.due = Len(returned) /\ StoreOk(pins) # "False" /\ audit.pins = pins
  BY <1>1, <1>2, PinsCounted DEF Read, Auditing
<1>4. Verdict = "consistent"
  BY <1>2 DEF Say, AuditStep, IdleAudit
<1>5. \A i \in History(pins) : Compare(pins[i][1]) \notin Accusations
  BY <1>1, <1>3, <1>4, VerdictIs
<1>6. PICK y : y = returned[n].pin
  OBVIOUS
<1>7. PICK g : g = returned[n].taken
  OBVIOUS
<1>8. n \in 1..Len(returned) /\ y \in Pins
  <2>1. n \in 1..Len(returned)
    BY <1>3
  <2>2. PICK R : R = [pin : Pins, taken : LogFiles]
    OBVIOUS
  <2>3. returned \in Seq(R)
    BY <1>1, <2>2
  <2>4. returned[n] \in R
    BY <2>1, <2>3
  <2> QED
    BY <1>6, <2>1, <2>2, <2>4
<1>9. /\ y.stamp > 0 /\ y.rows > 0 /\ Good(g) /\ RowCount(g) > 0 /\ y.chain = LastChain(g)
      /\ Holds(pins, y)
  BY <1>1, <1>6, <1>7, <1>8 DEF ReturnedHeld, Proper
<1>10. PICK i \in 1..Len(pins) : IsPin(pins, i) /\ Digest(pins[i][1]) = Digest(y)
  BY <1>1, <1>3, <1>9, UnbrokenHolds
<1>11. PICK x : x = pins[i][1]
  OBVIOUS
<1>12. x \in Pins /\ x.rows = y.rows /\ x.chain = y.chain
  <2>1. Digest(x) = Digest(y)
    BY <1>10, <1>11
  <2> QED
    BY <1>1, <1>10, <1>11, <2>1, PinLine DEF Digest
<1>13. x.chain # Genesis
  <2>1. Len(LastChain(g)) = RowCount(g)
    BY <1>9, ChainOfGood
  <2>2. Len(Genesis) = 0
    BY DEF Genesis
  <2> QED
    BY <1>9, <1>12, <2>1, <2>2
<1>14. Compare(x) \notin Accusations
  BY <1>5, <1>10, <1>11 DEF History
<1>15. ChainAt(file, x.rows) = x.chain /\ ChainAt(file, x.rows) # NoChain
  <2>1. audit.rows \in Nat
    BY <1>1 DEF AuditStates
  <2> QED
    BY <1>9, <1>12, <1>13, <1>14, <2>1, CompareIs
<1>16. y.rows \in Nat \ {0} /\ k \in 1..y.rows
  BY <1>6, <1>8, <1>9, PinNumbers
<1>17. ChainAt(file, y.rows) = LastChain(g) /\ ChainAt(file, y.rows) # NoChain
  BY <1>9, <1>12, <1>15
<1>18. ChainAt(file, k) # NoChain /\ ChainAt(file, k) = ChainAt(g, k)
  BY <1>1, <1>9, <1>16, <1>17, ChainTellsAll
<1> QED
  BY <1>7, <1>18

\* "consistent" is never said of a log that lost or changed a row under a pin
\* record had returned before the audit began: however often the log was cut and
\* minted anew and pinned again, however many stored pins were edited or, while
\* another pin follows them, dropped, and wherever the writes of the pin file were
\* torn.  What is needed is that publish_head runs once at a time and apart from
\* the audit, and takes no two heads in one second.
THEOREM ConsistentHolds ==
  (OneAtATime /\ HeadsApart /\ "publish/audit" \notin Overlapping) => (Spec => ConsistentIsTrue)
<1> SUFFICES ASSUME OneAtATime, HeadsApart, "publish/audit" \notin Overlapping
             PROVE  Spec => ConsistentIsTrue
  OBVIOUS
<1>1. Init => StoreSpeaks /\ Apart /\ Read
  BY SpeaksInit
<1>2. Typed /\ StoreSpeaks /\ Apart /\ Read /\ [Next]_vars => StoreSpeaks' /\ Apart' /\ Read'
  BY SpeaksStep, ReadStep
<1>3. Typed /\ StoreSpeaks /\ Read /\ [Next]_vars =>
        [AuditCompare /\ audit'.verdict = "consistent" =>
           \A n \in 1..audit.due :
             \A k \in 1..returned[n].pin.rows :
               ChainAt(file, k) # NoChain /\ ChainAt(file, k) = ChainAt(returned[n].taken, k)]_vars
  BY ConsistentNow
<1> QED
  BY <1>1, <1>2, <1>3, TypedHolds, PTL DEF Spec, ConsistentIsTrue

(***************************************************************************)
(* A log that was only ever appended to, between publications, and a store *)
(* that only record wrote, each write whole.                               *)
(***************************************************************************)
Quiet == damage = 0 /\ crashes = 0 /\ mixed = {}

\* A pin file as record leaves it.
Whole(s) == Closed(s) /\ \A i \in 1..Len(s) : ~PinBroken(s, i)

\* Each pin is at the height and of the chain value the log has there.
Agrees(x, f) == x.rows \in 1..RowCount(f) /\ x.chain = ChainAt(f, x.rows)
AgreeWith(s, f) == \A i \in 1..Len(s) : IsPin(s, i) => Agrees(s[i][1], f)

HeadIsNow == \A p \in Publishers :
               /\ pub[p].at # "idle" => pub[p].rows = RowCount(file)
               /\ Taken(pub[p]) => pub[p].chain = LastChain(file)

Unaccused == audit.verdict \notin Accusations \cup {"witness_broken"}

AuditAgrees ==
  /\ audit.at \in {"history", "compare"} =>
       \A i \in 1..Len(pins) : IsPin(pins, i) => pins[i][1].rows <= audit.rows
  /\ audit.at \in {"head", "history", "compare"} =>
       PinCount(pins) # 0 /\ audit.latest = pins[LastPin(pins, Len(pins))][1]
  /\ audit.at = "compare" => audit.pins = pins

Honest == Quiet => /\ Apart /\ Whole(pins) /\ AgreeWith(pins, file)
                   /\ HeadIsNow /\ PrevIsTail /\ AuditAgrees /\ Unaccused

\* Whether a pin is broken depends on the lines up to it.
LEMMA BrokenIsLocal ==
  ASSUME NEW s, NEW g, NEW i \in Nat \ {0}, \A k \in 1..i : s[k] = g[k], ~PinBroken(s, i)
  PROVE  ~PinBroken(g, i)
<1>1. i - 1 \in Nat /\ \A k \in 1..i-1 : s[k] = g[k]
  OBVIOUS
<1>2. TailDigest(s, i-1) = TailDigest(g, i-1)
  BY <1>1, TailDigestIsLocal
<1>3. \A k \in 1..i : ChainedPin(s, k) <=> ChainedPin(g, k)
  BY DEF ChainedPin, IsPin
<1>4. s[i] = g[i] /\ i \in 1..i /\ \A k \in 1..i-1 : k \in 1..i
  OBVIOUS
<1>5. (\E j \in 1..i-1 : ChainedPin(s, j)) <=> (\E j \in 1..i-1 : ChainedPin(g, j))
  BY <1>3, <1>4
<1> QED
  BY <1>2, <1>3, <1>4, <1>5 DEF PinBroken, IsPin

\* A pin that record writes to a whole store.
LEMMA WriteStaysWhole ==
  ASSUME NEW s \in PinFiles, Whole(s), NEW x \in Pins,
         \/ s = <<>> /\ x.prev = NoDigest
         \/ x.prev = TailDigest(s, Len(s)) /\ x.self = Digest(x),
         NEW g, g = Written(s, x)
  PROVE  Whole(g)
<1>1. PICK pieces : pieces = <<x>>
  OBVIOUS
<1>2. PICK nl \in BOOLEAN : nl = TRUE
  OBVIOUS
<1>3. g = PutPieces(s, pieces, nl)
  BY <1>1, <1>2 DEF Written
<1>4. pieces \in Seq(Pins \cup {Scrap})
  BY <1>1
<1>5. PICK m : m = Len(Opened(s))
  OBVIOUS
<1>6. PutIs(s, g, pieces, m) /\ Len(g) = m + 1
  BY <1>2, <1>3, <1>4, <1>5, PiecesPut
<1>7. /\ m \in Nat \ {0} /\ Len(g) = m + 1 /\ g[m+1] = <<>>
      /\ \A k \in 1..m-1 : k \in 1..Len(s) /\ g[k] = s[k]
      /\ s # <<>> => m = Len(s) /\ s[m] = <<>>
      /\ s = <<>> => m = 1
  BY <1>6 DEF PutIs, Whole, Closed
<1>8. g[m] = pieces
  BY <1>4, <1>6, <1>7 DEF PutIs
<1>9. IsPin(g, m) /\ g[m][1] = x /\ Kind(g[m]) = "pin"
  <2>1. g[m] = <<x>>
    BY <1>1, <1>8
  <2> QED
    BY <2>1, OnePin DEF IsPin
<1>10. TailDigest(g, m-1) = TailDigest(s, Len(s))
  <2>1. m - 1 \in Nat /\ \A k \in 1..m-1 : g[k] = s[k]
    BY <1>7
  <2>2. TailDigest(g, m-1) = TailDigest(s, m-1)
    BY <2>1, TailDigestIsLocal
  <2>3. CASE s = <<>>
    BY <1>7, <2>2, <2>3
  <2>4. CASE s # <<>>
    <3>1. ~IsPin(s, m)
      BY <1>7, <2>4, BlankIsNoPin
    <3> QED
      BY <1>7, <2>2, <2>4, <3>1, TailDigestSkips
  <2> QED
    BY <2>3, <2>4
<1>11. ~PinBroken(g, m)
  <2>1. CASE x.prev = NoDigest /\ s = <<>>
    <3>1. ~ChainedPin(g, m) /\ m = 1
      BY <1>7, <1>9, <2>1 DEF ChainedPin
    <3> QED
      BY <1>9, <3>1 DEF PinBroken
  <2>2. CASE x.prev = TailDigest(s, Len(s)) /\ x.self = Digest(x)
    <3>1. x.prev # NoDigest
      <4>1. Len(s) \in Nat
        BY DEF PinFiles
      <4>2. CASE x.prev = WitnessGenesis
        BY <4>2, PinNumbers
      <4>3. ASSUME NEW k, LastIs(s, Len(s), k), x.prev = Digest(s[k][1])
            PROVE  x.prev # NoDigest
        <5>1. s[k][1] \in Pins
          BY <4>3, PinLine DEF LastIs
        <5> QED
          BY <4>3, <5>1, PinNumbers
      <4> QED
        BY <2>2, <4>1, <4>2, <4>3, TailDigestIs
    <3>2. ChainedPin(g, m)
      BY <1>9, <3>1 DEF ChainedPin
    <3> QED
      BY <1>9, <1>10, <2>2, <3>2 DEF PinBroken
  <2> QED
    BY <2>1, <2>2
<1>12. ASSUME NEW i \in 1..Len(g) PROVE ~PinBroken(g, i)
  <2>1. CASE i = m + 1
    <3>1. ~IsPin(g, i) /\ Kind(g[i]) = "blank"
      BY <1>7, <2>1, BlankIsNoPin
    <3> QED
      BY <3>1 DEF PinBroken, ChainedPin
  <2>2. CASE i = m
    BY <1>11, <2>2
  <2>3. CASE i \in 1..m-1
    <3>1. i \in 1..Len(s) /\ i \in Nat \ {0} /\ \A k \in 1..i : s[k] = g[k]
      BY <1>7, <2>3
    <3>2. ~PinBroken(s, i)
      BY <3>1 DEF Whole
    <3> QED
      BY <3>1, <3>2, BrokenIsLocal
  <2> QED
    BY <1>7, <2>1, <2>2, <2>3
<1> QED
  BY <1>7, <1>12 DEF Whole, Closed

\* The head of a log, as a pin of it.
LEMMA HeadAgrees ==
  ASSUME NEW f, Good(f), NEW x, x.rows = RowCount(f), x.rows > 0, x.chain = LastChain(f)
  PROVE  Agrees(x, f)
<1>1. /\ LastChain(f) \in Seq(Content) /\ Len(LastChain(f)) = RowCount(f) /\ RowCount(f) \in Nat
  BY ChainOfGood
<1>2. RowCount(f) \in 1..RowCount(f)
  BY <1>1
<1>3. ChainAt(f, RowCount(f)) = SubSeq(LastChain(f), 1, RowCount(f))
  BY <1>2, ChainOfGood
<1>4. SubSeq(LastChain(f), 1, RowCount(f)) = LastChain(f)
  BY <1>1
<1> QED
  BY <1>2, <1>3, <1>4 DEF Agrees

\* A pin that agrees with the log keeps the store in agreement.
LEMMA LandingAgrees ==
  ASSUME NEW s \in PinFiles, NEW f, AgreeWith(s, f), NEW x \in Pins, Agrees(x, f),
         NEW g \in PinFiles, Landed(s, g, x)
  PROVE  AgreeWith(g, f)
<1> SUFFICES ASSUME NEW i \in 1..Len(g), IsPin(g, i) PROVE Agrees(g[i][1], f)
  BY DEF AgreeWith
<1>1. CASE Kept(s, g, i)
  BY <1>1 DEF AgreeWith, Kept, IsPin
<1>2. CASE g[i] = <<x>>
  <2>1. g[i][1] = x
    BY <1>2, OnePin
  <2> QED
    BY <2>1
<1> QED
  BY <1>1, <1>2 DEF Landed

\* The invariant of a run without mishaps.
LEMMA HonestInit == Init => Honest
<1> SUFFICES ASSUME Init PROVE Honest
  OBVIOUS
<1>1. pub = [p \in Publishers |-> IdlePublisher] /\ audit = IdleAudit
  BY DEF Init
<1>2. ~Publishing /\ ~Auditing /\ \A p \in Publishers : pub[p].at = "idle"
  BY <1>1 DEF Publishing, Auditing, IdlePublisher, IdleAudit
<1>3. Apart /\ PrevIsTail /\ HeadIsNow
  BY <1>2 DEF Apart, PrevIsTail, HeadIsNow, Taken
<1>4. AuditAgrees /\ Unaccused
  BY <1>1 DEF IdleAudit, AuditAgrees, Unaccused, Accusations
<1>5. Whole(pins) /\ AgreeWith(pins, file)
  <2>1. Whole(<<>>) /\ \A f : AgreeWith(<<>>, f)
    BY DEF Whole, Closed, AgreeWith
  <2>2. ASSUME NEW b \in Content, pins = Written(<<>>, LegacyPin(b)), file = Grown(<<>>, b)
        PROVE  Whole(pins) /\ AgreeWith(pins, file)
    <3>1. <<>> \in PinFiles
      BY DEF PinFiles
    <3>2. PICK x : x = LegacyPin(b)
      OBVIOUS
    <3>3. x \in Pins /\ x.rows = 1 /\ x.chain = <<b>> /\ x.prev = NoDigest
      BY <3>2, LegacyIsPin
    <3>4. pins = Written(<<>>, x)
      BY <2>2, <3>2
    <3>5. Whole(pins) /\ pins \in PinFiles /\ Landed(<<>>, pins, x)
      BY <2>1, <3>1, <3>3, <3>4, WriteStaysWhole, WriteLands
    <3>6. Good(file) /\ LastChain(file) = <<b>> /\ RowCount(file) = 1
      <4>1. LastChain(<<>>) = <<>>
        BY DEF LastChain, TailChain, Genesis
      <4>2. /\ Good(file) /\ LastChain(file) = Append(LastChain(<<>>), b)
            /\ RowCount(file) = RowCount(<<>>) + 1
        BY <2>2, EmptyIsGood, GoodAppend
      <4>3. Append(<<>>, b) = <<b>>
        OBVIOUS
      <4>4. LastChain(file) = <<b>>
        BY <4>1, <4>2, <4>3
      <4>5. RowCount(file) = 1
        BY <4>2, EmptyIsGood
      <4> QED
        BY <4>2, <4>4, <4>5
    <3>7. Agrees(x, file)
      BY <3>3, <3>6, HeadAgrees
    <3> QED
      BY <2>1, <3>1, <3>3, <3>5, <3>7, LandingAgrees
  <2> QED
    BY <2>1, <2>2, FirstFiles
<1> QED
  BY <1>3, <1>4, <1>5 DEF Honest

\* Each action keeps it, as long as nothing has gone wrong.
LEMMA HonestStep == OneAtATime /\ Typed /\ Honest /\ [Next]_vars => Honest'
<1> SUFFICES ASSUME OneAtATime, Typed, Honest, [Next]_vars, Quiet' PROVE Honest'
  BY DEF Honest
<1>0. /\ Good(file) /\ pins \in PinFiles /\ pub \in [Publishers -> PubStates]
      /\ audit \in AuditStates /\ damage \in Nat /\ crashes \in Nat
      /\ \A p, q \in Publishers : p = q
      /\ \A p \in Publishers : Sane(pub[p], file, publishes)
  BY DEF Typed, OneAtATime
<1>quiet. damage' = 0 /\ crashes' = 0 /\ mixed' = {}
  BY DEF Quiet
<1>was. ASSUME damage' = damage, crashes' = crashes, mixed' = {} => mixed = {}
        PROVE  /\ Apart /\ Whole(pins) /\ AgreeWith(pins, file)
               /\ HeadIsNow /\ PrevIsTail /\ AuditAgrees /\ Unaccused
  <2>1. Quiet
    BY <1>quiet, <1>was DEF Quiet
  <2> QED
    BY <2>1 DEF Honest
<1>row. RowCount(file) \in Nat
  BY <1>0, ChainOfGood
<1>damage. ASSUME Damages PROVE FALSE
  <2>1. damage' = damage + 1
    BY <1>damage DEF Damages
  <2> QED
    BY <1>0, <1>quiet, <2>1
\* A publisher's step that writes nothing, apart from an audit.
<1>step. ASSUME NEW p \in Publishers, NEW q \in PubStates, pub' = [pub EXCEPT ![p] = q],
                file' = file, audit' = audit, pins' = pins, ~Auditing,
                Whole(pins), AgreeWith(pins, file), AuditAgrees, Unaccused,
                q.at # "idle" => q.rows = RowCount(file),
                Taken(q) => q.chain = LastChain(file),
                q.at = "write" => q.prev = TailDigest(pins, Len(pins))
         PROVE  Honest'
  <2>1. \A o \in Publishers : pub'[o] = q
    BY <1>0, <1>step
  <2>2. Apart' /\ AuditAgrees' /\ Unaccused'
    BY <1>step DEF Apart, AuditAgrees, Unaccused, Auditing
  <2>3. HeadIsNow' /\ PrevIsTail'
    BY <1>step, <2>1 DEF HeadIsNow, PrevIsTail
  <2>4. Whole(pins)' /\ AgreeWith(pins, file)'
    BY <1>step
  <2> QED
    BY <2>2, <2>3, <2>4 DEF Honest
<1>busy. ASSUME NEW p \in Publishers, pub[p].at # "idle", damage' = damage, crashes' = crashes,
                mixed' = mixed
         PROVE  /\ ~Auditing /\ Whole(pins) /\ AgreeWith(pins, file) /\ AuditAgrees /\ Unaccused
                /\ pub[p].rows = RowCount(file) /\ (Taken(pub[p]) => pub[p].chain = LastChain(file))
                /\ pub[p].at = "write" => pub[p].prev = TailDigest(pins, Len(pins))
  BY <1>was, <1>busy DEF Apart, Publishing, HeadIsNow, PrevIsTail
<1>idle. IdlePublisher \in PubStates /\ IdlePublisher.at = "idle" /\ ~Taken(IdlePublisher)
  BY IdleIsTyped DEF IdlePublisher, Taken
<1>1. ASSUME NEW b \in Content, LibraryAppend(b) PROVE Honest'
  <2>0. /\ pins' = pins /\ pub' = pub /\ audit' = audit /\ damage' = damage /\ crashes' = crashes
        /\ mixed' = {} => mixed = {}
    BY <1>1 DEF LibraryAppend, Beside
  <2>1. ~Publishing
    BY <1>1, <1>quiet DEF LibraryAppend, Beside
  <2>2. /\ Apart /\ Whole(pins) /\ AgreeWith(pins, file)
        /\ HeadIsNow /\ PrevIsTail /\ AuditAgrees /\ Unaccused
    BY <1>was, <2>0
  <2>3. file' = Grown(file, b)
    BY <1>0, <1>1, AppendGrows DEF LibraryAppend
  <2>4. /\ RowCount(file') = RowCount(file) + 1
        /\ \A k \in 1..RowCount(file) : ChainAt(file', k) = ChainAt(file, k)
    BY <1>0, <2>3, GoodAppend
  <2>5. AgreeWith(pins, file)'
    <3>1. ASSUME NEW x, Agrees(x, file) PROVE Agrees(x, file')
      BY <1>row, <2>4, <3>1 DEF Agrees
    <3> QED
      BY <2>0, <2>2, <3>1 DEF AgreeWith
  <2>6. Apart' /\ HeadIsNow' /\ PrevIsTail' /\ AuditAgrees' /\ Unaccused' /\ Whole(pins)'
    BY <2>0, <2>1, <2>2
       DEF Apart, HeadIsNow, PrevIsTail, AuditAgrees, Unaccused, Publishing, Auditing, Taken
  <2> QED
    BY <2>5, <2>6 DEF Honest
<1>2. ASSUME NEW p \in Publishers, HeadVerify(p) PROVE Honest'
  <2>0. /\ pins' = pins /\ file' = file /\ audit' = audit /\ damage' = damage
        /\ crashes' = crashes
        /\ mixed' = {} => mixed = {}
    BY <1>2 DEF HeadVerify, Beside, Step
  <2>1. ~Auditing
    BY <1>2, <1>quiet DEF HeadVerify, Beside
  <2>2. PICK q : q = [IdlePublisher EXCEPT !.at = "tip", !.rows = RowCount(file),
                                           !.ok = HeadOk(file)]
    OBVIOUS
  <2>3. q \in PubStates /\ q.at = "tip" /\ q.rows = RowCount(file) /\ ~Taken(q)
    BY <1>row, <1>idle, <2>2, OkIsKnown DEF PubStates, Taken
  <2>4. pub' = [pub EXCEPT ![p] = q]
    BY <1>2, <2>2 DEF HeadVerify, Step
  <2> QED
    BY <1>step, <1>was, <2>0, <2>1, <2>3, <2>4
<1>3. ASSUME NEW p \in Publishers, HeadTip(p) PROVE Honest'
  <2>0. /\ pub[p].at = "tip" /\ pub[p] \in PubStates /\ pub[p].at # "idle"
        /\ pins' = pins /\ file' = file /\ audit' = audit /\ damage' = damage
        /\ crashes' = crashes /\ mixed' = mixed
    BY <1>0, <1>3 DEF HeadTip, Step
  <2>1. PICK q : q = [pub[p] EXCEPT !.at = "guard", !.chain = LastChain(file),
                                    !.stamp = Clock[publishes], !.taken = file]
    OBVIOUS
  <2>2. pub' = [pub EXCEPT ![p] = IdlePublisher] \/ pub' = [pub EXCEPT ![p] = q]
    BY <1>3, <2>1 DEF HeadTip, Step
  <2>3. q.at = "guard" /\ q.rows = pub[p].rows /\ q.chain = LastChain(file)
    BY <2>0, <2>1 DEF PubStates
  <2>4. q \in PubStates
    <3>1. publishes \in 1..MaxPublishes
      BY <1>0, <2>0, ClockAssumption DEF Sane, Typed
    <3>2. Clock[publishes] \in Nat
      BY <3>1, ClockAssumption
    <3>3. file \in LogFiles /\ LastChain(file) \in Seq(Content)
      BY <1>0, ChainOfGood DEF Good, LogFiles
    <3> QED
      BY <2>0, <2>1, <3>2, <3>3 DEF PubStates
  <2>5. /\ ~Auditing /\ Whole(pins) /\ AgreeWith(pins, file) /\ AuditAgrees /\ Unaccused
        /\ pub[p].rows = RowCount(file)
    BY <1>busy, <2>0
  <2> QED
    BY <1>step, <1>idle, <2>0, <2>2, <2>3, <2>4, <2>5
<1>4. ASSUME NEW p \in Publishers, RecordGuards(p) PROVE Honest'
  <2>0. /\ pub[p].at = "guard" /\ pub[p] \in PubStates /\ pub[p].at # "idle"
        /\ pins' = pins /\ file' = file /\ audit' = audit /\ damage' = damage
        /\ crashes' = crashes /\ mixed' = mixed
    BY <1>0, <1>4 DEF RecordGuards, Step
  <2>1. PICK q : q = [pub[p] EXCEPT !.at = "link"]
    OBVIOUS
  <2>2. pub' = [pub EXCEPT ![p] = IdlePublisher] \/ pub' = [pub EXCEPT ![p] = q]
    BY <1>4, <2>1 DEF RecordGuards, Step
  <2>3. q \in PubStates /\ q.at = "link" /\ q.rows = pub[p].rows /\ q.chain = pub[p].chain
    BY <2>0, <2>1 DEF PubStates
  <2>4. /\ ~Auditing /\ Whole(pins) /\ AgreeWith(pins, file) /\ AuditAgrees /\ Unaccused
        /\ pub[p].rows = RowCount(file) /\ pub[p].chain = LastChain(file)
    BY <1>busy, <2>0 DEF Taken
  <2> QED
    BY <1>step, <1>idle, <2>0, <2>2, <2>3, <2>4
<1>5. ASSUME NEW p \in Publishers, RecordLink(p) PROVE Honest'
  <2>0. /\ pub[p].at = "link" /\ pub[p] \in PubStates /\ pub[p].at # "idle"
        /\ pins' = pins /\ file' = file /\ audit' = audit /\ damage' = damage
        /\ crashes' = crashes /\ mixed' = mixed
    BY <1>0, <1>5 DEF RecordLink, Step
  <2>1. PICK q : q = [pub[p] EXCEPT !.at = "write", !.prev = TailDigest(pins, Len(pins))]
    OBVIOUS
  <2>2. pub' = [pub EXCEPT ![p] = q]
    BY <1>5, <2>1 DEF RecordLink, Step
  <2>3. /\ q.at = "write" /\ q.rows = pub[p].rows /\ q.chain = pub[p].chain
        /\ q.prev = TailDigest(pins, Len(pins))
    BY <2>0, <2>1 DEF PubStates
  <2>4. q \in PubStates
    <3>1. TailDigest(pins, Len(pins)) \in Digests
      <4>1. Len(pins) \in Nat
        BY <1>0 DEF PinFiles
      <4>2. WitnessGenesis \in Digests
        BY DEF WitnessGenesis, Digests, Genesis
      <4> QED
        BY <1>0, <4>1, <4>2, TailDigestIs, PinLine DEF LastIs
    <3> QED
      BY <2>0, <2>1, <3>1 DEF PubStates
  <2>5. /\ ~Auditing /\ Whole(pins) /\ AgreeWith(pins, file) /\ AuditAgrees /\ Unaccused
        /\ pub[p].rows = RowCount(file) /\ pub[p].chain = LastChain(file)
    BY <1>busy, <2>0 DEF Taken
  <2> QED
    BY <1>step, <2>0, <2>2, <2>3, <2>4, <2>5
<1>6. ASSUME NEW p \in Publishers, RecordWrite(p) PROVE Honest'
  <2>0. /\ pub[p].at = "write" /\ pub[p].at # "idle" /\ Taken(pub[p])
        /\ file' = file /\ audit' = audit /\ damage' = damage
        /\ crashes' = crashes /\ mixed' = mixed /\ pub' = [pub EXCEPT ![p] = IdlePublisher]
    BY <1>6 DEF RecordWrite, Step, Taken
  <2>1. /\ ~Auditing /\ Whole(pins) /\ AgreeWith(pins, file) /\ AuditAgrees /\ Unaccused
        /\ pub[p].rows = RowCount(file) /\ pub[p].chain = LastChain(file)
        /\ pub[p].prev = TailDigest(pins, Len(pins))
    BY <1>busy, <2>0
  <2>2. PICK x : x = NewPin(p)
    OBVIOUS
  <2>3. /\ x \in Pins /\ x.prev = TailDigest(pins, Len(pins)) /\ x.self = Digest(x)
        /\ x.rows = RowCount(file) /\ x.chain = LastChain(file) /\ x.rows > 0
    <3>1. /\ NewPin(p).prev = pub[p].prev /\ NewPin(p).self = Digest(NewPin(p))
          /\ NewPin(p).rows = pub[p].rows /\ NewPin(p).chain = pub[p].chain
      BY DEF NewPin, MakePin, Digest
    <3>2. pub[p].rows > 0
      BY <1>0, <2>0 DEF Sane
    <3> QED
      BY <2>1, <2>2, <3>1, <3>2, NewPinIsPin
  <2>4. pins' = Written(pins, x)
    BY <1>6, <2>2 DEF RecordWrite, Written, PutPieces
  <2>5. Whole(pins') /\ pins' \in PinFiles /\ Landed(pins, pins', x)
    BY <1>0, <2>1, <2>3, <2>4, WriteStaysWhole, WriteLands
  <2>6. AgreeWith(pins', file)
    <3>1. Agrees(x, file)
      BY <1>0, <2>3, HeadAgrees
    <3> QED
      BY <1>0, <2>1, <2>3, <2>5, <3>1, LandingAgrees
  <2>7. \A o \in Publishers : pub'[o] = IdlePublisher
    BY <1>0, <2>0
  <2>8. Apart' /\ HeadIsNow' /\ PrevIsTail'
    BY <1>idle, <2>7 DEF Apart, Publishing, HeadIsNow, PrevIsTail
  <2>9. AuditAgrees' /\ Unaccused'
    BY <2>0, <2>1 DEF AuditAgrees, Unaccused, Auditing
  <2> QED
    BY <2>0, <2>5, <2>6, <2>8, <2>9 DEF Honest
<1>7. ASSUME NEW p \in Publishers, Crash(p) PROVE Honest'
  <2>1. crashes' = crashes + 1
    BY <1>7 DEF Crash
  <2> QED
    BY <1>0, <1>quiet, <2>1
\* An audit's step.
<1>audit. ASSUME NEW q \in AuditStates, AuditStep(q), ~Publishing,
                 Whole(pins), AgreeWith(pins, file), HeadIsNow, PrevIsTail,
                 q.verdict \notin Accusations \cup {"witness_broken"},
                 q.at \in {"history", "compare"} =>
                   \A i \in 1..Len(pins) : IsPin(pins, i) => pins[i][1].rows <= q.rows,
                 q.at \in {"head", "history", "compare"} =>
                   PinCount(pins) # 0 /\ q.latest = pins[LastPin(pins, Len(pins))][1],
                 q.at = "compare" => q.pins = pins
          PROVE  Honest'
  <2>1. audit' = q /\ file' = file /\ pins' = pins /\ pub' = pub
    BY <1>audit DEF AuditStep
  <2>2. Apart' /\ HeadIsNow' /\ PrevIsTail'
    BY <1>audit, <2>1 DEF Apart, Publishing, HeadIsNow, PrevIsTail
  <2>3. AuditAgrees' /\ Unaccused'
    BY <1>audit, <2>1 DEF AuditAgrees, Unaccused
  <2>4. Whole(pins)' /\ AgreeWith(pins, file)'
    BY <1>audit, <2>1
  <2> QED
    BY <2>2, <2>3, <2>4 DEF Honest
<1>on. ASSUME Auditing, damage' = damage, crashes' = crashes, mixed' = mixed
       PROVE  /\ ~Publishing /\ Whole(pins) /\ AgreeWith(pins, file)
              /\ HeadIsNow /\ PrevIsTail /\ AuditAgrees /\ Unaccused
  BY <1>was, <1>on DEF Apart
<1>say. ASSUME NEW v \in Verdicts, Say(v), v \notin Accusations \cup {"witness_broken"},
               ~Publishing, Whole(pins), AgreeWith(pins, file), HeadIsNow, PrevIsTail
        PROVE  Honest'
  <2>1. PICK q : q = [IdleAudit EXCEPT !.verdict = v, !.due = audit.due]
    OBVIOUS
  <2>2. audit.due \in Nat
    BY <1>0 DEF AuditStates
  <2>3. q \in AuditStates /\ q.at = "idle" /\ q.verdict = v
    BY <2>1, <2>2, IdleIsTyped DEF AuditStates, IdleAudit
  <2>4. AuditStep(q)
    BY <1>say, <2>1 DEF Say
  <2> QED
    BY <1>audit, <1>say, <2>3, <2>4
<1>8. ASSUME AuditStore PROVE Honest'
  <2>0. /\ damage' = damage /\ crashes' = crashes
        /\ mixed' = {} => mixed = {}
    BY <1>8 DEF AuditStore, Beside, AuditStep
  <2>1. ~Publishing
    BY <1>8, <1>quiet DEF AuditStore, Beside
  <2>2. Whole(pins) /\ AgreeWith(pins, file) /\ HeadIsNow /\ PrevIsTail
    BY <1>was, <2>0
  <2>3. ~(StoreOk(pins) = "False" /\ PinCount(pins) > 0)
    <3>1. CASE pins = <<>>
      <4>1. \A i \in 1..Len(pins) : ~IsPin(pins, i)
        BY <3>1
      <4> QED
        BY <1>0, <4>1, PinsCounted
    <3>2. CASE pins # <<>>
      <4>1. StoreOk(pins) # "False"
        BY <2>2, <3>2 DEF Whole, StoreOk
      <4> QED
        BY <4>1
    <3> QED
      BY <3>1, <3>2
  <2>4. PICK q : q = [[IdleAudit EXCEPT !.due = Len(returned)] EXCEPT !.at = "local"]
    OBVIOUS
  <2>5. AuditStep(q)
    BY <1>8, <2>3, <2>4 DEF AuditStore
  <2>6. Len(returned) \in Nat
    BY DEF Typed
  <2>7. q \in AuditStates /\ q.at = "local" /\ q.verdict = "none"
    BY <2>4, <2>6, IdleIsTyped DEF AuditStates, IdleAudit
  <2> QED
    BY <1>audit, <2>1, <2>2, <2>5, <2>7 DEF Accusations
<1>9. ASSUME AuditLocal PROVE Honest'
  <2>0. Auditing /\ damage' = damage /\ crashes' = crashes /\ mixed' = mixed
    BY <1>9 DEF AuditLocal, Auditing, Say, AuditStep
  <2>1. PICK q : q = [audit EXCEPT !.at = "latest"]
    OBVIOUS
  <2>2. q \in AuditStates /\ q.at = "latest" /\ q.verdict = audit.verdict
    BY <1>0, <2>1 DEF AuditStates
  <2>3. Say("local_broken") \/ AuditStep(q)
    BY <1>9, <2>1 DEF AuditLocal
  <2>4. "local_broken" \in Verdicts /\ "local_broken" \notin Accusations \cup {"witness_broken"}
    BY DEF Verdicts, Accusations
  <2> QED
    BY <1>on, <1>audit, <1>say, <2>0, <2>2, <2>3, <2>4 DEF Unaccused
<1>10. ASSUME AuditLatest PROVE Honest'
  <2>0. Auditing /\ damage' = damage /\ crashes' = crashes /\ mixed' = mixed
    BY <1>10 DEF AuditLatest, Auditing, Say, AuditStep
  <2>1. CASE PinCount(pins) = 0
    <3>1. Say("no_record") /\ "no_record" \in Verdicts
          /\ "no_record" \notin Accusations \cup {"witness_broken"}
      BY <1>10, <2>1 DEF AuditLatest, Verdicts, Accusations
    <3> QED
      BY <1>on, <1>say, <2>0, <3>1
  <2>2. CASE PinCount(pins) # 0
    <3>1. PICK q : q = [audit EXCEPT !.at = "head", !.latest = pins[LastPin(pins, Len(pins))][1]]
      OBVIOUS
    <3>2. pins[LastPin(pins, Len(pins))][1] \in Pins
      BY <1>0, <2>2, PinsCounted, PinLine
    <3>3. /\ q \in AuditStates /\ q.at = "head" /\ q.verdict = audit.verdict
          /\ q.latest = pins[LastPin(pins, Len(pins))][1]
      BY <1>0, <3>1, <3>2 DEF AuditStates
    <3>4. AuditStep(q)
      BY <1>10, <2>2, <3>1 DEF AuditLatest
    <3> QED
      BY <1>on, <1>audit, <2>0, <2>2, <3>3, <3>4 DEF Unaccused
  <2> QED
    BY <2>1, <2>2
<1>11. ASSUME AuditHead PROVE Honest'
  <2>0. /\ Auditing /\ damage' = damage /\ crashes' = crashes /\ mixed' = mixed
        /\ audit.at = "head"
    BY <1>11 DEF AuditHead, Auditing, AuditStep
  <2>1. PICK q : q = [audit EXCEPT !.at = "history", !.rows = RowCount(file)]
    OBVIOUS
  <2>2. /\ q \in AuditStates /\ q.at = "history" /\ q.verdict = audit.verdict
        /\ q.rows = RowCount(file) /\ q.latest = audit.latest
    BY <1>0, <1>row, <2>1 DEF AuditStates
  <2>3. AuditStep(q)
    BY <1>11, <2>1 DEF AuditHead
  <2>4. /\ ~Publishing /\ Whole(pins) /\ AgreeWith(pins, file)
        /\ HeadIsNow /\ PrevIsTail /\ AuditAgrees /\ Unaccused
    BY <1>on, <2>0
  <2>5. \A i \in 1..Len(pins) : IsPin(pins, i) => pins[i][1].rows <= q.rows
    BY <1>row, <2>2, <2>4 DEF AgreeWith, Agrees
  <2>6. PinCount(pins) # 0 /\ q.latest = pins[LastPin(pins, Len(pins))][1]
    BY <2>0, <2>2, <2>4 DEF AuditAgrees
  <2> QED
    BY <1>audit, <2>2, <2>3, <2>4, <2>5, <2>6 DEF Unaccused
<1>12. ASSUME AuditHistory PROVE Honest'
  <2>0. /\ Auditing /\ damage' = damage /\ crashes' = crashes /\ mixed' = mixed
        /\ audit.at = "history"
    BY <1>12 DEF AuditHistory, Auditing, Say, AuditStep
  <2>1. PICK q : q = [audit EXCEPT !.at = "compare", !.pins = pins]
    OBVIOUS
  <2>2. /\ q \in AuditStates /\ q.at = "compare" /\ q.verdict = audit.verdict
        /\ q.rows = audit.rows /\ q.latest = audit.latest /\ q.pins = pins
    BY <1>0, <2>1 DEF AuditStates
  <2>3. /\ ~Publishing /\ Whole(pins) /\ AgreeWith(pins, file)
        /\ HeadIsNow /\ PrevIsTail /\ AuditAgrees /\ Unaccused
    BY <1>on, <2>0
  <2>4. ~ \E i, j \in History(pins) : /\ pins[i][1].rows = pins[j][1].rows /\ pins[i][1].rows # 0
                                      /\ pins[i][1].chain # pins[j][1].chain
    BY <2>3 DEF History, AgreeWith, Agrees
  <2>5. AuditStep(q)
    BY <1>12, <2>1, <2>4 DEF AuditHistory
  <2>6. /\ \A i \in 1..Len(pins) : IsPin(pins, i) => pins[i][1].rows <= q.rows
        /\ PinCount(pins) # 0 /\ q.latest = pins[LastPin(pins, Len(pins))][1]
    BY <2>0, <2>2, <2>3 DEF AuditAgrees
  <2> QED
    BY <1>audit, <2>2, <2>3, <2>5, <2>6 DEF Unaccused
<1>13. ASSUME AuditCompare PROVE Honest'
  <2>0. /\ Auditing /\ damage' = damage /\ crashes' = crashes /\ mixed' = mixed
        /\ audit.at = "compare" /\ Say(Verdict)
    BY <1>13 DEF AuditCompare, Auditing, Say, AuditStep
  <2>1. /\ ~Publishing /\ Whole(pins) /\ AgreeWith(pins, file)
        /\ HeadIsNow /\ PrevIsTail /\ AuditAgrees /\ Unaccused
    BY <1>on, <2>0
  <2>2. /\ audit.pins = pins /\ PinCount(pins) # 0 /\ audit.rows \in Nat
        /\ audit.latest = pins[LastPin(pins, Len(pins))][1]
        /\ \A i \in 1..Len(pins) : IsPin(pins, i) => pins[i][1].rows <= audit.rows
    BY <1>0, <2>0, <2>1 DEF AuditAgrees, AuditStates
  <2>3. ASSUME NEW i \in 1..Len(pins), IsPin(pins, i)
        PROVE  Compare(pins[i][1]) = "consistent"
    <3>1. PICK x : x = pins[i][1]
      OBVIOUS
    <3>2. x \in Pins /\ x.rows \in 1..RowCount(file) /\ x.chain = ChainAt(file, x.rows)
      BY <1>0, <2>1, <2>3, <3>1, PinLine DEF AgreeWith, Agrees
    <3>3. ChainAt(file, x.rows) # NoChain
      BY <1>0, <3>2, ChainOfGood
    <3>4. x.rows \in 1..audit.rows
      BY <2>2, <2>3, <3>1, <3>2
    <3>5. Compare(x) = "consistent"
      BY <2>2, <3>2, <3>3, <3>4, CompareIs
    <3> QED
      BY <3>1, <3>5
  <2>4. Compare(audit.latest) = "consistent"
    BY <1>0, <2>2, <2>3, PinsCounted
  <2>5. \A i \in History(audit.pins) : Compare(audit.pins[i][1]) \notin Accusations
    BY <2>2, <2>3 DEF History, Accusations
  <2>6. Verdict = "consistent"
    BY <1>0, <2>4, <2>5, VerdictIs
  <2>7. "consistent" \in Verdicts /\ "consistent" \notin Accusations \cup {"witness_broken"}
    BY DEF Verdicts, Accusations
  <2> QED
    BY <1>say, <2>0, <2>1, <2>6, <2>7
<1>14. CASE UNCHANGED vars
  <2>1. /\ pins' = pins /\ file' = file /\ pub' = pub /\ audit' = audit /\ damage' = damage
        /\ crashes' = crashes /\ mixed' = mixed
    BY <1>14 DEF vars
  <2>2. /\ Apart /\ Whole(pins) /\ AgreeWith(pins, file)
        /\ HeadIsNow /\ PrevIsTail /\ AuditAgrees /\ Unaccused
    BY <1>was, <2>1
  <2> QED
    BY <2>1, <2>2
       DEF Honest, Apart, HeadIsNow, PrevIsTail, AuditAgrees, Unaccused, Publishing, Auditing, Taken
<1> QED
  BY <1>damage, <1>1, <1>2, <1>3, <1>4, <1>5, <1>6, <1>7, <1>8, <1>9, <1>10, <1>11, <1>12,
     <1>13, <1>14
     DEF Next, Publisher, Auditor, Truncate, Remint, EditPin, DropPin

\* verify_against_witness accuses nobody of a log that was only appended to and of
\* a store that only record wrote, however long both are, when publish_head does
\* not overlap itself, an append or an audit and no write was torn.
THEOREM NeverAccusedHolds == OneAtATime => (Spec => []NeverAccused)
<1> SUFFICES ASSUME OneAtATime PROVE Spec => []NeverAccused
  OBVIOUS
<1>1. Typed /\ Honest /\ [Next]_vars => Honest'
  BY HonestStep
<1>2. Honest => NeverAccused
  BY DEF Honest, Unaccused, NeverAccused, Quiet
<1> QED
  BY HonestInit, <1>1, <1>2, TypedHolds, PTL DEF Spec

====
