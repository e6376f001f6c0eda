--------------------------- MODULE EvidenceTheorems ----------------------------
(***************************************************************************)
(* What is proved of the evidence a user can hand over: a ledger file that *)
(* verify_file calls green (Damage), for files of any length under any     *)
(* appends, declarations and damage, and an evidence pack (Pack), for any  *)
(* log, pin file, folder and edits of it.                                  *)
(***************************************************************************)
EXTENDS Damage, Pack, LedgerLogTheorems

(***************************************************************************)
(* The file stays a sequence of lines of well-formed pieces.  The bodies   *)
(* and chain values grow with it: a declaration holds the bytes of a line. *)
(***************************************************************************)
\* Void stands for no declaration either.
VoidIsNoDeclaration == \A line, bytes, resume : Void # Declaration(line, bytes, resume)

WellFormed(Bs, Cs) ==
  {p \in PiecesOver(Bs, Cs) :
     /\ (p.kind \in RowKinds /\ VoidIsNoDeclaration) => p.body # Void
     /\ p.kind = "bare" => p.chain = Genesis}

Shaped(f) == \E Bs, Cs : f \in Seq(Seq(WellFormed(Bs, Cs)))

\* Whatever is put at the end of a file, it keeps its shape.
LEMMA PutIsShaped ==
  ASSUME NEW f, Shaped(f), NEW p, p.kind \in PieceKinds,
         p = [kind |-> p.kind, body |-> p.body, chain |-> p.chain],
         p.kind \in RowKinds /\ VoidIsNoDeclaration => p.body # Void,
         p.kind = "bare" => p.chain = Genesis, NEW sep \in BOOLEAN, NEW newline \in BOOLEAN
  PROVE  Shaped(Put(f, sep, <<p>>, newline))
<1>1. PICK Bs, Cs : f \in Seq(Seq(WellFormed(Bs, Cs)))
  BY DEF Shaped
<1> DEFINE P == WellFormed(Bs \cup {p.body}, Cs \cup {p.chain})
<1>2. WellFormed(Bs, Cs) \subseteq P /\ p \in P
  BY DEF WellFormed, PiecesOver
<1> HIDE DEF P
<1>3. f \in Seq(Seq(P))
  BY <1>1, <1>2, SeqGrows
<1>4. <<p>> \in Seq(P)
  BY <1>2
<1>5. Put(f, sep, <<p>>, newline) \in Seq(Seq(P))
  <2> DEFINE o == IF sep THEN Append(Opened(f), <<>>) ELSE Opened(f)
  <2>1. o \in Seq(Seq(P)) /\ Len(o) \in 1..Len(o)
    BY <1>3 DEF Opened
  <2>2. [o EXCEPT ![Len(o)] = @ \o <<p>>] \in Seq(Seq(P))
    <3> HIDE DEF o
    <3>1. o[Len(o)] \o <<p>> \in Seq(P)
      BY <1>4, <2>1
    <3> QED
      BY <2>1, <3>1
  <2> QED
    BY <2>2 DEF Put
<1> QED
  BY <1>5 DEF Shaped, P

\* Every step of the ledger and of the damage keeps the shape.
LEMMA ShapeKept ==
  ASSUME Shaped(file), [Next]_vars
  PROVE  Shaped(file')
<1>1. ASSUME NEW b, file' = LibraryAppend(b), VoidIsNoDeclaration => b # Void
      PROVE  Shaped(file')
  <2> DEFINE p == Row(b, LastChain(file))
  <2>1. p.kind \in PieceKinds /\ p = [kind |-> p.kind, body |-> p.body, chain |-> p.chain]
    BY DEF Row, PieceKinds, RowKinds
  <2> DEFINE sep == ~EndsInNewline(file)
  <2>2. file' = Put(file, sep, <<p>>, TRUE)
    BY <1>1 DEF LibraryAppend
  <2>3. /\ p.kind \in RowKinds /\ VoidIsNoDeclaration => p.body # Void
        /\ p.kind # "bare"
    BY <1>1 DEF Row
  <2>4. sep \in BOOLEAN
    BY DEF EndsInNewline
  <2> HIDE DEF p, sep
  <2> QED
    BY <2>1, <2>2, <2>3, <2>4, PutIsShaped
<1>2. ASSUME NEW b \in Content, Append1(b)
      PROVE  Shaped(file')
  BY <1>1, <1>2, VoidIsNoBody DEF Append1
<1>3. ASSUME NEW i \in 1..Len(file), NEW r, DeclareBreak(i, r)
      PROVE  Shaped(file')
  BY <1>1, <1>3 DEF DeclareBreak, VoidIsNoDeclaration
<1>4. ASSUME NEW p \in ForeignPieces, ForeignAppend(p)
      PROVE  Shaped(file')
  <2>1. /\ p.kind \in PieceKinds
        /\ p = [kind |-> p.kind, body |-> p.body, chain |-> p.chain]
        /\ p.kind \in RowKinds => p.body # Void
        /\ p.kind = "bare" => p.chain = Genesis
    BY VoidIsNoBody DEF ForeignPieces, Bare, Poison, Twin, Row, Scalar, Scrap, PieceKinds, RowKinds
  <2> QED
    BY <1>4, <2>1, PutIsShaped DEF ForeignAppend
<1>5. ASSUME NEW i \in 1..Len(file), NEW b \in Content, EditRow(i, b)
      PROVE  Shaped(file')
  <2>1. PICK Bs, Cs : file \in Seq(Seq(WellFormed(Bs, Cs)))
    BY DEF Shaped
  <2> DEFINE P == WellFormed(Bs \cup {b}, Cs)
  <2>2. file \in Seq(Seq(P))
    <3>1. WellFormed(Bs, Cs) \subseteq P
      BY DEF WellFormed, PiecesOver
    <3> QED
      BY <2>1, <3>1, SeqGrows
  <2>3. [file[i][1] EXCEPT !.body = b] \in P
    <3>1. file[i] \in Seq(WellFormed(Bs, Cs)) /\ Kind(file[i]) = "link"
      BY <1>5, <2>1 DEF EditRow
    <3>2. PICK q \in WellFormed(Bs, Cs) : q = file[i][1]
      BY <3>1 DEF Kind
    <3>3. [q EXCEPT !.body = b] = [kind |-> q.kind, body |-> b, chain |-> q.chain]
      BY <3>2 DEF WellFormed, PiecesOver
    <3>4. q.kind = "link" /\ q.chain \in Cs
      BY <3>1, <3>2 DEF WellFormed, PiecesOver, Kind
    <3>5. [kind |-> q.kind, body |-> b, chain |-> q.chain] \in PiecesOver(Bs \cup {b}, Cs)
      BY <3>4 DEF PiecesOver, PieceKinds, RowKinds
    <3>6. b # Void
      BY VoidIsNoBody
    <3> QED
      BY <3>2, <3>3, <3>4, <3>5, <3>6 DEF WellFormed
  <2>4. file' = [file EXCEPT ![i] = <<[file[i][1] EXCEPT !.body = b]>>]
    BY <1>5 DEF EditRow
  <2>5. file' \in Seq(Seq(P))
    <3> HIDE DEF P
    <3>1. <<[file[i][1] EXCEPT !.body = b]>> \in Seq(P)
      BY <2>3
    <3> QED
      BY <2>2, <2>4, <3>1
  <2> QED
    BY <2>5 DEF Shaped, P
<1>6. ASSUME NEW i \in 1..Len(file), DropLine(i)
      PROVE  Shaped(file')
  <2>1. PICK Bs, Cs : file \in Seq(Seq(WellFormed(Bs, Cs)))
    BY DEF Shaped
  <2> DEFINE L == Seq(WellFormed(Bs, Cs))
  <2>2. file' = [j \in 1..Len(file)-1 |-> file[IF j < i THEN j ELSE j+1]]
    BY <1>6 DEF DropLine
  <2>3. Len(file) \in Nat \ {0} /\ i \in Nat
    BY <2>1
  <2>4. ASSUME NEW j \in 1..Len(file)-1
        PROVE  file[IF j < i THEN j ELSE j+1] \in L
    BY <2>1, <2>3
  <2> HIDE DEF L
  <2>5. file' \in [1..Len(file)-1 -> L] /\ Len(file)-1 \in Nat
    BY <2>2, <2>3, <2>4
  <2>6. file' \in Seq(L)
    BY <2>5
  <2> QED
    BY <2>6 DEF Shaped, L
<1>7. ASSUME NEW i \in 1..Len(file), NEW b \in Content, Remint(i, b)
      PROVE  Shaped(file')
  <2> DEFINE kept == [SubSeq(file, 1, i) EXCEPT ![i] = <<>>]
             p == Row(b, LastChain(kept))
  <2>1. PICK Bs, Cs : file \in Seq(Seq(WellFormed(Bs, Cs)))
    BY DEF Shaped
  <2>2. kept \in Seq(Seq(WellFormed(Bs, Cs)))
    <3> DEFINE L == Seq(WellFormed(Bs, Cs))
    <3>1. <<>> \in L
      OBVIOUS
    <3> HIDE DEF L
    <3> QED
      BY <2>1, <3>1 DEF L
  <2>3. Shaped(kept)
    BY <2>2 DEF Shaped
  <2>4. p.kind \in PieceKinds /\ p = [kind |-> p.kind, body |-> p.body, chain |-> p.chain]
    BY DEF Row, PieceKinds, RowKinds
  <2>6. p.body # Void /\ p.kind # "bare"
    BY VoidIsNoBody DEF Row
  <2>5. file' = Put(kept, FALSE, <<p>>, TRUE)
    BY <1>7 DEF Remint
  <2> HIDE DEF kept, p
  <2> QED
    BY <2>3, <2>4, <2>5, <2>6, PutIsShaped
<1>8. CASE UNCHANGED file
  BY <1>8
<1> QED
  BY <1>2, <1>3, <1>4, <1>5, <1>6, <1>7, <1>8 DEF Next, vars, Pin

ShapeInv == Shaped(file)

\* The shape is an invariant of the file.
LEMMA ShapeHolds == Spec => []ShapeInv
<1>1. Init => ShapeInv
  BY DEF Init, ShapeInv, Shaped
<1>2. ShapeInv /\ [Next]_vars => ShapeInv'
  BY ShapeKept DEF ShapeInv
<1> QED
  BY <1>1, <1>2, PTL DEF Spec

(***************************************************************************)
(* Green is genuine.                                                       *)
(***************************************************************************)
LEMMA BodiesSpan ==
  ASSUME NEW f, Len(f) \in Nat
  PROVE  /\ Bodies(f) \in Seq({Bodies(f)[m] : m \in 1..RowCount(f)})
         /\ Len(Bodies(f)) = RowCount(f)
<1> DEFINE val(n) == Body(f, CHOOSE i \in {i \in 1..Len(f) : IsRow(f, i)} : RowNumber(f, i) = n)
           k == RowCount(f)
<1>1. Bodies(f) = [n \in 1..k |-> val(n)]
  BY DEF Bodies, RowCount, Lines
<1>2. k \in Nat
  BY CountIsLastNumber
<1> HIDE DEF val, k
<1>3. /\ Bodies(f) \in Seq({Bodies(f)[m] : m \in 1..k})
      /\ Len(Bodies(f)) = k
  BY <1>1, <1>2
<1> QED
  BY <1>3 DEF k

\* The body of the n-th row is that of a line whose row number is n.
LEMMA BodiesAre ==
  ASSUME NEW f, Len(f) \in Nat, NEW n \in 1..RowCount(f)
  PROVE  /\ Len(Bodies(f)) = RowCount(f)
         /\ \E i \in 1..Len(f) : /\ IsRow(f, i) /\ RowNumber(f, i) = n
                                 /\ Bodies(f)[n] = Body(f, i)
<1> DEFINE rows == {i \in 1..Len(f) : IsRow(f, i)}
           c == CHOOSE i \in rows : RowNumber(f, i) = n
<1>1. Cardinality(rows) = RowCount(f) /\ RowCount(f) \in Nat
  BY CountIsLastNumber DEF RowCount, Lines
<1>2. \E i \in 1..Len(f) : IsRow(f, i) /\ RowNumber(f, i) = n
  BY CountIsLastNumber, RowNumbersAreUsed
<1>3. c \in rows /\ RowNumber(f, c) = n
  BY <1>2
<1>4. Bodies(f)[n] = Body(f, c)
  BY <1>1 DEF Bodies
<1>5. Len(Bodies(f)) = RowCount(f)
  BY BodiesSpan
<1> QED
  BY <1>3, <1>4, <1>5

\* Up to any line of a clean linked file, the chain is the rows so far.
LEMMA ChainIsBodies ==
  ASSUME NEW f, Len(f) \in Nat, Clean(f), Linked(f), NEW n \in 0..Len(f)
  PROVE  /\ RowNumber(f, n) \in 0..Len(Bodies(f))
         /\ TailChain(f, n) = SubSeq(Bodies(f), 1, RowNumber(f, n))
<1> DEFINE t == TailChain(f, n)
           k == RowNumber(f, n)
<1>1. /\ t \in Seq({Body(f, i) : i \in 1..Len(f)})
      /\ Len(t) = k
      /\ \A i \in 1..n : IsRow(f, i) => t[RowNumber(f, i)] = Body(f, i)
  BY ChainSpells
<1>2. k \in Nat /\ k <= RowCount(f) /\ RowCount(f) \in Nat
  BY CountIsLastNumber, RowNumberGrows, RowNumberSteps
<1>3. Len(Bodies(f)) = RowCount(f)
  BY BodiesSpan
<1>4. ASSUME NEW m \in 1..k
      PROVE  t[m] = Bodies(f)[m]
  <2>1. PICK i \in 1..Len(f) : /\ IsRow(f, i) /\ RowNumber(f, i) = m
                               /\ Bodies(f)[m] = Body(f, i)
    BY <1>2, BodiesAre
  <2>2. i <= n
    <3> SUFFICES ASSUME n < i PROVE FALSE
      OBVIOUS
    <3>1. RowNumber(f, n) < RowNumber(f, i)
      BY <2>1, RowNumbersDiffer
    <3> QED
      BY <1>2, <2>1, <3>1
  <2> QED
    BY <1>1, <2>1, <2>2
<1>5. Bodies(f) \in Seq({Bodies(f)[m] : m \in 1..RowCount(f)})
  BY BodiesSpan
<1> HIDE DEF t, k
<1>6. t = SubSeq(Bodies(f), 1, k)
  BY <1>1, <1>2, <1>3, <1>4, <1>5
<1> QED
  BY <1>2, <1>3, <1>6 DEF t, k

\* chain_at of a green file is the hash of exactly the rows up to there.
LEMMA GenuineFile ==
  ASSUME NEW f, Shaped(f), Ok(f, FALSE) = "True"
  PROVE  /\ \A n \in 1..RowCount(f) : ChainAt(f, n) = SubSeq(Bodies(f), 1, n)
         /\ VoidIsNoDeclaration => \A n \in 1..RowCount(f) : Bodies(f)[n] # Void
         /\ LastChain(f) = SubSeq(Bodies(f), 1, RowCount(f))
         /\ Len(Bodies(f)) = RowCount(f)
         /\ RowCount(f) \in Nat \ {0}
<1>1. PICK Bs, Cs : f \in Seq(Seq(WellFormed(Bs, Cs)))
  BY DEF Shaped
<1>over. f \in Seq(Seq(PiecesOver(Bs, Cs)))
  <2>1. WellFormed(Bs, Cs) \subseteq PiecesOver(Bs, Cs)
    BY DEF WellFormed
  <2> QED
    BY <1>1, <2>1, SeqGrows
<1>2. /\ Len(f) \in Nat /\ Clean(f) /\ Linked(f)
      /\ RowCount(f) \in Nat \ {0} /\ RowCount(f) = RowNumber(f, Len(f))
  <2>1. Len(f) \in Nat
    BY <1>1
  <2>2. Clean(f) /\ Linked(f) /\ RowCount(f) > 0
    BY <1>over, GreenIsClean
  <2>3. RowCount(f) \in Nat /\ RowCount(f) = RowNumber(f, Len(f))
    BY <2>1, CountIsLastNumber
  <2> QED
    BY <2>1, <2>2, <2>3
<1>3. ASSUME NEW n \in 1..RowCount(f)
      PROVE  ChainAt(f, n) = SubSeq(Bodies(f), 1, n)
  <2> DEFINE c == CHOOSE i \in 1..Len(f) : IsRow(f, i) /\ RowNumber(f, i) = n
  <2>1. c \in 1..Len(f) /\ IsRow(f, c) /\ RowNumber(f, c) = n
    <3>1. n \in 1..RowNumber(f, Len(f))
      BY <1>2
    <3>2. \E i \in 1..Len(f) : IsRow(f, i) /\ RowNumber(f, i) = n
      BY <1>2, <3>1, RowNumbersAreUsed
    <3> QED
      BY <3>2
  <2>2. Kind(f[c]) # "bare"
    BY <1>2, <2>1 DEF Clean, IsRow, RowKinds
  <2>3. ChainAt(f, n) = Claimed(f, c)
    BY <1>2, <2>2 DEF ChainAt
  <2> HIDE DEF c
  <2>4. Claimed(f, c) = TailChain(f, c)
    BY <2>1, TailChainTakes
  <2>5. TailChain(f, c) = SubSeq(Bodies(f), 1, RowNumber(f, c))
    BY <1>2, <2>1, ChainIsBodies
  <2> QED
    BY <2>1, <2>3, <2>4, <2>5
<1>4. LastChain(f) = SubSeq(Bodies(f), 1, RowCount(f))
  BY <1>2, ChainIsBodies DEF LastChain
<1>5. Len(Bodies(f)) = RowCount(f)
  BY <1>2, BodiesSpan
<1>6. ASSUME VoidIsNoDeclaration, NEW n \in 1..RowCount(f)
      PROVE  Bodies(f)[n] # Void
  <2>1. PICK i \in 1..Len(f) : IsRow(f, i) /\ Bodies(f)[n] = Body(f, i)
    BY <1>2, BodiesAre
  <2>2. f[i] \in Seq(WellFormed(Bs, Cs)) /\ f[i] # <<>> /\ f[i][1].kind \in RowKinds
    BY <1>1, <2>1 DEF IsRow, Kind, RowKinds
  <2>3. f[i][1] \in WellFormed(Bs, Cs)
    BY <2>2
  <2>4. \A q \in WellFormed(Bs, Cs) : q.kind \in RowKinds => q.body # Void
    <3>1. \A q \in WellFormed(Bs, Cs) :
             (q.kind \in RowKinds /\ VoidIsNoDeclaration) => q.body # Void
      BY DEF WellFormed
    <3> QED
      BY <1>6, <3>1, Zenon
  <2> QED
    BY <2>1, <2>2, <2>3, <2>4 DEF Body
<1> QED
  BY <1>2, <1>3, <1>4, <1>5, <1>6

\* A green log is a genuine one: every row's chain, as chain_at reads it back
\* after verify_file said True, is the hash of exactly the rows before it.
THEOREM GreenIsGenuineHolds == Spec => []GreenIsGenuine
<1>1. ShapeInv => GreenIsGenuine
  BY GenuineFile DEF ShapeInv, GreenIsGenuine
<1> QED
  BY <1>1, ShapeHolds, PTL

(***************************************************************************)
(* The pin.                                                                *)
(***************************************************************************)
\* A pin taken over a green head is its file's rows, spelled out.
PinTells == pin.ok = "True" => /\ pin.chain = pinned
                               /\ pin.rows = Len(pinned)
                               /\ pin.rows \in Nat
                               /\ VoidIsNoDeclaration =>
                                    \A n \in 1..pin.rows : pinned[n] # Void

\* What a pin tells of the file is kept by every step.
LEMMA PinTellsKept ==
  ASSUME ShapeInv, PinTells, [Next]_vars
  PROVE  PinTells'
<1>1. CASE Pin
  <2>0. pin' = [rows |-> RowCount(file), chain |-> LastChain(file), ok |-> HeadOk(file)]
        /\ pinned' = Bodies(file)
    BY <1>1 DEF Pin
  <2> SUFFICES ASSUME HeadOk(file) = "True"
               PROVE  /\ LastChain(file) = Bodies(file)
                      /\ RowCount(file) = Len(Bodies(file))
                      /\ RowCount(file) \in Nat
                      /\ VoidIsNoDeclaration =>
                           \A n \in 1..RowCount(file) : Bodies(file)[n] # Void
    BY <2>0 DEF PinTells
  <2>1. Len(file) \in Nat
    BY DEF ShapeInv, Shaped
  <2>2. CASE Ok(file, FALSE) = "True"
    <3> DEFINE k == RowCount(file)
    <3>1. /\ LastChain(file) = SubSeq(Bodies(file), 1, k)
          /\ Len(Bodies(file)) = k /\ k \in Nat \ {0}
      BY <2>2, GenuineFile DEF ShapeInv
    <3>2. Bodies(file) \in Seq({Bodies(file)[m] : m \in 1..k})
      BY <2>1, BodiesSpan
    <3> HIDE DEF k
    <3>3. SubSeq(Bodies(file), 1, k) = Bodies(file)
      BY <3>1, <3>2
    <3>4. VoidIsNoDeclaration => \A n \in 1..k : Bodies(file)[n] # Void
      BY <2>2, GenuineFile DEF ShapeInv, k
    <3> QED
      BY <3>1, <3>3, <3>4 DEF k
  <2>3. CASE Ok(file, FALSE) # "True"
    <3>1. file = <<>> \/ RowCount(file) = 0
      BY <2>3 DEF HeadOk
    <3> DEFINE rows == {i \in 1..Len(file) : IsRow(file, i)}
    <3>2. rows = {} /\ Cardinality(rows) = 0
      <4>1. CASE file = <<>>
        BY <4>1, FS_EmptySet
      <4>2. CASE RowCount(file) = 0
        <5>1. rows \in SUBSET (1..Len(file)) /\ Cardinality(rows) = 0
          BY <4>2 DEF RowCount, Lines
        <5> QED
          BY <2>1, <5>1, Counted
      <4> QED
        BY <3>1, <4>1, <4>2
    <3>3. Bodies(file) = <<>> /\ RowCount(file) = 0
      <4>1. RowCount(file) = 0
        BY <3>2 DEF RowCount, Lines
      <4>2. /\ Len(Bodies(file)) = 0
            /\ Bodies(file) \in Seq({Bodies(file)[m] : m \in 1..RowCount(file)})
        BY <2>1, <4>1, BodiesSpan
      <4> QED
        BY <4>1, <4>2
    <3>4. LastChain(file) = <<>>
      <4>1. ~ \E i \in 1..Len(file) : LastRowIs(file, i, Len(file))
        BY <3>2 DEF LastRowIs
      <4> QED
        BY <4>1 DEF LastChain, TailChain, Genesis
    <3> QED
      BY <3>3, <3>4
  <2> QED
    BY <2>2, <2>3
<1>2. CASE UNCHANGED <<pin, pinned>>
  BY <1>2 DEF PinTells
<1> QED
  BY <1>1, <1>2 DEF Next, vars, Append1, DeclareBreak, ForeignAppend, EditRow, DropLine,
     Remint

\* Once its head was pinned green, no later rewrite makes a log that verifies,
\* answers the pin from chain_at and holds other rows.
THEOREM PinClosesTheGapHolds ==
  ASSUME VoidIsNoDeclaration
  PROVE  Spec => []PinClosesTheGap
<1>1. Init => PinTells
  BY DEF Init, PinTells, NoPin
<1>2. ShapeInv /\ PinTells /\ [Next]_vars => PinTells'
  BY PinTellsKept
<1>3. ShapeInv /\ PinTells => PinClosesTheGap
  <2> SUFFICES ASSUME ShapeInv, PinTells, pin.ok = "True", Ok(file, FALSE) = "True",
                      ChainAt(file, pin.rows) = pin.chain
               PROVE  SubSeq(Bodies(file), 1, pin.rows) = pinned
    BY DEF PinClosesTheGap
  <2>1. /\ pin.chain = pinned /\ pin.rows = Len(pinned) /\ pin.rows \in Nat
        /\ \A n \in 1..pin.rows : pinned[n] # Void
    BY VoidIsNoDeclaration DEF PinTells
  <2>2. /\ \A n \in 1..RowCount(file) : ChainAt(file, n) = SubSeq(Bodies(file), 1, n)
        /\ RowCount(file) \in Nat
    BY GenuineFile DEF ShapeInv
  <2>3. CASE pin.rows = 0
    <3>1. pinned = <<>>
      BY <2>1, <2>3 DEF ChainAt, Genesis
    <3> QED
      BY <2>3, <3>1
  <2>4. CASE pin.rows \in 1..RowCount(file)
    BY <2>1, <2>2, <2>4
  <2>5. CASE pin.rows > RowCount(file)
    <3>1. pinned = <<Void, Void, Void>>
      BY <2>1, <2>2, <2>5 DEF ChainAt, NoChain
    <3>2. pin.rows = 3 /\ pinned[1] = Void
      BY <2>1, <3>1
    <3> QED
      BY <2>1, <3>2
  <2> QED
    BY <2>1, <2>2, <2>3, <2>4, <2>5
<1> QED
  BY <1>1, <1>2, <1>3, ShapeHolds, PTL DEF Spec

(***************************************************************************)
(* The walk of verify_file.                                                *)
(***************************************************************************)
LEMMA ScanIs ==
  ASSUME NEW f, Len(f) \in Nat, NEW n \in 1..Len(f)
  PROVE  \/ Scan(f)[n] = 0 /\ ~ \E d \in 1..Len(f) : Declares(f, d, n)
         \/ Scan(f)[n] \in 1..Len(f) /\ Declares(f, Scan(f)[n], n)
<1> PICK N \in Nat : N = Len(f)
  OBVIOUS
<1> DEFINE Vs == [1..N -> 0..N]
           Line(e) == Body(f, e).line
           none == [m \in 1..N |-> 0]
           After(i, p) == IF IsDeclaration(f, i) /\ Line(i) \in 1..N
                          THEN [p EXCEPT ![Line(i)] = i] ELSE p
           h == [i \in 1..N |-> [p \in Vs |-> After(i, p)]]
           Is(found) == found = [i \in 0..N |-> IF i = 0 THEN none ELSE After(i, found[i-1])]
<1>1. none \in Vs /\ \A i \in 1..N, p \in Vs : After(i, p) \in Vs
  <2>1. none \in Vs
    OBVIOUS
  <2>2. ASSUME NEW i \in 1..N, NEW p \in Vs
        PROVE  After(i, p) \in Vs
    <3> HIDE DEF Line
    <3> QED
      OBVIOUS
  <2> QED
    BY <2>1, <2>2
<1>2. \E found : Is(found)
  <2> HIDE DEF Vs, none, After
  <2>1. h \in [1..N -> [Vs -> Vs]]
    BY <1>1
  <2>2. \A i \in 1..N, p \in Vs : h[i][p] = After(i, p)
    OBVIOUS
  <2> HIDE DEF h
  <2>3. PICK g \in [0..N -> Vs] : g[0] = none /\ \A i \in 1..N : g[i] = h[i][g[i-1]]
    <3>1. none \in Vs
      BY <1>1
    <3>2. \E g : Recursion(g, Vs, N, none, h)
      BY <3>1, <2>1, RecursionExists
    <3> QED
      BY <3>2 DEF Recursion
  <2>4. \A i \in 0..N : g[i] = IF i = 0 THEN none ELSE After(i, g[i-1])
    BY <2>2, <2>3
  <2>5. Is(g)
    BY <2>4
  <2> QED
    BY <2>5
<1>3. PICK found : Is(found) /\ Scan(f) = found[N]
  <2> DEFINE c == CHOOSE found : Is(found)
  <2>1. Is(c)
    BY <1>2, Zenon
  <2>2. Scan(f) = c[N]
    BY DEF Scan
  <2> HIDE DEF c
  <2> QED
    BY <2>1, <2>2
<1> DEFINE Latest(d, m, i) == \/ d = 0 /\ \A e \in 1..i : ~(IsDeclaration(f, e) /\ Line(e) = m)
                              \/ /\ d \in 1..i /\ IsDeclaration(f, d) /\ Line(d) = m
                                 /\ \A e \in d+1..i : ~(IsDeclaration(f, e) /\ Line(e) = m)
           S == {i \in 0..N : found[i] \in Vs /\ \A m \in 1..N : Latest(found[i][m], m, i)}
<1>4. 0 \in S
  <2>1. found[0] = none
    BY <1>3
  <2> QED
    BY <1>1, <2>1
<1>5. ASSUME NEW i \in 1..N, i-1 \in S
      PROVE  i \in S
  <2>1. found[i] = After(i, found[i-1])
    <3> HIDE DEF After, none
    <3> QED
      BY <1>3
  <2>2. found[i-1] \in Vs /\ \A m \in 1..N : Latest(found[i-1][m], m, i-1)
    BY <1>5
  <2> PICK g : g = found[i-1]
    OBVIOUS
  <2>3. g \in [1..N -> 0..N]
    BY <2>2
  <2> HIDE DEF Line
  <2>4. found[i] \in Vs
    BY <2>1, <2>3
  <2>5. ASSUME NEW m \in 1..N
        PROVE  Latest(found[i][m], m, i)
    <3>1. CASE IsDeclaration(f, i) /\ Line(i) = m
      BY <2>1, <2>3, <3>1
    <3>2. CASE ~(IsDeclaration(f, i) /\ Line(i) = m)
      <4>1. found[i][m] = g[m]
        BY <2>1, <2>3, <3>2
      <4>2. ~(IsDeclaration(f, i) /\ Line(i) = m)
        BY <3>2
      <4>3. Latest(g[m], m, i-1)
        BY <2>2
      <4> QED
        BY <4>1, <4>2, <4>3
    <3> QED
      BY <3>1, <3>2
  <2> QED
    BY <2>4, <2>5
<1>6. N \in S
  <2> HIDE DEF S
  <2>1. \A i \in 0..N : i \in S
    BY <1>4, <1>5, StepByStep
  <2> QED
    BY <2>1
<1>7. Latest(Scan(f)[n], n, N)
  BY <1>3, <1>6
<1> QED
  BY <1>7 DEF Declares

\* The accumulator of the walk; P is what prev may be.
Totals(P) == [ok : {"True", "False"}, rows : Nat, breaks : Nat, prechain : Nat,
              declared : Nat, chained : Nat, prev : P]

Kinds == {"blank", "scrap", "scalar", "bare", "poison", "twin", "link"}

\* Whether the walk finds a declaration that excuses line i.
Excuses(f, D, i) == D[i] # 0 /\ Body(f, D[i]).pin = f[i]

\* What line i adds to the totals r, leaving q.
Added(f, D, s, i, P, r, q) ==
  LET k == Kind(f[i])
      e == s = FALSE /\ Excuses(f, D, i)
      stray == k = "bare" /\ r.chained # 0
      off == k \in {"link", "twin"} /\ Claimed(f, i) # Hash(r.prev, Body(f, i))
      bad == \/ k \in {"scrap", "scalar", "poison"}
             \/ k = "bare" /\ r.chained = 0 /\ s = TRUE
             \/ (stray \/ off) /\ ~e
  IN  /\ q \in Totals(P \cup {VoidChain, Claimed(f, i), Body(f, D[i]).resume})
      /\ q.ok = IF bad \/ k = "twin" THEN "False" ELSE r.ok
      /\ q.rows = r.rows + (IF k \in RowKinds THEN 1 ELSE 0)
      /\ q.breaks = r.breaks + (IF bad THEN 1 ELSE 0) + (IF k = "twin" THEN 1 ELSE 0)
      /\ q.prechain = r.prechain + (IF k = "bare" /\ r.chained = 0 THEN 1 ELSE 0)
      /\ q.declared = r.declared + (IF (stray \/ off) /\ e THEN 1 ELSE 0)
      /\ q.chained = r.chained + (IF k \in {"link", "twin", "poison"} THEN 1 ELSE 0)
      /\ q.prev = CASE k \in {"link", "twin"} -> Claimed(f, i)
                    [] k = "poison" -> VoidChain
                    [] k = "bare" -> IF stray /\ e THEN Body(f, D[i]).resume ELSE r.prev
                    [] k \in {"blank", "scrap", "scalar"} -> r.prev

\* One line of the walk adds to each total what the line is: the cases of the walk
\* are the cases of the closed form.
LEMMA StepAdds ==
  ASSUME NEW f, NEW D, NEW s \in BOOLEAN, NEW i, NEW P, NEW r \in Totals(P),
         Kind(f[i]) \in Kinds
  PROVE  Added(f, D, s, i, P, r, Step(f, D, s, r, i))
<1> DEFINE k == Kind(f[i])
           e == s = FALSE /\ Excuses(f, D, i)
           q == Step(f, D, s, r, i)
           Rec(o, a, b, p, d, c, v) == [ok |-> o, rows |-> a, breaks |-> b, prechain |-> p,
                                        declared |-> d, chained |-> c, prev |-> v]
           Off == Claimed(f, i) # Hash(r.prev, Body(f, i))
           claimed == Claimed(f, i)
<1>0. /\ r = Rec(r.ok, r.rows, r.breaks, r.prechain, r.declared, r.chained, r.prev)
      /\ r.rows \in Nat /\ r.breaks \in Nat /\ r.prechain \in Nat /\ r.declared \in Nat
      /\ r.chained \in Nat /\ r.ok \in {"True", "False"} /\ r.prev \in P
  BY DEF Totals
<1>1. CASE k = "blank"
  <2>1. q = r
    BY <1>1 DEF Step
  <2> QED
    BY <1>0, <1>1, <2>1 DEF RowKinds, Totals, Added
<1>2. CASE k \in {"scrap", "scalar"}
  <2>1. q = Rec("False", r.rows, r.breaks + 1, r.prechain, r.declared, r.chained, r.prev)
    BY <1>0, <1>2 DEF Step
  <2> QED
    BY <1>0, <1>2, <2>1 DEF RowKinds, Totals, Added
<1>3. CASE k = "poison"
  <2>1. q = Rec("False", r.rows + 1, r.breaks + 1, r.prechain, r.declared, r.chained + 1, VoidChain)
    BY <1>0, <1>3 DEF Step
  <2> QED
    BY <1>0, <1>3, <2>1 DEF RowKinds, Totals, Added
<1>4. CASE k = "bare" /\ r.chained = 0
  <2>1. CASE s = TRUE
    <3>1. q = Rec("False", r.rows + 1, r.breaks + 1, r.prechain + 1, r.declared, r.chained, r.prev)
      BY <1>0, <1>4, <2>1 DEF Step
    <3> QED
      BY <1>0, <1>4, <2>1, <3>1 DEF RowKinds, Totals, Added
  <2>2. CASE s = FALSE
    <3>1. q = Rec(r.ok, r.rows + 1, r.breaks, r.prechain + 1, r.declared, r.chained, r.prev)
      BY <1>0, <1>4, <2>2 DEF Step
    <3> QED
      BY <1>0, <1>4, <2>2, <3>1 DEF RowKinds, Totals, Added
  <2> QED
    BY <2>1, <2>2
<1>5. CASE k = "bare" /\ r.chained # 0 /\ e
  <2>1. q = Rec(r.ok, r.rows + 1, r.breaks, r.prechain, r.declared + 1, r.chained,
                Body(f, D[i]).resume)
    BY <1>0, <1>5 DEF Step, Excuses
  <2> QED
    BY <1>0, <1>5, <2>1 DEF RowKinds, Totals, Added
<1>6. CASE k = "bare" /\ r.chained # 0 /\ ~e
  <2>1. q = Rec("False", r.rows + 1, r.breaks + 1, r.prechain, r.declared, r.chained, r.prev)
    BY <1>0, <1>6 DEF Step, Excuses
  <2> QED
    BY <1>0, <1>6, <2>1 DEF RowKinds, Totals, Added
<1>7. CASE k = "link"
  <2>1. CASE ~Off
    <3>1. q = Rec(r.ok, r.rows + 1, r.breaks, r.prechain, r.declared, r.chained + 1, claimed)
      BY <1>0, <1>7, <2>1 DEF Step
    <3> QED
      BY <1>0, <1>7, <2>1, <3>1 DEF RowKinds, Totals, Added
  <2>2. CASE Off /\ e
    <3>1. q = Rec(r.ok, r.rows + 1, r.breaks, r.prechain, r.declared + 1, r.chained + 1, claimed)
      BY <1>0, <1>7, <2>2 DEF Step, Excuses
    <3> QED
      BY <1>0, <1>7, <2>2, <3>1 DEF RowKinds, Totals, Added
  <2>3. CASE Off /\ ~e
    <3>1. q = Rec("False", r.rows + 1, r.breaks + 1, r.prechain, r.declared, r.chained + 1, claimed)
      BY <1>0, <1>7, <2>3 DEF Step, Excuses
    <3> QED
      BY <1>0, <1>7, <2>3, <3>1 DEF RowKinds, Totals, Added
  <2> QED
    BY <2>1, <2>2, <2>3
<1>8. CASE k = "twin"
  <2>1. CASE ~Off
    <3>1. q = Rec("False", r.rows + 1, r.breaks + 1, r.prechain, r.declared, r.chained + 1, claimed)
      BY <1>0, <1>8, <2>1 DEF Step
    <3> QED
      BY <1>0, <1>8, <2>1, <3>1 DEF RowKinds, Totals, Added
  <2>2. CASE Off /\ e
    <3>1. q = Rec("False", r.rows + 1, r.breaks + 1, r.prechain, r.declared + 1, r.chained + 1,
                  claimed)
      BY <1>0, <1>8, <2>2 DEF Step, Excuses
    <3> QED
      BY <1>0, <1>8, <2>2, <3>1 DEF RowKinds, Totals, Added
  <2>3. CASE Off /\ ~e
    <3>1. q = Rec("False", r.rows + 1, (r.breaks + 1) + 1, r.prechain, r.declared,
                  r.chained + 1, claimed)
      BY <1>0, <1>8, <2>3 DEF Step, Excuses
    <3> QED
      BY <1>0, <1>8, <2>3, <3>1 DEF RowKinds, Totals, Added
  <2> QED
    BY <2>1, <2>2, <2>3
<1> QED
  BY <1>1, <1>2, <1>3, <1>4, <1>5, <1>6, <1>7, <1>8 DEF Kinds

\* How many of the first n numbers are in T.
Up(T, n) == Cardinality(T \cap (1..n))

\* Counting up to a line is counting up to the line before it, and that line.
LEMMA UpSteps ==
  ASSUME NEW T, NEW n \in Nat
  PROVE  /\ Up(T, n) \in Nat
         /\ Up(T, 0) = 0
         /\ Up(T, n+1) = Up(T, n) + IF n+1 \in T THEN 1 ELSE 0
<1>1. T \cap (1..n) \in SUBSET (1..n)
  OBVIOUS
<1>2. IsFiniteSet(T \cap (1..n)) /\ Up(T, n) \in Nat
  BY <1>1, Counted DEF Up
<1>3. Up(T, 0) = 0
  <2>1. T \cap (1..0) = {}
    OBVIOUS
  <2> QED
    BY <2>1, FS_EmptySet DEF Up
<1>4. CASE n+1 \in T
  <2>1. T \cap (1..n+1) = (T \cap (1..n)) \cup {n+1} /\ n+1 \notin T \cap (1..n)
    BY <1>4
  <2> QED
    BY <1>2, <1>3, <1>4, <2>1, FS_AddElement DEF Up
<1>5. CASE n+1 \notin T
  <2>1. T \cap (1..n+1) = T \cap (1..n)
    BY <1>5
  <2> QED
    BY <1>2, <1>3, <1>5, <2>1 DEF Up
<1> QED
  BY <1>4, <1>5

\* The last line that set prev, one line further.
LEMMA PrevSteps ==
  ASSUME NEW f, NEW s, NEW i \in Nat \ {0}
  PROVE  Prev(f, i+1, s) = IF Sets(f, i, s) THEN SetTo(f, i) ELSE Prev(f, i, s)
<1> DEFINE L(n, j) == LastSetter(f, n, j, s)
<1>0. \A j : L(i, j) => j \in 1..i-1
  BY DEF LastSetter
<1>1. CASE Sets(f, i, s)
  <2>1. L(i+1, i)
    BY <1>1 DEF LastSetter
  <2>2. \A j : L(i+1, j) => j = i
    BY <1>1 DEF LastSetter
  <2>3. (CHOOSE j \in 1..i : L(i+1, j)) = i
    <3> HIDE DEF L
    <3> QED
      BY <2>1, <2>2
  <2>4. i+1-1 = i /\ \E j \in 1..i : L(i+1, j)
    <3> HIDE DEF L
    <3> QED
      BY <2>1
  <2>5. Prev(f, i+1, s) = SetTo(f, CHOOSE j \in 1..i : L(i+1, j))
    BY <2>4 DEF Prev
  <2> QED
    BY <1>1, <2>3, <2>5
<1>2. CASE ~Sets(f, i, s)
  <2>1. ASSUME NEW j PROVE L(i+1, j) <=> L(i, j)
    <3>1. CASE L(i+1, j)
      <4>1. j \in 1..i /\ j # i
        BY <1>2, <3>1 DEF LastSetter
      <4> QED
        BY <3>1, <4>1 DEF LastSetter
    <3>2. CASE L(i, j)
      <4>1. j \in 1..i-1 /\ Sets(f, j, s) /\ \A k \in j+1..i-1 : ~Sets(f, k, s)
        BY <3>2 DEF LastSetter
      <4>2. \A k \in j+1..i : k = i \/ k \in j+1..i-1
        BY <4>1
      <4>3. i+1-1 = i /\ j \in 1..i
        BY <4>1
      <4> QED
        BY <1>2, <4>1, <4>2, <4>3 DEF LastSetter
    <3> QED
      BY <3>1, <3>2
  <2>2. i+1-1 = i
    OBVIOUS
  <2>3. CASE \E j \in 1..i-1 : L(i, j)
    <3> DEFINE c == CHOOSE j \in 1..i-1 : L(i, j)
               d == CHOOSE j \in 1..i : L(i+1, j)
    <3>1. c \in 1..i-1 /\ L(i, c)
      <4> HIDE DEF L
      <4> QED
        BY <2>3
    <3>2. d \in 1..i /\ L(i+1, d)
      <4> HIDE DEF L, c
      <4>1. c \in 1..i /\ L(i+1, c)
        BY <2>1, <3>1
      <4> QED
        BY <4>1
    <3>3. L(i, d)
      BY <2>1, <3>2
    <3>4. c = d
      <4> HIDE DEF c, d
      <4> QED
        BY <3>1, <3>3 DEF LastSetter
    <3>5. \E j \in 1..i : L(i+1, j)
      BY <3>2
    <3>6. Prev(f, i+1, s) = SetTo(f, d)
      BY <2>2, <3>5 DEF Prev
    <3>7. Prev(f, i, s) = SetTo(f, c)
      BY <2>3 DEF Prev
    <3> HIDE DEF c, d
    <3> QED
      BY <1>2, <3>4, <3>6, <3>7
  <2>4. CASE ~ \E j \in 1..i-1 : L(i, j)
    <3>1. ~ \E j \in 1..i : L(i+1, j)
      <4> HIDE DEF L
      <4> QED
        BY <1>0, <2>1, <2>4
    <3> QED
      BY <1>2, <2>2, <2>4, <3>1 DEF Prev
  <2> QED
    BY <2>3, <2>4
<1> QED
  BY <1>1, <1>2

\* What the scan found for a line is what excuses it.
LEMMA ScanExcuses ==
  ASSUME NEW f, Len(f) \in Nat, NEW i \in 1..Len(f)
  PROVE  /\ Excuses(f, Scan(f), i) <=> Excused(f, i)
         /\ Excused(f, i) => Body(f, Scan(f)[i]).resume = Resume(f, i)
<1> DEFINE c == Scan(f)[i]
           P(d) == d \in 1..Len(f) /\ Declares(f, d, i)
           e == CHOOSE d \in 1..Len(f) : Declares(f, d, i)
<1>1. \A d, g : P(d) /\ P(g) => d = g
  BY DEF Declares
<1>2. (c = 0 /\ ~(\E d : P(d))) \/ (c # 0 /\ P(c))
  <2>1. \/ Scan(f)[i] = 0 /\ ~ \E d \in 1..Len(f) : Declares(f, d, i)
        \/ Scan(f)[i] \in 1..Len(f) /\ Declares(f, Scan(f)[i], i)
    BY ScanIs
  <2>2. PICK v : v = Scan(f)[i]
    OBVIOUS
  <2>3. \/ v = 0 /\ ~ \E d \in 1..Len(f) : Declares(f, d, i)
        \/ v # 0 /\ v \in 1..Len(f) /\ Declares(f, v, i)
    BY <2>1, <2>2
  <2>4. (v = 0 /\ ~(\E d : P(d))) \/ (v # 0 /\ P(v))
    BY <2>3
  <2>5. v = c
    BY <2>2
  <2> HIDE DEF P, c
  <2> QED
    BY <2>4, <2>5
<1>3. P(c) => e = c
  <2> SUFFICES ASSUME P(c) PROVE e = c
    OBVIOUS
  <2>1. P(e)
    BY Zenon
  <2> HIDE DEF P, c, e
  <2> QED
    BY <1>1, <2>1
<1>4. Excused(f, i) <=> \E d : P(d) /\ Body(f, d).pin = f[i]
  BY DEF Excused
<1>5. Resume(f, i) = Body(f, e).resume
  BY DEF Resume
<1>6. Excuses(f, Scan(f), i) <=> c # 0 /\ Body(f, c).pin = f[i]
  BY DEF Excuses
<1>7. Scan(f)[i] = c
  OBVIOUS
<1> HIDE DEF P, c, e
<1> QED
  BY <1>1, <1>2, <1>3, <1>4, <1>5, <1>6, <1>7

\* The walk is a run of Step over the lines.
LEMMA WalkRuns ==
  ASSUME NEW f, Len(f) \in Nat, NEW s \in BOOLEAN,
         \A i \in 1..Len(f) : Kind(f[i]) \in Kinds
  PROVE  \E P, w : /\ w[0] = Started /\ Walk(f, s) = w[Len(f)]
                   /\ \A i \in 0..Len(f) : w[i] \in Totals(P)
                   /\ \A i \in 1..Len(f) : w[i] = Step(f, Scan(f), s, w[i-1], i)
<1> PICK N \in Nat : N = Len(f)
  OBVIOUS
<1> DEFINE P == {Genesis, VoidChain} \cup {Claimed(f, i) : i \in 1..N}
                \cup {Body(f, Scan(f)[i]).resume : i \in 1..N}
           Vs == Totals(P)
           After(i, r) == Step(f, Scan(f), s, r, i)
           h == [i \in 1..N |-> [r \in Vs |-> After(i, r)]]
           Is(w) == w = [i \in 0..N |-> IF i = 0 THEN Started ELSE After(i, w[i-1])]
<1>1. Started \in Vs
  BY DEF Started, Totals
<1>2. ASSUME NEW i \in 1..N, NEW r \in Vs
      PROVE  After(i, r) \in Vs
  <2> DEFINE q == After(i, r)
             D == Scan(f)
  <2>1. Kind(f[i]) \in Kinds
    OBVIOUS
  <2>2. q \in Totals(P \cup {VoidChain, Claimed(f, i), Body(f, D[i]).resume})
    <3> HIDE DEF P
    <3>1. Added(f, D, s, i, P, r, q)
      BY <2>1, StepAdds
    <3> QED
      BY <3>1 DEF Added
  <2>3. P \cup {VoidChain, Claimed(f, i), Body(f, D[i]).resume} = P
    OBVIOUS
  <2> QED
    BY <2>2, <2>3
<1>3. \E w : Is(w)
  <2> HIDE DEF Vs, After
  <2>1. h \in [1..N -> [Vs -> Vs]]
    BY <1>2
  <2>2. \A i \in 1..N, r \in Vs : h[i][r] = After(i, r)
    OBVIOUS
  <2> HIDE DEF h
  <2>3. \E w : Recursion(w, Vs, N, Started, h)
    BY <1>1, <2>1, RecursionExists
  <2>4. PICK w \in [0..N -> Vs] : w[0] = Started /\ \A i \in 1..N : w[i] = h[i][w[i-1]]
    BY <2>3 DEF Recursion
  <2>5. \A i \in 0..N : w[i] = IF i = 0 THEN Started ELSE After(i, w[i-1])
    BY <2>2, <2>4
  <2>6. Is(w)
    BY <2>4, <2>5
  <2> QED
    BY <2>6
<1>4. PICK w : Is(w) /\ Walk(f, s) = w[N]
  <2> DEFINE c == CHOOSE w : Is(w)
  <2>1. Is(c)
    BY <1>3, Zenon
  <2>2. Walk(f, s) = c[N]
    BY DEF Walk
  <2> HIDE DEF c
  <2> QED
    BY <2>1, <2>2
<1>5. w[0] = Started /\ \A i \in 1..N : w[i] = After(i, w[i-1])
  <2> HIDE DEF After
  <2> QED
    BY <1>4
<1> DEFINE S == {i \in 0..N : w[i] \in Vs}
<1>6. \A i \in 0..N : i \in S
  <2> HIDE DEF Vs, After
  <2>1. 0 \in S
    BY <1>1, <1>5
  <2>2. \A i \in 1..N : i-1 \in S => i \in S
    BY <1>2, <1>5
  <2> HIDE DEF S
  <2> QED
    BY <2>1, <2>2, StepByStep
<1> HIDE DEF P
<1> QED
  BY <1>4, <1>5, <1>6

\* What the totals are after i lines, in the terms of VerifyFile.
Tallied(f, s, r, i) ==
  /\ r.rows = Up({j \in 1..Len(f) : IsRow(f, j)}, i)
  /\ r.breaks = Up({j \in 1..Len(f) : Broken(f, j, s)}, i)
                + Up({j \in 1..Len(f) : Kind(f[j]) = "twin"}, i)
  /\ r.prechain = Up({j \in 1..Len(f) : Kind(f[j]) = "bare" /\ ~Begun(f, j)}, i)
  /\ r.declared = Up({j \in 1..Len(f) : Declarable(f, j, s) /\ ExcusedIn(f, j, s)}, i)
  /\ r.chained = Up({j \in 1..Len(f) : Chained(f, j)}, i)
  /\ r.ok = (IF r.breaks > 0 THEN "False" ELSE "True")
  /\ r.prev = Prev(f, i+1, s)

\* The chain has begun at a line exactly when a chained line was counted above it.
LEMMA BegunCounts ==
  ASSUME NEW f, Len(f) \in Nat, NEW i \in 1..Len(f)
  PROVE  Begun(f, i) <=> Up({j \in 1..Len(f) : Chained(f, j)}, i-1) # 0
<1> PICK N \in Nat : N = Len(f)
  OBVIOUS
<1> DEFINE T == {j \in 1..N : Chained(f, j)} \cap (1..i-1)
<1>1. T \in SUBSET (1..i-1) /\ i-1 \in Nat
  OBVIOUS
<1>2. IsFiniteSet(T)
  BY <1>1, Counted
<1>3. Cardinality(T) = 0 <=> T = {}
  BY <1>2, FS_EmptySet
<1>4. Begun(f, i) <=> T # {}
  BY DEF Begun
<1>5. Up({j \in 1..Len(f) : Chained(f, j)}, i-1) = Cardinality(T)
  BY DEF Up
<1> HIDE DEF T
<1> QED
  BY <1>3, <1>4, <1>5

\* A line is judged the same with the totals as by what the lines before it say.
LEMMA TalliedStep ==
  ASSUME NEW f, Len(f) \in Nat, NEW s \in BOOLEAN, NEW i \in 1..Len(f), NEW P,
         NEW r \in Totals(P), Kind(f[i]) \in Kinds, Tallied(f, s, r, i-1)
  PROVE  Tallied(f, s, Step(f, Scan(f), s, r, i), i)
<1> DEFINE q == Step(f, Scan(f), s, r, i)
           k == Kind(f[i])
           e == s = FALSE /\ Excuses(f, Scan(f), i)
           stray == k = "bare" /\ r.chained # 0
           off == k \in {"link", "twin"} /\ Claimed(f, i) # Hash(r.prev, Body(f, i))
           bad == \/ k \in {"scrap", "scalar", "poison"}
                  \/ k = "bare" /\ r.chained = 0 /\ s = TRUE
                  \/ (stray \/ off) /\ ~e
<1>1. /\ q.ok = (IF bad \/ k = "twin" THEN "False" ELSE r.ok)
      /\ q.rows = r.rows + (IF k \in RowKinds THEN 1 ELSE 0)
      /\ q.breaks = r.breaks + (IF bad THEN 1 ELSE 0) + (IF k = "twin" THEN 1 ELSE 0)
      /\ q.prechain = r.prechain + (IF k = "bare" /\ r.chained = 0 THEN 1 ELSE 0)
      /\ q.declared = r.declared + (IF (stray \/ off) /\ e THEN 1 ELSE 0)
      /\ q.chained = r.chained + (IF k \in {"link", "twin", "poison"} THEN 1 ELSE 0)
      /\ q.prev = CASE k \in {"link", "twin"} -> Claimed(f, i)
                    [] k = "poison" -> VoidChain
                    [] k = "bare" -> IF stray /\ e THEN Body(f, Scan(f)[i]).resume ELSE r.prev
                    [] k \in {"blank", "scrap", "scalar"} -> r.prev
  <2>1. Added(f, Scan(f), s, i, P, r, q)
    BY StepAdds
  <2> QED
    BY <2>1, Zenon DEF Added
<1> DEFINE RowsT == {j \in 1..Len(f) : IsRow(f, j)}
           BrokenT == {j \in 1..Len(f) : Broken(f, j, s)}
           TwinT == {j \in 1..Len(f) : Kind(f[j]) = "twin"}
           PreT == {j \in 1..Len(f) : Kind(f[j]) = "bare" /\ ~Begun(f, j)}
           DecT == {j \in 1..Len(f) : Declarable(f, j, s) /\ ExcusedIn(f, j, s)}
           ChainedT == {j \in 1..Len(f) : Chained(f, j)}
<1>2. /\ r.rows = Up(RowsT, i-1) /\ r.breaks = Up(BrokenT, i-1) + Up(TwinT, i-1)
      /\ r.prechain = Up(PreT, i-1) /\ r.declared = Up(DecT, i-1)
      /\ r.chained = Up(ChainedT, i-1)
      /\ r.ok = (IF r.breaks > 0 THEN "False" ELSE "True")
      /\ r.prev = Prev(f, i, s)
  <2>1. i-1+1 = i
    OBVIOUS
  <2> QED
    BY <2>1 DEF Tallied
<1>3. \A T : /\ Up(T, i-1) \in Nat /\ Up(T, i) \in Nat
             /\ Up(T, i) = Up(T, i-1) + (IF i \in T THEN 1 ELSE 0)
  <2> SUFFICES ASSUME NEW T
               PROVE  /\ Up(T, i-1) \in Nat /\ Up(T, i) \in Nat
                      /\ Up(T, i) = Up(T, i-1) + (IF i \in T THEN 1 ELSE 0)
    OBVIOUS
  <2> PICK m \in Nat : m = i-1
    OBVIOUS
  <2>1. i = m+1
    OBVIOUS
  <2>2. /\ Up(T, m) \in Nat
        /\ Up(T, m+1) = Up(T, m) + (IF m+1 \in T THEN 1 ELSE 0)
    BY UpSteps
  <2> QED
    BY <2>1, <2>2
<1>4. r.chained # 0 <=> Begun(f, i)
  BY <1>2, BegunCounts
<1>5. e <=> ExcusedIn(f, i, s)
  <2>1. s = FALSE <=> ~s
    OBVIOUS
  <2>2. Excuses(f, Scan(f), i) <=> Excused(f, i)
    BY ScanExcuses
  <2> QED
    BY <2>1, <2>2, Zenon DEF ExcusedIn
<1>6. off <=> Mismatch(f, i, s)
  BY <1>2 DEF Mismatch
<1>7. stray <=> (k = "bare" /\ Begun(f, i))
  BY <1>4
<1>8. Stray(f, i, s) <=> (k = "bare" /\ (Begun(f, i) \/ s = TRUE))
  <2>1. s <=> s = TRUE
    OBVIOUS
  <2> QED
    BY <2>1, Zenon DEF Stray
<1>9. e => s = FALSE
  OBVIOUS
<1>10. (s = TRUE \/ s = FALSE) /\ ~(s = TRUE /\ s = FALSE)
  OBVIOUS
<1>11. i \in BrokenT <=> bad
  <2>1. i \in BrokenT <=> Broken(f, i, s)
    OBVIOUS
  <2>2. Broken(f, i, s) <=> \/ k \in {"scrap", "scalar", "poison"}
                            \/ /\ Stray(f, i, s) \/ Mismatch(f, i, s)
                               /\ ~ExcusedIn(f, i, s)
    BY DEF Broken, Declarable
  <2>3. k = "bare" => ~(k \in {"scrap", "scalar", "poison"})
    OBVIOUS
  <2>4. r.chained = 0 <=> ~Begun(f, i)
    BY <1>4
  <2> HIDE DEF BrokenT, k, e, off
  <2> QED
    BY <2>1, <2>2, <2>4, <1>5, <1>6, <1>8, <1>9, <1>10 DEF e
<1>12. i \in DecT <=> (stray \/ off) /\ e
  <2>1. i \in DecT <=> Declarable(f, i, s) /\ ExcusedIn(f, i, s)
    OBVIOUS
  <2> HIDE DEF DecT, k, e, off, stray
  <2> QED
    BY <2>1, <1>5, <1>6, <1>7, <1>8, <1>9, <1>10 DEF Declarable
<1>13. /\ i \in RowsT <=> k \in RowKinds
       /\ i \in TwinT <=> k = "twin"
       /\ i \in PreT <=> k = "bare" /\ r.chained = 0
       /\ i \in ChainedT <=> k \in {"link", "twin", "poison"}
  BY <1>4 DEF IsRow, Chained
<1>14. q.prev = Prev(f, i+1, s)
  <2>1. Prev(f, i+1, s) = IF Sets(f, i, s) THEN SetTo(f, i) ELSE Prev(f, i, s)
    <3>1. i \in Nat \ {0}
      OBVIOUS
    <3> QED
      BY <3>1, PrevSteps, Zenon
  <2>2. CASE k \in {"link", "twin"}
    <3>1. Sets(f, i, s) /\ SetTo(f, i) = Claimed(f, i)
      BY <2>2 DEF Sets, Chained, SetTo
    <3> QED
      BY <1>1, <2>1, <2>2, <3>1
  <2>3. CASE k = "poison"
    <3>1. Sets(f, i, s) /\ SetTo(f, i) = VoidChain
      BY <2>3 DEF Sets, Chained, SetTo
    <3> QED
      BY <1>1, <2>1, <2>3, <3>1
  <2>4. CASE k = "bare" /\ stray /\ e
    <3>1. Sets(f, i, s) /\ SetTo(f, i) = Resume(f, i)
      BY <2>4, <1>5, <1>7 DEF Sets, Chained, SetTo
    <3>2. Excused(f, i)
      BY <2>4, ScanExcuses
    <3>3. Body(f, Scan(f)[i]).resume = Resume(f, i)
      BY <3>2, ScanExcuses
    <3>4. q.prev = Body(f, Scan(f)[i]).resume
      BY <1>1, <2>4
    <3> QED
      BY <2>1, <3>1, <3>3, <3>4, Zenon
  <2>5. CASE k = "bare" /\ ~(stray /\ e)
    <3>1. ~Sets(f, i, s)
      BY <2>5, <1>5, <1>7 DEF Sets, Chained
    <3>2. q.prev = r.prev
      BY <1>1, <2>5
    <3> QED
      BY <1>2, <2>1, <3>1, <3>2
  <2>6. CASE k \in {"blank", "scrap", "scalar"}
    <3>1. ~Sets(f, i, s)
      BY <2>6 DEF Sets, Chained
    <3>2. q.prev = r.prev
      BY <1>1, <2>6
    <3> QED
      BY <1>2, <2>1, <3>1, <3>2
  <2> QED
    BY <2>2, <2>3, <2>4, <2>5, <2>6 DEF Kinds
<1>15. /\ q.rows = Up(RowsT, i)
       /\ q.prechain = Up(PreT, i)
       /\ q.declared = Up(DecT, i)
       /\ q.chained = Up(ChainedT, i)
  <2> HIDE DEF q, RowsT, PreT, DecT, ChainedT, k, stray, off, e
  <2> QED
    BY <1>1, <1>2, <1>3, <1>12, <1>13
<1>16. q.breaks = Up(BrokenT, i) + Up(TwinT, i)
  <2>1. q.breaks = r.breaks + (IF bad THEN 1 ELSE 0) + (IF k = "twin" THEN 1 ELSE 0)
    BY <1>1, Zenon
  <2>2. /\ r.breaks = Up(BrokenT, i-1) + Up(TwinT, i-1)
        /\ Up(BrokenT, i-1) \in Nat /\ Up(TwinT, i-1) \in Nat
        /\ Up(BrokenT, i) = Up(BrokenT, i-1) + (IF i \in BrokenT THEN 1 ELSE 0)
        /\ Up(TwinT, i) = Up(TwinT, i-1) + (IF i \in TwinT THEN 1 ELSE 0)
    BY <1>2, <1>3, Zenon
  <2>3. (i \in BrokenT <=> bad) /\ (i \in TwinT <=> k = "twin")
    BY <1>11, <1>13, Zenon
  <2> HIDE DEF q, BrokenT, TwinT, k, bad
  <2> QED
    BY <2>1, <2>2, <2>3
<1>17. q.ok = (IF q.breaks > 0 THEN "False" ELSE "True")
  <2>1. r.breaks \in Nat
    BY DEF Totals
  <2> HIDE DEF q, k, bad
  <2> QED
    BY <1>1, <1>2, <2>1
<1>18. Tallied(f, s, q, i)
  <2> HIDE DEF q
  <2> QED
    BY <1>14, <1>15, <1>16, <1>17, Zenon DEF Tallied
<1> QED
  BY <1>18, Zenon

\* The one pass over the lines computes what the closed form says.
LEMMA WalkIsVerify ==
  ASSUME NEW f, Len(f) \in Nat, NEW s \in BOOLEAN,
         \A i \in 1..Len(f) : Kind(f[i]) \in Kinds, f = <<>> <=> Len(f) = 0
  PROVE  VerifyFile(f, s) = VerifyWalk(f, s)
<1> PICK N \in Nat : N = Len(f)
  OBVIOUS
<1>1. PICK P, w : /\ w[0] = Started /\ Walk(f, s) = w[N]
                  /\ \A i \in 0..N : w[i] \in Totals(P)
                  /\ \A i \in 1..N : w[i] = Step(f, Scan(f), s, w[i-1], i)
  BY WalkRuns
<1> DEFINE S == {i \in 0..N : Tallied(f, s, w[i], i)}
           r == w[N]
<1>2. 0 \in S
  <2>1. \A T : Up(T, 0) = 0
    BY UpSteps
  <2>2. Prev(f, 1, s) = Genesis
    <3>1. ~ \E j \in 1..1-1 : LastSetter(f, 1, j, s)
      BY DEF LastSetter
    <3> QED
      BY <3>1 DEF Prev
  <2> QED
    BY <1>1, <2>1, <2>2 DEF Tallied, Started
<1>3. ASSUME NEW i \in 1..N, i-1 \in S
      PROVE  i \in S
  <2>1. w[i-1] \in Totals(P) /\ Tallied(f, s, w[i-1], i-1)
    BY <1>1, <1>3
  <2>2. Tallied(f, s, Step(f, Scan(f), s, w[i-1], i), i)
    BY <2>1, TalliedStep
  <2> QED
    BY <1>1, <2>2
<1>4. Tallied(f, s, r, N)
  <2> HIDE DEF S
  <2>1. \A i \in 0..N : i \in S
    BY <1>2, <1>3, StepByStep
  <2>2. N \in S
    BY <2>1
  <2> QED
    BY <2>2 DEF S
<1>5. \A T \in SUBSET (1..N) : Up(T, N) = Cardinality(T) /\ Cardinality(T) \in Nat
  <2>1. \A T \in SUBSET (1..N) : T \cap (1..N) = T
    OBVIOUS
  <2> QED
    BY <2>1, Counted DEF Up
<1>6. CASE f = <<>>
  <2>1. N = 0 /\ \A T : Up(T, 0) = 0
    BY <1>6, UpSteps
  <2>2. Prechain(f) = 0 /\ DeclaredBreaks(f, s) = 0 /\ RowCount(f) = 0
    BY <1>5, <2>1 DEF Prechain, DeclaredBreaks, RowCount, Lines
  <2>3. Breaks(f, s) = 1
    BY <1>6 DEF Breaks
  <2>4. Ok(f, s) = "False"
    BY <2>3 DEF Ok
  <2> QED
    BY <1>6, <2>2, <2>3, <2>4 DEF VerifyFile, VerifyWalk
<1>7. CASE f # <<>>
  <2>1. /\ r.rows = RowCount(f)
        /\ r.prechain = Prechain(f)
        /\ r.declared = DeclaredBreaks(f, s)
    BY <1>4, <1>5 DEF Tallied, RowCount, Prechain, DeclaredBreaks, Lines
  <2>2. r.breaks = Breaks(f, s)
    <3>1. Breaks(f, s) = Cardinality({i \in 1..Len(f) : Broken(f, i, s)})
                         + Cardinality({i \in 1..Len(f) : Kind(f[i]) = "twin"})
      BY <1>7 DEF Breaks, Lines
    <3> QED
      BY <1>4, <1>5, <3>1 DEF Tallied
  <2>3. r.ok = (IF r.breaks > 0 THEN "False" ELSE "True")
    BY <1>4 DEF Tallied
  <2> DEFINE bounded == ~s /\ r.prechain + r.declared > 0
             ok == IF r.ok = "True" /\ (bounded \/ r.rows = 0) THEN "None" ELSE r.ok
  <2>4. Ok(f, s) = ok
    <3>1. ((~s /\ Prechain(f) + DeclaredBreaks(f, s) > 0) \/ RowCount(f) = 0)
          <=> (bounded \/ r.rows = 0)
      BY <2>1, Zenon
    <3> DEFINE b == bounded \/ r.rows = 0
    <3>2. Bounded(f, s) <=> b
      BY <3>1, Zenon DEF Bounded
    <3>3. Ok(f, s) = IF Breaks(f, s) > 0 THEN "False"
                     ELSE IF Bounded(f, s) THEN "None" ELSE "True"
      BY Zenon DEF Ok
    <3> HIDE DEF b
    <3>4. Ok(f, s) = IF r.ok = "True" /\ b THEN "None" ELSE r.ok
      BY <2>2, <2>3, <3>2, <3>3
    <3> QED
      BY <3>4 DEF b
  <2>5. VerifyWalk(f, s) = [ok |-> ok, rows |-> r.rows, breaks |-> r.breaks,
                            prechain |-> r.prechain, declared |-> r.declared]
    BY <1>1, <1>7, Zenon DEF VerifyWalk
  <2> HIDE DEF ok
  <2> QED
    BY <2>1, <2>2, <2>4, <2>5, Zenon DEF VerifyFile
<1> QED
  BY <1>6, <1>7

\* The one pass of verify_file reaches the declarative verdict over every
\* file that appends, declarations and damage can make.
THEOREM WalkAgreesHolds == Spec => []WalkAgrees
<1>1. ShapeInv => WalkAgrees
  <2> SUFFICES ASSUME ShapeInv, NEW s \in BOOLEAN
               PROVE  VerifyFile(file, s) = VerifyWalk(file, s)
    BY DEF WalkAgrees
  <2>1. PICK Bs, Cs : file \in Seq(Seq(WellFormed(Bs, Cs)))
    BY DEF ShapeInv, Shaped
  <2>2. WellFormed(Bs, Cs) \subseteq PiecesOver(Bs, Cs)
    BY DEF WellFormed
  <2>3. file \in Seq(Seq(PiecesOver(Bs, Cs)))
    BY <2>1, <2>2, SeqGrows
  <2>4. Len(file) \in Nat /\ (file = <<>> <=> Len(file) = 0)
    BY <2>3
  <2>5. \A i \in 1..Len(file) : Kind(file[i]) \in Kinds
    BY <2>3, KindIsKnown DEF PieceKinds, RowKinds, Kinds
  <2> QED
    BY <2>4, <2>5, WalkIsVerify
<1> QED
  BY <1>1, ShapeHolds, PTL

(***************************************************************************)
(* One step and the verdict before and after it.                           *)
(***************************************************************************)
\* Where a piece lands that is put to a file with a newline after it.
Landed(f, g, p, m) ==
  /\ m \in Nat /\ m # 0 /\ Len(g) = m + 1 /\ g[m+1] = <<>>
  /\ Len(f) \in {m-1, m} /\ \A k \in 1..m-1 : g[k] = f[k]
  /\ \/ g[m] = <<p>> /\ (Len(f) = m => f[m] = <<>>)
     \/ Len(f) = m /\ f[m] # <<>> /\ g[m] = f[m] \o <<p>>

FilledLast(o, x, y, m, g) ==
  /\ m \in Nat /\ m = Len(o) /\ m # 0
  /\ Len(g) = m + 1 /\ g[m+1] = y /\ g[m] = x
  /\ \A k \in 1..m-1 : g[k] = o[k]

\* A line put into the last place of a file and a line after it.
LEMMA LastFilled ==
  ASSUME NEW L, NEW o \in Seq(L), o # <<>>, NEW x \in L, NEW y \in L
  PROVE  FilledLast(o, x, y, Len(o), Append([o EXCEPT ![Len(o)] = x], y))
<1> PICK m \in Nat : m = Len(o)
  OBVIOUS
<1>1. m # 0
  OBVIOUS
<1> PICK e : e = [o EXCEPT ![m] = x]
  OBVIOUS
<1>2. e \in Seq(L) /\ Len(e) = m /\ e[m] = x /\ \A k \in 1..m : k # m => e[k] = o[k]
  BY <1>1
<1> PICK g : g = Append(e, y)
  OBVIOUS
<1>3. g \in Seq(L) /\ Len(g) = m + 1 /\ g[m+1] = y /\ \A k \in 1..m : g[k] = e[k]
  BY <1>2
<1>4. m \in 1..m /\ \A k \in 1..m-1 : k \in 1..m /\ k # m
  BY <1>1
<1>5. g[m] = x /\ \A k \in 1..m-1 : g[k] = o[k]
  BY <1>2, <1>3, <1>4
<1> QED
  BY <1>1, <1>3, <1>5 DEF FilledLast

\* Where a piece lands: on the last line, or on a line of its own.
LEMMA PutLands ==
  ASSUME NEW P, NEW f \in Seq(Seq(P)), NEW p \in P, NEW sep \in BOOLEAN,
         sep = TRUE => f # <<>>
  PROVE  \E m : /\ Landed(f, Put(f, sep, <<p>>, TRUE), p, m)
                /\ sep = TRUE => Put(f, sep, <<p>>, TRUE)[m] = <<p>>
<1> DEFINE L == Seq(P)
           g == Put(f, sep, <<p>>, TRUE)
           To(o) == Append([o EXCEPT ![Len(o)] = o[Len(o)] \o <<p>>], <<>>)
           Fits(o, m) == /\ m \in Nat /\ m = Len(o) /\ m # 0 /\ Len(g) = m + 1
                         /\ g[m+1] = <<>> /\ g[m] = o[m] \o <<p>>
                         /\ \A k \in 1..m-1 : g[k] = o[k]
<1>0. <<p>> \in L /\ <<>> \in L /\ f \in Seq(L)
  OBVIOUS
<1>p. <<>> \o <<p>> = <<p>>
  OBVIOUS
<1>1. ASSUME NEW o \in Seq(L), o # <<>>, g = To(o)
      PROVE  \E m : Fits(o, m)
  <2> PICK x : x = o[Len(o)] \o <<p>>
    OBVIOUS
  <2>1. x \in L
    <3>1. o[Len(o)] \in L
      BY <1>1
    <3> QED
      BY <1>0, <3>1
  <2> HIDE DEF L
  <2>2. FilledLast(o, x, <<>>, Len(o), Append([o EXCEPT ![Len(o)] = x], <<>>))
    BY <1>0, <1>1, <2>1, LastFilled
  <2>3. FilledLast(o, x, <<>>, Len(o), g)
    BY <1>1, <2>2
  <2> HIDE DEF g
  <2> QED
    BY <2>3 DEF FilledLast
<1> HIDE DEF L
<1>2. CASE f # <<>> /\ sep = TRUE
  <2> PICK o : o = Append(f, <<>>)
    OBVIOUS
  <2>1. g = To(o)
    BY <1>2 DEF Put, Opened
  <2>2. /\ o \in Seq(L) /\ Len(o) = Len(f) + 1 /\ Len(f) \in Nat
        /\ o[Len(f)+1] = <<>> /\ \A k \in 1..Len(f) : o[k] = f[k]
    <3> PICK y \in L : y = <<>>
      BY <1>0
    <3>1. o = Append(f, y)
      OBVIOUS
    <3>2. /\ Append(f, y) \in Seq(L) /\ Len(Append(f, y)) = Len(f) + 1 /\ Len(f) \in Nat
          /\ Append(f, y)[Len(f)+1] = y /\ \A k \in 1..Len(f) : Append(f, y)[k] = f[k]
      BY <1>0
    <3> QED
      BY <3>1, <3>2
  <2>o. o # <<>>
    BY <2>2
  <2> HIDE DEF To, g
  <2>3. PICK m : Fits(o, m)
    BY <1>1, <2>1, <2>2, <2>o
  <2> PICK n \in Nat : n = Len(f)
    BY <2>2
  <2>4. m = n + 1 /\ o[m] = <<>>
    BY <2>2, <2>3
  <2>5. g[m] = <<p>>
    BY <1>p, <2>3, <2>4
  <2>6. \A k \in 1..m-1 : g[k] = f[k]
    BY <2>2, <2>3, <2>4
  <2>7. m \in Nat /\ m # 0 /\ Len(g) = m + 1 /\ g[m+1] = <<>> /\ Len(f) = m - 1 /\ Len(f) # m
    BY <2>3, <2>4
  <2>8. Landed(f, g, p, m) /\ g[m] = <<p>>
    BY <2>5, <2>6, <2>7, Zenon DEF Landed
  <2> QED
    BY <2>8 DEF g
<1>3. CASE f # <<>> /\ sep = FALSE
  <2>1. g = To(f)
    BY <1>3 DEF Put, Opened
  <2> HIDE DEF To, g
  <2>2. PICK m : Fits(f, m)
    BY <1>0, <1>1, <1>3, <2>1
  <2>3. Len(f) = m /\ (f[m] = <<>> => g[m] = <<p>>)
    BY <1>p, <2>2
  <2>4. \A k \in 1..m-1 : g[k] = f[k]
    BY <2>2
  <2>5. Landed(f, g, p, m)
    BY <2>2, <2>3, <2>4 DEF Landed
  <2> QED
    BY <1>3, <2>5 DEF g
<1>4. CASE f = <<>>
  <2> PICK o : o = << <<>> >>
    OBVIOUS
  <2>1. g = To(o)
    BY <1>4 DEF Put, Opened
  <2>2. o \in Seq(L) /\ o # <<>> /\ Len(o) = 1 /\ o[1] = <<>> /\ Len(f) = 0
    BY <1>0, <1>4
  <2> HIDE DEF To, g
  <2>3. PICK m : Fits(o, m)
    BY <1>1, <2>1, <2>2
  <2>4. m = 1 /\ g[m] = <<p>>
    BY <1>p, <2>2, <2>3
  <2>5. Landed(f, g, p, m)
    BY <2>2, <2>3, <2>4 DEF Landed
  <2> QED
    BY <1>4, <2>5 DEF g
<1> QED
  BY <1>2, <1>3, <1>4

\* The library never writes to a line that holds something.
LEMMA AppendLands ==
  ASSUME NEW P, NEW f \in Seq(Seq(P)), NEW p \in P
  PROVE  \E m : /\ Landed(f, Put(f, ~EndsInNewline(f), <<p>>, TRUE), p, m)
                /\ Put(f, ~EndsInNewline(f), <<p>>, TRUE)[m] = <<p>>
<1> DEFINE g == Put(f, ~EndsInNewline(f), <<p>>, TRUE)
<1> PICK sep \in BOOLEAN : sep = (IF EndsInNewline(f) THEN FALSE ELSE TRUE)
  OBVIOUS
<1>1. g = Put(f, sep, <<p>>, TRUE)
  BY DEF Put
<1>2. sep = TRUE => f # <<>> /\ f[Len(f)] # <<>>
  BY DEF EndsInNewline
<1>3. PICK m : /\ Landed(f, Put(f, sep, <<p>>, TRUE), p, m)
               /\ sep = TRUE => Put(f, sep, <<p>>, TRUE)[m] = <<p>>
  BY <1>2, PutLands
<1>4. g[m] = <<p>>
  <2>1. CASE sep = TRUE
    BY <1>1, <1>3, <2>1
  <2>2. CASE sep = FALSE
    <3>1. Len(f) = m => f[m] = <<>>
      <4>1. f = <<>> \/ f[Len(f)] = <<>>
        BY <2>2 DEF EndsInNewline
      <4>2. m # 0
        BY <1>3, Zenon DEF Landed
      <4> QED
        BY <4>1, <4>2
    <3>2. \/ Put(f, sep, <<p>>, TRUE)[m] = <<p>>
          \/ Len(f) = m /\ f[m] # <<>>
      BY <1>3, Zenon DEF Landed
    <3> QED
      BY <1>1, <3>1, <3>2
  <2> QED
    BY <2>1, <2>2
<1> QED
  BY <1>1, <1>3, <1>4

\* The tail depends on which lines are rows and on the chains they claim.
LEMMA TailChainReads ==
  ASSUME NEW f, NEW g, NEW n \in Nat,
         \A k \in 1..n : /\ IsRow(f, k) <=> IsRow(g, k)
                         /\ IsRow(f, k) => Claimed(f, k) = Claimed(g, k)
  PROVE  TailChain(f, n) = TailChain(g, n)
<1>1. \A i \in 1..n : LastRowIs(f, i, n) <=> LastRowIs(g, i, n)
  BY DEF LastRowIs
<1>2. CASE \E i \in 1..n : LastRowIs(f, i, n)
  <2>1. PICK i \in 1..n : LastRowIs(f, i, n)
    BY <1>2
  <2>2. LastRowIs(g, i, n)
    BY <1>1, <2>1
  <2>3. Claimed(f, i) = Claimed(g, i)
    BY <2>1 DEF LastRowIs
  <2> QED
    BY <2>1, <2>2, <2>3, TailChainIs
<1>3. CASE ~ \E i \in 1..n : LastRowIs(f, i, n)
  BY <1>1, <1>3 DEF TailChain
<1> QED
  BY <1>2, <1>3

\* A clean and linked file is green as verify is run by default too.
LEMMA CleanIsGreenByDefault ==
  ASSUME NEW f, Len(f) \in Nat, Clean(f), Linked(f), RowCount(f) > 0
  PROVE  Ok(f, FALSE) = "True"
<1>1. f # <<>>
  <2> SUFFICES ASSUME f = <<>> PROVE FALSE
    OBVIOUS
  <2>1. {i \in 1..Len(f) : IsRow(f, i)} = {}
    OBVIOUS
  <2>2. RowCount(f) = 0
    BY <2>1, FS_EmptySet DEF RowCount, Lines
  <2> QED
    BY <2>2
<1>2. ASSUME NEW i \in 1..Len(f)
      PROVE  /\ ~Declarable(f, i, FALSE) /\ ~Broken(f, i, FALSE)
             /\ Kind(f[i]) \notin {"twin", "bare"}
  <2>1. Kind(f[i]) \in {"blank", "link"}
    BY DEF Clean
  <2>2. ~Mismatch(f, i, FALSE)
    <3>1. Prev(f, i, FALSE) = TailChain(f, i-1)
      BY PrevInCleanFile
    <3> QED
      BY <2>1, <3>1 DEF Mismatch, Linked
  <2> QED
    BY <2>1, <2>2 DEF Broken, Declarable, Stray
<1>3. /\ {i \in 1..Len(f) : Broken(f, i, FALSE)} = {}
      /\ {i \in 1..Len(f) : Kind(f[i]) = "twin"} = {}
      /\ {i \in 1..Len(f) : Kind(f[i]) = "bare" /\ ~Begun(f, i)} = {}
      /\ {i \in 1..Len(f) : Declarable(f, i, FALSE) /\ ExcusedIn(f, i, FALSE)} = {}
  BY <1>2
<1>4. Breaks(f, FALSE) = 0 /\ Prechain(f) = 0 /\ DeclaredBreaks(f, FALSE) = 0
  <2>1. Cardinality({}) = 0
    BY FS_EmptySet
  <2>2. Breaks(f, FALSE) = Cardinality({i \in 1..Len(f) : Broken(f, i, FALSE)})
                           + Cardinality({i \in 1..Len(f) : Kind(f[i]) = "twin"})
    BY <1>1, Zenon DEF Breaks, Lines
  <2>3. Prechain(f) = 0 /\ DeclaredBreaks(f, FALSE) = 0
    BY <1>3, <2>1, Zenon DEF Prechain, DeclaredBreaks, Lines
  <2>4. Breaks(f, FALSE) = 0 + 0
    BY <1>3, <2>1, <2>2, Zenon
  <2>5. 0 + 0 = 0
    OBVIOUS
  <2> QED
    BY <2>3, <2>4, <2>5, Zenon
<1>5. ~Bounded(f, FALSE)
  <2>1. ~(Prechain(f) + DeclaredBreaks(f, FALSE) > 0) /\ RowCount(f) # 0
    <3>1. ~(0 + 0 > 0) /\ RowCount(f) # 0
      BY CountIsLastNumber
    <3> QED
      BY <1>4, <3>1, Zenon
  <2> QED
    BY <2>1, Zenon DEF Bounded
<1>6. ~(Breaks(f, FALSE) > 0)
  <2>1. ~(0 > 0)
    OBVIOUS
  <2> QED
    BY <1>4, <2>1, Zenon
<1> QED
  BY <1>5, <1>6, Zenon DEF Ok

\* A line that was no part of a green log stays no part of one.
LEMMA GreenBefore ==
  ASSUME NEW Bs, NEW Cs, NEW f, NEW g \in Seq(Seq(PiecesOver(Bs, Cs))), NEW p, NEW m,
         NEW P, f \in Seq(Seq(P)),
         Landed(f, g, p, m), Ok(g, FALSE) = "True", RowCount(f) > 0
  PROVE  Ok(f, FALSE) = "True"
<1>0. /\ m \in Nat /\ m # 0 /\ Len(g) = m + 1
      /\ Len(f) \in {m-1, m} /\ \A k \in 1..m-1 : g[k] = f[k]
  BY Zenon DEF Landed
<1>1. Clean(g) /\ Linked(g) /\ Len(f) \in Nat
  <2>1. Clean(g) /\ Linked(g)
    BY GreenIsClean
  <2> QED
    BY <2>1
<1>2. g[m] = <<p>> /\ (Len(f) = m => f[m] = <<>>)
  <2> SUFFICES ASSUME Len(f) = m, f[m] # <<>>, g[m] = f[m] \o <<p>>
               PROVE  FALSE
    BY DEF Landed
  <2>1. m \in 1..Len(g) /\ f[m] \in Seq(P)
    BY <1>0
  <2>2. Kind(g[m]) \in {"blank", "link"}
    BY <1>1, <2>1 DEF Clean
  <2>3. g[m] \in Seq(PiecesOver(Bs, Cs)) /\ (g[m] = <<>> \/ Len(g[m]) = 1)
    BY <2>1, <2>2 DEF Kind
  <2>4. Len(f[m] \o <<p>>) = Len(f[m]) + 1 /\ Len(f[m]) \in Nat \ {0}
    <3>1. f[m] \in Seq(P \cup {p}) /\ <<p>> \in Seq(P \cup {p})
      BY <2>1
    <3> QED
      BY <3>1
  <2> QED
    BY <2>3, <2>4
<1>3. \A k \in 1..Len(f) : (f[k] = g[k] /\ k \in 1..Len(g)) \/ (f[k] = <<>> /\ k = m)
  BY <1>0, <1>2
<1>4. \A k \in 1..m-1 : k \in 1..Len(f) /\ f[k] = g[k]
  BY <1>0, <1>1
<1>5. Clean(f)
  BY <1>1, <1>3 DEF Clean, Kind
<1>6. Linked(f)
  <2> SUFFICES ASSUME NEW i \in 1..Len(f), Kind(f[i]) = "link"
               PROVE  Claimed(f, i) = Hash(TailChain(f, i-1), Body(f, i))
    BY DEF Linked
  <2>1. f[i] # <<>>
    BY DEF Kind
  <2>2. f[i] = g[i] /\ i \in 1..Len(g) /\ i \in 1..m-1
    BY <1>0, <1>2, <1>3, <2>1
  <2>3. TailChain(f, i-1) = TailChain(g, i-1)
    <3>1. ASSUME NEW k \in 1..i-1
          PROVE  f[k] = g[k]
      <4>1. k \in 1..m-1
        BY <1>0, <2>2
      <4> QED
        BY <1>4, <4>1
    <3> QED
      BY <3>1, TailChainIsLocal
  <2> QED
    BY <1>1, <2>2, <2>3 DEF Linked, Claimed, Body
<1> QED
  BY <1>1, <1>5, <1>6, CleanIsGreenByDefault

\* No append makes a log green that was not.
LEMMA NoRepair ==
  ASSUME Shaped(file), Shaped(file')
  PROVE  AppendingNeverRepairs
<1> SUFFICES ASSUME \/ \E b \in Content : Append1(b)
                    \/ \E i \in 1..Len(file) :
                          \E r \in {Genesis, TailChain(file, i-1)} : DeclareBreak(i, r)
                    \/ \E p \in ForeignPieces : ForeignAppend(p),
                    RowCount(file) > 0, Ok(file', FALSE) = "True"
             PROVE  Ok(file, FALSE) = "True"
  BY DEF AppendingNeverRepairs
<1> PICK g : g = file'
  OBVIOUS
<1>1. PICK Bs, Cs : file \in Seq(Seq(WellFormed(Bs, Cs)))
  BY DEF Shaped
<1>2. PICK D, E : g \in Seq(Seq(PiecesOver(D, E)))
  <2>1. PICK D, E : g \in Seq(Seq(WellFormed(D, E)))
    BY DEF Shaped
  <2>2. WellFormed(D, E) \subseteq PiecesOver(D, E)
    BY DEF WellFormed
  <2> QED
    BY <2>1, <2>2, SeqGrows
<1>3. \E p, m : Landed(file, g, p, m)
  <2>1. ASSUME NEW p, g = Put(file, FALSE, <<p>>, TRUE)
        PROVE  \E m : Landed(file, g, p, m)
    <3> DEFINE P == WellFormed(Bs, Cs) \cup {p}
    <3>1. WellFormed(Bs, Cs) \subseteq P /\ p \in P
      OBVIOUS
    <3> HIDE DEF P
    <3>2. file \in Seq(Seq(P))
      BY <1>1, <3>1, SeqGrows
    <3>3. \E m : Landed(file, Put(file, FALSE, <<p>>, TRUE), p, m)
      BY <3>1, <3>2, PutLands
    <3> QED
      BY <2>1, <3>3
  <2>2. ASSUME NEW b, g = LibraryAppend(b)
        PROVE  \E p, m : Landed(file, g, p, m)
    <3> PICK p : p = Row(b, LastChain(file))
      OBVIOUS
    <3> DEFINE P == WellFormed(Bs, Cs) \cup {p}
    <3>1. WellFormed(Bs, Cs) \subseteq P /\ p \in P
      OBVIOUS
    <3> HIDE DEF P
    <3>2. file \in Seq(Seq(P))
      BY <1>1, <3>1, SeqGrows
    <3>3. \E m : Landed(file, Put(file, ~EndsInNewline(file), <<p>>, TRUE), p, m)
      BY <3>1, <3>2, AppendLands
    <3>4. g = Put(file, ~EndsInNewline(file), <<p>>, TRUE)
      BY <2>2, Zenon DEF LibraryAppend
    <3> QED
      BY <3>3, <3>4
  <2>3. CASE \E b \in Content : Append1(b)
    BY <2>2, <2>3 DEF Append1
  <2>4. CASE \E i \in 1..Len(file) : \E r \in {Genesis, TailChain(file, i-1)} : DeclareBreak(i, r)
    BY <2>2, <2>4 DEF DeclareBreak
  <2>5. CASE \E p \in ForeignPieces : ForeignAppend(p)
    BY <2>1, <2>5 DEF ForeignAppend
  <2> QED
    BY <2>3, <2>4, <2>5
<1>4. PICK p, m : Landed(file, g, p, m)
  BY <1>3
<1>5. Ok(g, FALSE) = "True"
  OBVIOUS
<1> QED
  BY <1>1, <1>2, <1>4, <1>5, GreenBefore

(***************************************************************************)
(* One edit of a green log.                                                *)
(***************************************************************************)
LEMMA OneOf ==
  ASSUME NEW n \in Nat, NEW i \in 1..n, NEW S, NEW T, S \cup T = {i}, S \cap T = {}
  PROVE  Cardinality(S) + Cardinality(T) = 1
<1>1. Cardinality({}) = 0 /\ Cardinality({i}) = 1
  BY FS_EmptySet, FS_Singleton
<1>2. (S = {} /\ T = {i}) \/ (S = {i} /\ T = {})
  OBVIOUS
<1> QED
  BY <1>1, <1>2

\* An edit of a green log's row is one break, or one a declaration covers; never
\* none and never two.
LEMMA EditBreaksOne ==
  ASSUME Shaped(file), NEW i \in 1..Len(file), NEW b \in Content,
         EditRow(i, b), Ok(file, FALSE) = "True"
  PROVE  Breaks(file', FALSE) + DeclaredBreaks(file', FALSE) = 1
<1> PICK f : f = file
  OBVIOUS
<1> PICK g : g = file'
  OBVIOUS
<1>1. PICK Bs, Cs : f \in Seq(Seq(WellFormed(Bs, Cs))) /\ f \in Seq(Seq(PiecesOver(Bs, Cs)))
  <2>1. PICK Bs, Cs : f \in Seq(Seq(WellFormed(Bs, Cs)))
    BY DEF Shaped
  <2>2. WellFormed(Bs, Cs) \subseteq PiecesOver(Bs, Cs)
    BY DEF WellFormed
  <2> QED
    BY <2>1, <2>2, SeqGrows
<1>2. Clean(f) /\ Linked(f) /\ Len(f) \in Nat
  <2>1. Clean(f) /\ Linked(f)
    BY <1>1, GreenIsClean
  <2> QED
    BY <1>1, <2>1
<1>3. PICK p \in PiecesOver(Bs, Cs) : f[i] = <<p>> /\ p.kind = "link" /\ Kind(f[i]) = "link"
  <2>1. Kind(f[i]) = "link" /\ f[i] \in Seq(PiecesOver(Bs, Cs)) /\ f[i] # <<>>
    BY <1>1 DEF EditRow, Kind
  <2>2. Len(f[i]) = 1
    BY <2>1 DEF Kind
  <2>3. f[i][1] \in PiecesOver(Bs, Cs) /\ f[i] = <<f[i][1]>> /\ f[i][1].kind = "link"
    BY <2>1, <2>2 DEF Kind
  <2> QED
    BY <2>1, <2>3
<1>4. p = [kind |-> "link", body |-> p.body, chain |-> p.chain] /\ p.body # b
  BY <1>3 DEF PiecesOver, EditRow, Body
<1> PICK q : q = [kind |-> "link", body |-> b, chain |-> p.chain]
  OBVIOUS
<1>5. [p EXCEPT !.body = b] = q
  BY <1>4
<1>6. g = [f EXCEPT ![i] = <<q>>]
  <2>1. g = [f EXCEPT ![i] = <<[f[i][1] EXCEPT !.body = b]>>]
    BY DEF EditRow
  <2>2. f[i][1] = p
    BY <1>3
  <2> QED
    BY <1>5, <2>1, <2>2
<1>7. Len(g) = Len(f) /\ g # <<>> /\ g[i] = <<q>> /\ \A k \in 1..Len(f) : k # i => g[k] = f[k]
  <2> PICK L : L = Seq(PiecesOver(Bs, Cs)) \cup {<<q>>}
    OBVIOUS
  <2>1. \A k \in 1..Len(f) : f[k] \in L
    BY <1>1
  <2> QED
    BY <1>1, <1>6
<1>8. /\ \A k \in 1..Len(f) : Kind(g[k]) = Kind(f[k]) /\ Claimed(g, k) = Claimed(f, k)
      /\ \A k \in 1..Len(f) : k # i => Body(g, k) = Body(f, k)
      /\ Body(g, i) = b /\ Body(f, i) = p.body
  BY <1>3, <1>7 DEF Kind, Claimed, Body
<1>9. Clean(g)
  BY <1>2, <1>7, <1>8 DEF Clean
<1>10. ASSUME NEW k \in 1..Len(f)
       PROVE  TailChain(g, k-1) = TailChain(f, k-1)
  <2>1. \A j \in 1..k-1 : j \in 1..Len(f)
    BY <1>2
  <2>2. k-1 \in Nat
    OBVIOUS
  <2> QED
    BY <1>8, <2>1, <2>2, TailChainReads DEF IsRow
<1>11. Claimed(f, i) # Hash(TailChain(f, i-1), b)
  <2>1. Kind(f[i]) = "link"
    BY <1>3 DEF Kind
  <2>2. Claimed(f, i) = Append(TailChain(f, i-1), p.body)
    BY <1>2, <1>8, <2>1 DEF Linked, Hash
  <2>3. i-1 \in 0..Len(f)
    BY <1>2
  <2>4. TailChain(f, i-1) \in Seq({Body(f, k) : k \in 1..Len(f)})
    BY <1>2, <2>3, ChainSpells
  <2> PICK t : t = TailChain(f, i-1)
    OBVIOUS
  <2> PICK c : c = p.body
    OBVIOUS
  <2>5. Append(t, c) # Append(t, b)
    <3>1. t \in Seq({Body(f, k) : k \in 1..Len(f)} \cup {b, c})
      BY <2>4
    <3>2. Append(t, c)[Len(t)+1] = c /\ Append(t, b)[Len(t)+1] = b
      BY <3>1
    <3> QED
      BY <1>4, <3>2
  <2> QED
    BY <2>2, <2>5 DEF Hash
<1>12. ASSUME NEW k \in 1..Len(f)
       PROVE  /\ Declarable(g, k, FALSE) <=> k = i
              /\ Broken(g, k, FALSE) <=> Declarable(g, k, FALSE) /\ ~ExcusedIn(g, k, FALSE)
              /\ Kind(g[k]) # "twin"
  <2>1. Kind(g[k]) \in {"blank", "link"}
    BY <1>7, <1>9 DEF Clean
  <2>2. Prev(g, k, FALSE) = TailChain(f, k-1)
    <3>1. k \in 1..Len(g) /\ Len(g) \in Nat
      BY <1>2, <1>7
    <3> QED
      BY <1>9, <1>10, <3>1, PrevInCleanFile
  <2>3. Mismatch(g, k, FALSE) <=> k = i
    <3>1. CASE k = i
      <4>1. Kind(g[k]) = "link"
        <5>1. Kind(f[k]) = "link"
          BY <1>3, <3>1
        <5> QED
          BY <1>8, <5>1
      <4> QED
        BY <1>8, <1>11, <2>2, <3>1, <4>1 DEF Mismatch
    <3>2. CASE k # i
      <4>1. Kind(f[k]) = "link" => Claimed(f, k) = Hash(TailChain(f, k-1), Body(f, k))
        BY <1>2 DEF Linked
      <4> QED
        BY <1>8, <2>1, <2>2, <3>2, <4>1 DEF Mismatch
    <3> QED
      BY <3>1, <3>2
  <2> QED
    BY <2>1, <2>3 DEF Declarable, Stray, Broken
<1> DEFINE broken == {k \in 1..Len(g) : Broken(g, k, FALSE)}
           twins == {k \in 1..Len(g) : Kind(g[k]) = "twin"}
           excused == {k \in 1..Len(g) : Declarable(g, k, FALSE) /\ ExcusedIn(g, k, FALSE)}
<1>13. twins = {} /\ broken \cup excused = {i} /\ broken \cap excused = {}
  BY <1>7, <1>12
<1>14. /\ Breaks(g, FALSE) = Cardinality(broken) + Cardinality(twins)
       /\ DeclaredBreaks(g, FALSE) = Cardinality(excused)
  BY <1>7, Zenon DEF Breaks, DeclaredBreaks, Lines
<1>15. Cardinality(broken) + Cardinality(excused) = 1
  <2>1. broken \cup excused = {i} /\ broken \cap excused = {}
    BY <1>13
  <2> HIDE DEF broken, excused
  <2> QED
    BY <1>2, <2>1, OneOf
<1>16. Cardinality(twins) = 0 /\ Cardinality(broken) \in Nat
  <2>1. broken \in SUBSET (1..Len(g)) /\ Len(g) \in Nat
    BY <1>2, <1>7
  <2> HIDE DEF broken, twins
  <2> QED
    BY <1>13, <2>1, Counted, FS_EmptySet
<1>17. (Cardinality(broken) + Cardinality(twins)) + Cardinality(excused) = 1
  <2> HIDE DEF broken, twins, excused
  <2>1. Cardinality(broken) + 0 = Cardinality(broken)
    BY <1>16
  <2> QED
    BY <1>15, <1>16, <2>1
<1>18. Breaks(g, FALSE) + DeclaredBreaks(g, FALSE) = 1
  BY <1>14, <1>17, Zenon
<1> QED
  BY <1>18, Zenon

\* Nor for an ordinary body.
ContentIsNoDeclaration == \A line, bytes, resume : Declaration(line, bytes, resume) \notin Content

\* A line is held against the same value in two files that set it alike.
LEMMA PrevIsLocal ==
  ASSUME NEW f, NEW g, NEW s, NEW i \in Nat,
         \A k \in 1..i-1 : /\ Sets(f, k, s) <=> Sets(g, k, s)
                           /\ Sets(f, k, s) => SetTo(f, k) = SetTo(g, k)
  PROVE  Prev(f, i, s) = Prev(g, i, s)
<1>1. \A j \in 1..i-1 : LastSetter(f, i, j, s) <=> LastSetter(g, i, j, s)
  <2> SUFFICES ASSUME NEW j \in 1..i-1
               PROVE  LastSetter(f, i, j, s) <=> LastSetter(g, i, j, s)
    OBVIOUS
  <2>1. \A k \in j+1..i-1 : k \in 1..i-1
    OBVIOUS
  <2> QED
    BY <2>1 DEF LastSetter
<1>2. CASE \E j \in 1..i-1 : LastSetter(f, i, j, s)
  <2> DEFINE c == CHOOSE j \in 1..i-1 : LastSetter(f, i, j, s)
             d == CHOOSE j \in 1..i-1 : LastSetter(g, i, j, s)
  <2>1. c \in 1..i-1 /\ LastSetter(f, i, c, s)
    BY <1>2
  <2>2. d \in 1..i-1 /\ LastSetter(g, i, d, s)
    <3>1. \E j \in 1..i-1 : LastSetter(g, i, j, s)
      BY <1>1, <1>2
    <3> QED
      BY <3>1
  <2>3. Prev(f, i, s) = SetTo(f, c)
    BY <1>2 DEF Prev
  <2>4. Prev(g, i, s) = SetTo(g, d)
    BY <1>1, <1>2 DEF Prev
  <2> HIDE DEF c, d
  <2>5. c = d
    <3>1. LastSetter(f, i, d, s)
      BY <1>1, <2>2
    <3> QED
      BY <2>1, <2>2, <3>1 DEF LastSetter
  <2>6. SetTo(f, c) = SetTo(g, c)
    <3>1. Sets(f, c, s)
      BY <2>1 DEF LastSetter
    <3> QED
      BY <2>1, <3>1
  <2> QED
    BY <2>3, <2>4, <2>5, <2>6
<1>3. CASE ~ \E j \in 1..i-1 : LastSetter(f, i, j, s)
  BY <1>1, <1>3 DEF Prev
<1> QED
  BY <1>2, <1>3

\* The value the next line is held against when line j is the last to set it.
LEMMA PrevIs ==
  ASSUME NEW f, NEW s, NEW i \in Nat, NEW j, LastSetter(f, i, j, s)
  PROVE  Prev(f, i, s) = SetTo(f, j)
<1> DEFINE c == CHOOSE k \in 1..i-1 : LastSetter(f, i, k, s)
<1>1. j \in 1..i-1
  BY DEF LastSetter
<1>2. c \in 1..i-1 /\ LastSetter(f, i, c, s)
  BY <1>1
<1>3. c = j
  <2> HIDE DEF c
  <2> QED
    BY <1>1, <1>2 DEF LastSetter
<1> QED
  BY <1>1, <1>3 DEF Prev

\* Of the declarations of a line the last one is it.
LEMMA DeclaresOnce ==
  ASSUME NEW f, NEW i, NEW d, Declares(f, d, i)
  PROVE  /\ Resume(f, i) = Body(f, d).resume
         /\ Excused(f, i) <=> Body(f, d).pin = f[i]
<1> DEFINE e == CHOOSE k \in 1..Len(f) : Declares(f, k, i)
<1>1. \A k : Declares(f, k, i) => k = d
  BY DEF Declares
<1>2. d \in 1..Len(f)
  BY DEF Declares
<1>3. e \in 1..Len(f) /\ Declares(f, e, i)
  BY <1>2
<1>4. e = d
  <2> HIDE DEF e
  <2> QED
    BY <1>1, <1>3
<1>5. Resume(f, i) = Body(f, e).resume
  BY DEF Resume
<1> QED
  BY <1>1, <1>2, <1>4, <1>5 DEF Excused

(***************************************************************************)
(* A declaration appended to f, for the stray row i that is its last row.  *)
(***************************************************************************)
\* g is f with the declaration on line m.
DeclaredIn(f, g, i, m) ==
  /\ Landed(f, g, Row(Declaration(i, f[i], Genesis), Genesis), m)
  /\ g[m] = <<Row(Declaration(i, f[i], Genesis), Genesis)>>
  /\ i \in 1..m-1 /\ Kind(f[i]) = "bare" /\ Begun(f, i) /\ ~Excused(f, i)
  /\ \A k \in i+1..Len(f) : ~IsRow(f, k)

\* The lines of a file and of the file with a declaration at its end.
LEMMA DeclaredLines ==
  ASSUME NEW f, NEW g, NEW i, NEW m, DeclaredIn(f, g, i, m),
         VoidIsNoDeclaration, ContentIsNoDeclaration
  PROVE  /\ m \in Nat /\ m # 0 /\ Len(g) = m + 1 /\ i \in 1..m-1
         /\ Len(f) \in {m-1, m} /\ \A k \in 1..m-1 : g[k] = f[k]
         /\ Len(f) = m => Kind(f[m]) = "blank"
         /\ Kind(g[m]) = "link" /\ Kind(g[m+1]) = "blank"
         /\ Claimed(g, m) = Hash(Genesis, Body(g, m))
         /\ Body(g, m) = Declaration(i, f[i], Genesis)
         /\ IsDeclaration(g, m)
         /\ \A k \in 1..m : Begun(g, k) <=> Begun(f, k)
<1> PICK p : p = Row(Declaration(i, f[i], Genesis), Genesis)
  OBVIOUS
<1>1. /\ m \in Nat /\ m # 0 /\ Len(g) = m + 1 /\ i \in 1..m-1 /\ g[m+1] = <<>>
      /\ Len(f) \in {m-1, m} /\ \A k \in 1..m-1 : g[k] = f[k]
  BY Zenon DEF DeclaredIn, Landed
<1>2. g[m] = <<p>> /\ p.kind = "link"
  BY DEF DeclaredIn, Row
<1>3. Len(f) = m => f[m] = <<>>
  <2> SUFFICES ASSUME Len(f) = m, f[m] # <<>>, g[m] = f[m] \o <<p>>
               PROVE  f[m] = <<>>
    BY Zenon DEF DeclaredIn, Landed
  <2> QED
    BY DEF DeclaredIn
<1>4. Kind(g[m]) = "link" /\ Kind(g[m+1]) = "blank"
  BY <1>1, <1>2 DEF Kind
<1>5. /\ Body(g, m) = Declaration(i, f[i], Genesis)
      /\ Claimed(g, m) = Hash(Genesis, Body(g, m))
  BY <1>2 DEF Body, Claimed, Row
<1>6. IsDeclaration(g, m)
  <2>1. Body(g, m) # Void /\ Body(g, m) \notin Content
    BY <1>5 DEF VoidIsNoDeclaration, ContentIsNoDeclaration
  <2> QED
    BY <1>4, <2>1 DEF IsDeclaration
<1>7. ASSUME NEW k \in 1..m
      PROVE  Begun(g, k) <=> Begun(f, k)
  <2>1. \A j \in 1..k-1 : g[j] = f[j]
    BY <1>1
  <2> QED
    BY <2>1 DEF Begun, Chained
<1> QED
  BY <1>1, <1>3, <1>4, <1>5, <1>6, <1>7 DEF Kind

\* Its declarations are those of f and the new one, which is line i's.
LEMMA DeclaredExcuses ==
  ASSUME NEW f, NEW g, NEW i, NEW m, DeclaredIn(f, g, i, m),
         VoidIsNoDeclaration, ContentIsNoDeclaration
  PROVE  /\ Excused(g, i) /\ Resume(g, i) = Genesis
         /\ \A j \in 1..m-1 : j # i =>
              /\ Excused(g, j) <=> Excused(f, j)
              /\ Excused(f, j) => Resume(g, j) = Resume(f, j)
<1>1. /\ m \in Nat /\ m # 0 /\ Len(g) = m + 1 /\ i \in 1..m-1
      /\ Len(f) \in {m-1, m} /\ \A k \in 1..m-1 : g[k] = f[k]
      /\ Len(f) = m => Kind(f[m]) = "blank"
      /\ Kind(g[m+1]) = "blank"
      /\ Body(g, m) = Declaration(i, f[i], Genesis)
      /\ IsDeclaration(g, m)
  BY DeclaredLines
<1>2. /\ \A k \in 1..m-1 : /\ IsDeclaration(g, k) <=> IsDeclaration(f, k)
                           /\ Body(g, k) = Body(f, k)
      /\ ~IsDeclaration(g, m+1)
      /\ Len(f) = m => ~IsDeclaration(f, m)
  BY <1>1 DEF IsDeclaration, Body
<1>3. /\ Body(g, m).line = i /\ Body(g, m).pin = f[i] /\ Body(g, m).resume = Genesis
  BY <1>1 DEF Declaration
<1>4. Declares(g, m, i)
  <2>1. m \in 1..Len(g) /\ \A e \in m+1..Len(g) : e = m+1
    BY <1>1
  <2> QED
    BY <1>1, <1>2, <1>3, <2>1 DEF Declares
<1>5. Excused(g, i) /\ Resume(g, i) = Genesis
  <2>1. g[i] = f[i]
    BY <1>1
  <2> QED
    BY <1>3, <1>4, <2>1, DeclaresOnce
<1>6. ASSUME NEW j \in 1..m-1, j # i, NEW d
      PROVE  Declares(g, d, j) <=> Declares(f, d, j)
  <2>1. ASSUME Declares(g, d, j)
        PROVE  Declares(f, d, j)
    <3>1. d \in 1..m+1 /\ IsDeclaration(g, d) /\ Body(g, d).line = j
          /\ \A e \in d+1..m+1 : ~(IsDeclaration(g, e) /\ Body(g, e).line = j)
      BY <1>1, <2>1 DEF Declares
    <3>2. d # m+1 /\ d # m
      BY <1>2, <1>3, <1>6, <3>1
    <3>3. d \in 1..m-1
      BY <1>1, <3>1, <3>2
    <3>4. ASSUME NEW e \in d+1..Len(f)
          PROVE  ~(IsDeclaration(f, e) /\ Body(f, e).line = j)
      <4>1. CASE e = m
        <5>1. Len(f) = m
          BY <1>1, <3>3, <4>1
        <5> QED
          BY <1>2, <4>1, <5>1
      <4>2. CASE e # m
        <5>1. e \in 1..m-1 /\ e \in d+1..m+1
          BY <1>1, <3>3, <4>2
        <5> QED
          BY <1>2, <3>1, <5>1
      <4> QED
        BY <4>1, <4>2
    <3>5. d \in 1..Len(f)
      BY <1>1, <3>3
    <3> QED
      BY <1>2, <3>1, <3>3, <3>4, <3>5 DEF Declares
  <2>2. ASSUME Declares(f, d, j)
        PROVE  Declares(g, d, j)
    <3>1. d \in 1..Len(f) /\ IsDeclaration(f, d) /\ Body(f, d).line = j
          /\ \A e \in d+1..Len(f) : ~(IsDeclaration(f, e) /\ Body(f, e).line = j)
      BY <2>2 DEF Declares
    <3>2. d # m
      BY <1>1, <1>2, <3>1
    <3>3. d \in 1..m-1
      BY <1>1, <3>1, <3>2
    <3>4. ASSUME NEW e \in d+1..Len(g)
          PROVE  ~(IsDeclaration(g, e) /\ Body(g, e).line = j)
      <4>1. CASE e = m
        BY <1>3, <1>6, <4>1
      <4>2. CASE e = m+1
        BY <1>2, <4>2
      <4>3. CASE e # m /\ e # m+1
        <5>1. e \in 1..m-1 /\ e \in d+1..Len(f)
          BY <1>1, <3>3, <4>3
        <5> QED
          BY <1>2, <3>1, <5>1
      <4> QED
        BY <4>1, <4>2, <4>3
    <3>5. d \in 1..Len(g)
      BY <1>1, <3>3
    <3> QED
      BY <1>2, <3>1, <3>3, <3>4, <3>5 DEF Declares
  <2> QED
    BY <2>1, <2>2
<1>7. ASSUME NEW j \in 1..m-1, j # i
      PROVE  /\ Excused(g, j) <=> Excused(f, j)
             /\ Excused(f, j) => Resume(g, j) = Resume(f, j)
  <2>1. CASE \E d : Declares(f, d, j)
    <3>1. PICK d : Declares(f, d, j)
      BY <2>1
    <3>2. Declares(g, d, j)
      BY <1>6, <1>7, <3>1
    <3>3. d \in 1..m-1
      <4>1. d \in 1..Len(f) /\ IsDeclaration(f, d)
        BY <3>1 DEF Declares
      <4>2. d # m
        BY <1>1, <1>2, <4>1
      <4> QED
        BY <1>1, <4>1, <4>2
    <3>4. Body(g, d) = Body(f, d) /\ f[j] = g[j]
      BY <1>1, <1>2, <3>3
    <3> QED
      BY <3>1, <3>2, <3>4, DeclaresOnce
  <2>2. CASE ~ \E d : Declares(f, d, j)
    <3>1. ~ \E d : Declares(g, d, j)
      BY <1>6, <1>7, <2>2
    <3> QED
      BY <2>2, <3>1 DEF Excused
  <2> QED
    BY <2>1, <2>2
<1> QED
  BY <1>5, <1>7

\* The lines up to i are held against the same values as before.
LEMMA DeclaredPrev ==
  ASSUME NEW f, NEW g, NEW i, NEW m, DeclaredIn(f, g, i, m),
         VoidIsNoDeclaration, ContentIsNoDeclaration, NEW s \in BOOLEAN, NEW j \in 1..i
  PROVE  Prev(g, j, s) = Prev(f, j, s)
<1>1. m \in Nat /\ i \in 1..m-1 /\ \A k \in 1..m-1 : g[k] = f[k]
  BY DeclaredLines
<1>2. \A k \in 1..m-1 : Begun(g, k) <=> Begun(f, k)
  <2>1. \A k \in 1..m : Begun(g, k) <=> Begun(f, k)
    BY DeclaredLines
  <2>2. \A k \in 1..m-1 : k \in 1..m
    BY <1>1
  <2> QED
    BY <2>1, <2>2
<1>3. ASSUME NEW k \in 1..j-1
      PROVE  /\ Sets(f, k, s) <=> Sets(g, k, s)
             /\ Sets(f, k, s) => SetTo(f, k) = SetTo(g, k)
  <2>1. k \in 1..m-1 /\ k # i
    BY <1>1
  <2>2. /\ Excused(g, k) <=> Excused(f, k)
        /\ Excused(f, k) => Resume(g, k) = Resume(f, k)
    BY <2>1, DeclaredExcuses
  <2>3. Kind(g[k]) = Kind(f[k]) /\ Claimed(g, k) = Claimed(f, k)
    BY <1>1, <2>1 DEF Claimed
  <2>4. ExcusedIn(g, k, s) <=> ExcusedIn(f, k, s)
    BY <2>2, Zenon DEF ExcusedIn
  <2>5. Sets(f, k, s) <=> Sets(g, k, s)
    BY <1>2, <2>1, <2>3, <2>4 DEF Sets, Chained
  <2>6. ASSUME Sets(f, k, s)
        PROVE  SetTo(f, k) = SetTo(g, k)
    <3>1. CASE Kind(f[k]) = "bare"
      <4>1. ExcusedIn(f, k, s)
        BY <2>6, <3>1 DEF Sets, Chained
      <4>2. Excused(f, k)
        BY <4>1, Zenon DEF ExcusedIn
      <4> QED
        BY <2>2, <2>3, <3>1, <4>2 DEF SetTo
    <3>2. CASE Kind(f[k]) # "bare"
      BY <2>3, <3>2 DEF SetTo
    <3> QED
      BY <3>1, <3>2
  <2> QED
    BY <2>5, <2>6
<1>4. j \in Nat
  OBVIOUS
<1> QED
  BY <1>3, <1>4, PrevIsLocal

\* The new line itself is held against what the declaration resumed from.
LEMMA DeclaredResumes ==
  ASSUME NEW f, NEW g, NEW i, NEW m, DeclaredIn(f, g, i, m),
         VoidIsNoDeclaration, ContentIsNoDeclaration
  PROVE  Prev(g, m, FALSE) = Genesis
<1>1. /\ m \in Nat /\ m # 0 /\ i \in 1..m-1 /\ Len(f) \in {m-1, m}
      /\ \A k \in 1..m-1 : g[k] = f[k]
  BY DeclaredLines
<1>2. Kind(g[i]) = "bare" /\ Begun(g, i) /\ \A k \in i+1..Len(f) : ~IsRow(f, k)
  <2>1. i \in 1..m
    BY <1>1
  <2>2. Begun(g, i) <=> Begun(f, i)
    BY <2>1, DeclaredLines
  <2> QED
    BY <1>1, <2>2 DEF DeclaredIn
<1>3. Excused(g, i) /\ Resume(g, i) = Genesis
  BY DeclaredExcuses
<1>4. Sets(g, i, FALSE)
  BY <1>2, <1>3, Zenon DEF Sets, ExcusedIn
<1>5. ASSUME NEW k \in i+1..m-1
      PROVE  ~Sets(g, k, FALSE)
  <2>1. k \in 1..m-1 /\ k \in i+1..Len(f)
    BY <1>1
  <2>2. ~IsRow(f, k) /\ g[k] = f[k]
    BY <1>1, <1>2, <2>1
  <2> QED
    BY <2>2 DEF Sets, Chained, IsRow, RowKinds
<1>6. LastSetter(g, m, i, FALSE)
  BY <1>1, <1>4, <1>5 DEF LastSetter
<1>7. Prev(g, m, FALSE) = SetTo(g, i)
  BY <1>1, <1>6, PrevIs
<1> QED
  BY <1>2, <1>3, <1>7 DEF SetTo

\* Line by line, the declaration changes the verdict of line i alone.
OneLess(ff, gg, ft, gt, t) ==
  /\ Cardinality(gg) + Cardinality(t) = (Cardinality(ff) + Cardinality(t)) - 1
  /\ Cardinality(gt) + Cardinality(t) >= Cardinality(ft) + Cardinality(t)

\* A set that loses one of its members counts one less, whatever is added to its twin.
LEMMA OneFewer ==
  ASSUME NEW ff, NEW gg, NEW ft, NEW gt, NEW t, NEW i \in ff,
         gg = ff \ {i}, ft \subseteq gt,
         IsFiniteSet(t), IsFiniteSet(ff), IsFiniteSet(gt)
  PROVE  OneLess(ff, gg, ft, gt, t)
<1>1. Cardinality(gg) = Cardinality(ff) - 1 /\ IsFiniteSet(gg)
  BY FS_RemoveElement
<1>2. Cardinality(ft) <= Cardinality(gt) /\ IsFiniteSet(ft)
  BY FS_Subset
<1>3. /\ Cardinality(gg) \in Nat /\ Cardinality(ff) \in Nat /\ Cardinality(ft) \in Nat
      /\ Cardinality(gt) \in Nat /\ Cardinality(t) \in Nat
  BY <1>1, <1>2, FS_CardinalityType
<1> QED
  BY <1>1, <1>2, <1>3 DEF OneLess

\* A declaration mends the line it names for the reader that honours it, and no
\* other line for any reader.
LEMMA DeclaredBroken ==
  ASSUME NEW f, NEW g, NEW i, NEW m, DeclaredIn(f, g, i, m),
         VoidIsNoDeclaration, ContentIsNoDeclaration
  PROVE  /\ \A s \in BOOLEAN, j \in 1..m-1 : j # i => (Broken(g, j, s) <=> Broken(f, j, s))
         /\ Broken(f, i, FALSE) /\ ~Broken(g, i, FALSE)
         /\ Broken(g, i, TRUE)
         /\ ~Broken(g, m, FALSE) /\ ~Broken(g, m+1, FALSE)
         /\ Len(f) = m => \A s \in BOOLEAN : ~Broken(f, m, s)
<1>1. /\ m \in Nat /\ m # 0 /\ i \in 1..m-1 /\ Len(f) \in {m-1, m}
      /\ \A k \in 1..m-1 : g[k] = f[k]
      /\ Len(f) = m => Kind(f[m]) = "blank"
      /\ Kind(g[m]) = "link" /\ Kind(g[m+1]) = "blank"
      /\ Claimed(g, m) = Hash(Genesis, Body(g, m))
  BY DeclaredLines
<1>2. \A k \in 1..m-1 : Begun(g, k) <=> Begun(f, k)
  <2>1. \A k \in 1..m : Begun(g, k) <=> Begun(f, k)
    BY DeclaredLines
  <2>2. \A k \in 1..m-1 : k \in 1..m
    BY <1>1
  <2> QED
    BY <2>1, <2>2
<1>3. Kind(f[i]) = "bare" /\ Begun(f, i) /\ ~Excused(f, i) /\ \A k \in i+1..Len(f) : ~IsRow(f, k)
  BY DEF DeclaredIn
<1>4. ASSUME NEW s \in BOOLEAN, NEW j \in 1..m-1, j # i
      PROVE  Broken(g, j, s) <=> Broken(f, j, s)
  <2>1. Kind(g[j]) = Kind(f[j]) /\ Claimed(g, j) = Claimed(f, j) /\ Body(g, j) = Body(f, j)
    BY <1>1 DEF Claimed, Body
  <2>2. ExcusedIn(g, j, s) <=> ExcusedIn(f, j, s)
    <3>1. Excused(g, j) <=> Excused(f, j)
      BY <1>4, DeclaredExcuses
    <3> QED
      BY <3>1, Zenon DEF ExcusedIn
  <2>3. CASE j < i
    <3>1. j \in 1..i
      BY <1>1, <2>3
    <3>2. Prev(g, j, s) = Prev(f, j, s)
      BY <3>1, DeclaredPrev
    <3>3. Mismatch(g, j, s) <=> Mismatch(f, j, s)
      BY <2>1, <3>2, Zenon DEF Mismatch
    <3>4. Stray(g, j, s) <=> Stray(f, j, s)
      BY <1>2, <2>1, Zenon DEF Stray
    <3> QED
      BY <2>1, <2>2, <3>3, <3>4, Zenon DEF Broken, Declarable
  <2>4. CASE i < j
    <3>1. j \in i+1..Len(f)
      BY <1>1, <2>4
    <3>2. Kind(f[j]) \notin RowKinds
      BY <1>3, <3>1 DEF IsRow
    <3>3. Kind(f[j]) # "bare" /\ Kind(f[j]) \notin {"link", "twin"}
      BY <3>2 DEF RowKinds
    <3>4. ~Declarable(f, j, s) /\ ~Declarable(g, j, s)
      BY <2>1, <3>3, Zenon DEF Declarable, Stray, Mismatch
    <3> QED
      BY <2>1, <3>4, Zenon DEF Broken
  <2> QED
    BY <1>1, <1>4, <2>3, <2>4
<1>5. Kind(g[i]) = "bare" /\ Begun(g, i) /\ Excused(g, i)
  BY <1>1, <1>2, <1>3, DeclaredExcuses
<1>6. Broken(f, i, FALSE)
  BY <1>3, Zenon DEF Broken, Declarable, Stray, ExcusedIn
<1>7. ~Broken(g, i, FALSE)
  <2>1. Kind(g[i]) \notin {"scrap", "scalar", "poison"}
    BY <1>5
  <2>2. ExcusedIn(g, i, FALSE)
    BY <1>5, Zenon DEF ExcusedIn
  <2> QED
    BY <2>1, <2>2, Zenon DEF Broken
<1>8. Broken(g, i, TRUE)
  BY <1>5, Zenon DEF Broken, Declarable, Stray, ExcusedIn
<1>9. ~Broken(g, m, FALSE)
  <2>1. Prev(g, m, FALSE) = Genesis
    BY DeclaredResumes
  <2>2. ~Mismatch(g, m, FALSE)
    BY <1>1, <2>1, Zenon DEF Mismatch
  <2>3. Kind(g[m]) \notin {"scrap", "scalar", "poison"} /\ Kind(g[m]) # "bare"
    BY <1>1
  <2> QED
    BY <2>2, <2>3, Zenon DEF Broken, Declarable, Stray
<1>10. ASSUME NEW h, NEW k, NEW s \in BOOLEAN, Kind(h[k]) = "blank"
       PROVE  ~Broken(h, k, s)
  <2>1. Kind(h[k]) \notin {"scrap", "scalar", "poison", "bare", "link", "twin"}
    BY <1>10
  <2>2. /\ Kind(h[k]) \notin {"scrap", "scalar", "poison"} /\ Kind(h[k]) # "bare"
        /\ Kind(h[k]) \notin {"link", "twin"}
    BY <2>1
  <2> QED
    BY <2>2, Zenon DEF Broken, Declarable, Stray, Mismatch
<1>11. ~Broken(g, m+1, FALSE)
  <2>1. FALSE \in BOOLEAN
    OBVIOUS
  <2> QED
    BY <1>1, <1>10, <2>1, Zenon
<1>12. Len(f) = m => \A s \in BOOLEAN : ~Broken(f, m, s)
  BY <1>1, <1>10, Zenon
<1> QED
  BY <1>4, <1>6, <1>7, <1>8, <1>9, <1>11, <1>12, Zenon

\* Declaring a stray last row takes its break out of the count, and no break
\* out of the strict one.
LEMMA DeclaredCounts ==
  ASSUME NEW f, NEW g, NEW i, NEW m, DeclaredIn(f, g, i, m),
         VoidIsNoDeclaration, ContentIsNoDeclaration
  PROVE  /\ Breaks(g, FALSE) = Breaks(f, FALSE) - 1
         /\ Breaks(g, TRUE) >= Breaks(f, TRUE)
<1>1. /\ m \in Nat /\ m # 0 /\ Len(g) = m + 1 /\ i \in 1..m-1 /\ Len(f) \in {m-1, m}
      /\ \A k \in 1..m-1 : g[k] = f[k]
      /\ Len(f) = m => Kind(f[m]) = "blank"
      /\ Kind(g[m]) = "link" /\ Kind(g[m+1]) = "blank"
  BY DeclaredLines
<1>2. f # <<>> /\ g # <<>>
  BY <1>1
<1> DEFINE broken(h, s) == {j \in 1..Len(h) : Broken(h, j, s)}
           twins(h) == {j \in 1..Len(h) : Kind(h[j]) = "twin"}
<1>3. \A h, s : h # <<>> => Breaks(h, s) = Cardinality(broken(h, s)) + Cardinality(twins(h))
  BY Zenon DEF Breaks, Lines
<1>4. twins(g) = twins(f)
  <2>1. \A j \in 1..m-1 : j \in 1..Len(f) /\ j \in 1..Len(g) /\ g[j] = f[j]
    BY <1>1
  <2>2. \A j \in 1..Len(g) : j \in 1..m-1 \/ j = m \/ j = m+1
    BY <1>1
  <2>3. \A j \in 1..Len(f) : j \in 1..m-1 \/ (j = m /\ Len(f) = m)
    BY <1>1
  <2> QED
    BY <1>1, <2>1, <2>2, <2>3
<1>5. ASSUME NEW j, NEW s \in BOOLEAN
      PROVE  /\ j \in broken(f, s) => j \in 1..m-1
             /\ j \in broken(f, s) <=> j \in 1..m-1 /\ Broken(f, j, s)
             /\ j \in broken(g, s) <=> j \in 1..m+1 /\ Broken(g, j, s)
  <2>0. Len(f) = m => \A q \in BOOLEAN : ~Broken(f, m, q)
    BY DeclaredBroken, Zenon
  <2>1. Len(f) = m => ~Broken(f, m, s)
    BY <2>0, Zenon
  <2>2. j \in 1..Len(f) <=> j \in 1..m-1 \/ (j = m /\ Len(f) = m)
    BY <1>1
  <2>3. 1..Len(g) = 1..m+1
    BY <1>1
  <2>4. j \in broken(f, s) <=> j \in 1..Len(f) /\ Broken(f, j, s)
    BY Zenon
  <2>5. j \in broken(g, s) <=> j \in 1..Len(g) /\ Broken(g, j, s)
    BY Zenon
  <2> HIDE DEF broken
  <2> QED
    BY <2>1, <2>2, <2>3, <2>4, <2>5, Zenon
<1>6. broken(g, FALSE) = broken(f, FALSE) \ {i} /\ i \in broken(f, FALSE)
  <2>1. /\ Broken(f, i, FALSE) /\ ~Broken(g, i, FALSE)
        /\ ~Broken(g, m, FALSE) /\ ~Broken(g, m+1, FALSE)
    BY DeclaredBroken, Zenon
  <2>2. \A j \in 1..m-1 : j # i => (Broken(g, j, FALSE) <=> Broken(f, j, FALSE))
    BY DeclaredBroken, Zenon
  <2>3. \A j : j \in 1..m+1 <=> j \in 1..m-1 \/ j = m \/ j = m+1
    BY <1>1
  <2>4. \A j : /\ j \in broken(f, FALSE) <=> j \in 1..m-1 /\ Broken(f, j, FALSE)
               /\ j \in broken(g, FALSE) <=> j \in 1..m+1 /\ Broken(g, j, FALSE)
    BY <1>5, Zenon
  <2> HIDE DEF broken
  <2>5. i \in broken(f, FALSE)
    BY <1>1, <2>1, <2>4, Zenon
  <2>6. \A j : j \in broken(g, FALSE) <=> j \in broken(f, FALSE) /\ j # i
    BY <2>1, <2>2, <2>3, <2>4, Zenon
  <2> QED
    BY <2>5, <2>6, Zenon
<1>7. broken(f, TRUE) \subseteq broken(g, TRUE)
  <2>1. Broken(g, i, TRUE)
    BY DeclaredBroken, Zenon
  <2>2. \A j \in 1..m-1 : j # i => (Broken(g, j, TRUE) <=> Broken(f, j, TRUE))
    BY DeclaredBroken, Zenon
  <2>3. \A j : j \in 1..m-1 => j \in 1..m+1
    BY <1>1
  <2>4. \A j : /\ j \in broken(f, TRUE) <=> j \in 1..m-1 /\ Broken(f, j, TRUE)
               /\ j \in broken(g, TRUE) <=> j \in 1..m+1 /\ Broken(g, j, TRUE)
    BY <1>5, Zenon
  <2> HIDE DEF broken
  <2> QED
    BY <2>1, <2>2, <2>3, <2>4, Zenon
<1>8. \A h \in {f, g} : Len(h) \in Nat
  BY <1>1
<1>9. \A h \in {f, g}, s \in BOOLEAN :
        broken(h, s) \in SUBSET (1..Len(h)) /\ twins(h) \in SUBSET (1..Len(h))
  BY Zenon
<1> HIDE DEF broken, twins
<1>10. \A h \in {f, g}, s \in BOOLEAN :
         IsFiniteSet(broken(h, s)) /\ Cardinality(broken(h, s)) \in Nat
         /\ Cardinality(twins(h)) \in Nat
  BY <1>8, <1>9, Counted, Zenon
<1> PICK ff, gg : ff = broken(f, FALSE) /\ gg = broken(g, FALSE)
  OBVIOUS
<1> PICK ft, gt : ft = broken(f, TRUE) /\ gt = broken(g, TRUE)
  OBVIOUS
<1> PICK t : t = twins(f) /\ t = twins(g)
  BY <1>4
<1>11. /\ IsFiniteSet(ff) /\ Cardinality(ff) \in Nat /\ IsFiniteSet(gt)
       /\ Cardinality(gt) \in Nat /\ Cardinality(ft) \in Nat /\ Cardinality(t) \in Nat
  BY <1>10, Zenon
<1>12. i \in ff /\ gg = ff \ {i} /\ ft \subseteq gt
  BY <1>6, <1>7, Zenon
<1>13. IsFiniteSet(t) /\ IsFiniteSet(ff) /\ IsFiniteSet(gt)
  BY <1>9, <1>8, Counted, Zenon
<1>14. /\ Breaks(f, FALSE) = Cardinality(ff) + Cardinality(t)
       /\ Breaks(g, FALSE) = Cardinality(gg) + Cardinality(t)
       /\ Breaks(f, TRUE) = Cardinality(ft) + Cardinality(t)
       /\ Breaks(g, TRUE) = Cardinality(gt) + Cardinality(t)
  BY <1>2, <1>3, Zenon
<1>15. OneLess(ff, gg, ft, gt, t)
  BY <1>12, <1>13, OneFewer, Zenon
<1> QED
  BY <1>14, <1>15, Zenon DEF OneLess

\* One declaration moves one break from the broken lines to the declared ones.
LEMMA DeclarationExcuses ==
  ASSUME Shaped(file), VoidIsNoDeclaration, ContentIsNoDeclaration
  PROVE  DeclaringExcuses
<1> SUFFICES ASSUME NEW i \in 1..Len(file), DeclareBreak(i, Genesis),
                    Stray(file, i, FALSE), ~Excused(file, i), LastRowIs(file, i, Len(file))
             PROVE  /\ Breaks(file', FALSE) = Breaks(file, FALSE) - 1
                    /\ Breaks(file', TRUE) >= Breaks(file, TRUE)
  BY Zenon DEF DeclaringExcuses
<1> PICK f, g : f = file /\ g = file'
  OBVIOUS
<1>1. PICK Bs, Cs : f \in Seq(Seq(WellFormed(Bs, Cs)))
  BY DEF Shaped
<1>2. Kind(f[i]) = "bare" /\ Begun(f, i)
  BY Zenon DEF Stray
<1>3. LastChain(f) = Genesis
  <2>1. LastChain(f) = Claimed(f, i) /\ Len(f) \in Nat
    BY <1>1, TailChainIs DEF LastChain
  <2>2. f[i] \in Seq(WellFormed(Bs, Cs)) /\ f[i] # <<>> /\ f[i][1].kind = "bare"
    BY <1>1, <1>2 DEF Kind
  <2>3. f[i][1] \in WellFormed(Bs, Cs)
    BY <2>2
  <2> QED
    BY <2>1, <2>2, <2>3 DEF WellFormed, Claimed
<1> PICK p : p = Row(Declaration(i, f[i], Genesis), Genesis)
  OBVIOUS
<1>4. g = Put(f, ~EndsInNewline(f), <<p>>, TRUE)
  BY <1>3, Zenon DEF DeclareBreak, LibraryAppend
<1>5. PICK m : Landed(f, g, p, m) /\ g[m] = <<p>>
  <2> DEFINE P == WellFormed(Bs, Cs) \cup {p}
  <2>1. WellFormed(Bs, Cs) \subseteq P /\ p \in P
    OBVIOUS
  <2> HIDE DEF P
  <2>2. f \in Seq(Seq(P))
    BY <1>1, <2>1, SeqGrows
  <2>3. \E m : Landed(f, Put(f, ~EndsInNewline(f), <<p>>, TRUE), p, m)
               /\ Put(f, ~EndsInNewline(f), <<p>>, TRUE)[m] = <<p>>
    BY <2>1, <2>2, AppendLands
  <2> QED
    BY <1>4, <2>3
<1>6. i \in 1..m-1
  <2>1. m \in Nat /\ Len(f) \in {m-1, m} /\ (Len(f) = m => f[m] = <<>> \/ g[m] = f[m] \o <<p>>)
    BY <1>5, Zenon DEF Landed
  <2>2. f[i] # <<>>
    BY <1>2 DEF Kind
  <2>3. i # m
    <3> SUFFICES ASSUME i = m PROVE FALSE
      OBVIOUS
    <3>1. Len(f) = m /\ f[m] # <<>>
      BY <2>1, <2>2
    <3>2. f[m] \in Seq(WellFormed(Bs, Cs) \cup {p}) /\ <<p>> \in Seq(WellFormed(Bs, Cs) \cup {p})
      BY <1>1
    <3>3. g[m] = f[m] \o <<p>>
      BY <2>1, <3>1
    <3>4. Len(f[m] \o <<p>>) = Len(f[m]) + 1 /\ Len(f[m]) \in Nat \ {0}
      BY <3>1, <3>2
    <3>5. Len(<<p>>) = 1
      OBVIOUS
    <3> QED
      BY <1>5, <3>3, <3>4, <3>5
  <2> QED
    BY <2>1, <2>3
<1>7. DeclaredIn(f, g, i, m)
  <2>1. \A k \in i+1..Len(f) : ~IsRow(f, k)
    BY DEF LastRowIs
  <2> QED
    BY <1>2, <1>5, <1>6, <2>1, Zenon DEF DeclaredIn
<1>8. Breaks(g, FALSE) = Breaks(f, FALSE) - 1 /\ Breaks(g, TRUE) >= Breaks(f, TRUE)
  BY <1>7, DeclaredCounts, Zenon
<1> QED
  BY <1>8, Zenon

\* A step changes the verdict as far as it should: an edit of a green log is
\* one break or one declared break, no append makes a log green that was not,
\* and declaring a stray row takes one break out of the count and none out of
\* the strict one.  No body of a row may read as a declaration.
THEOREM StepsJudged ==
  ASSUME VoidIsNoDeclaration, ContentIsNoDeclaration
  PROVE  Spec => StepsAreJudged
<1>1. ShapeInv /\ ShapeInv' /\ [Next]_vars
        => [OneEditOneBreak /\ AppendingNeverRepairs /\ DeclaringExcuses]_vars
  <2> SUFFICES ASSUME ShapeInv, ShapeInv'
               PROVE  OneEditOneBreak /\ AppendingNeverRepairs /\ DeclaringExcuses
    OBVIOUS
  <2>1. OneEditOneBreak
    <3> SUFFICES ASSUME NEW i \in 1..Len(file), Ok(file, FALSE) = "True",
                        NEW b \in Content, EditRow(i, b)
                 PROVE  Breaks(file', FALSE) + DeclaredBreaks(file', FALSE) = 1
      BY Zenon DEF OneEditOneBreak
    <3> QED
      BY EditBreaksOne, Zenon DEF ShapeInv
  <2>2. AppendingNeverRepairs
    BY NoRepair DEF ShapeInv
  <2>3. DeclaringExcuses
    BY DeclarationExcuses, VoidIsNoDeclaration, ContentIsNoDeclaration DEF ShapeInv
  <2> QED
    BY <2>1, <2>2, <2>3
<1> QED
  BY <1>1, ShapeHolds, PTL DEF Spec, StepsAreJudged

(***************************************************************************)
(* Evidence packs.  The log holds rows over Content only, whoever wrote or *)
(* rewrote it, and a folder keeps its shape under every edit.              *)
(***************************************************************************)
LogPiecesOver(S) == PiecesOver(S, Seq(S))
LogsOver(S) == Seq(Seq(LogPiecesOver(S)))

LogChains == Seq(Content)
LogPieces == PiecesOver(Content, LogChains)
LogFiles == Seq(Seq(LogPieces))

\* The one line of a row, its body and its chain.
LEMMA RowIsPieceOver ==
  ASSUME NEW S, NEW f \in LogsOver(S), NEW i \in 1..Len(f), IsRow(f, i)
  PROVE  /\ Len(f[i]) = 1 /\ f[i][1] \in LogPiecesOver(S)
         /\ Body(f, i) \in S /\ Claimed(f, i) \in Seq(S)
<1>1. f[i] \in Seq(LogPiecesOver(S))
  BY DEF LogsOver
<1>2. Len(f[i]) = 1
  BY DEF IsRow, Kind, RowKinds
<1>3. f[i][1] \in LogPiecesOver(S)
  BY <1>1, <1>2
<1> QED
  BY <1>2, <1>3 DEF LogPiecesOver, PiecesOver, Body, Claimed

\* What the next row of a log chains from.
LEMMA LastChainIsOver ==
  ASSUME NEW S, NEW f \in LogsOver(S)
  PROVE  LastChain(f) \in Seq(S)
<1>1. Len(f) \in Nat
  BY DEF LogsOver
<1>2. CASE \E i \in 1..Len(f) : LastRowIs(f, i, Len(f))
  <2>1. PICK i \in 1..Len(f) : LastRowIs(f, i, Len(f))
    BY <1>2
  <2>2. LastChain(f) = Claimed(f, i)
    BY <1>1, <2>1, TailChainIs DEF LastChain
  <2>3. IsRow(f, i)
    BY <2>1 DEF LastRowIs
  <2> QED
    BY <2>2, <2>3, RowIsPieceOver
<1>3. CASE ~\E i \in 1..Len(f) : LastRowIs(f, i, Len(f))
  <2>1. LastChain(f) = <<>>
    BY <1>3 DEF LastChain, TailChain, Genesis
  <2>2. <<>> \in Seq(S)
    OBVIOUS
  <2> QED
    BY <2>1, <2>2
<1> QED
  BY <1>2, <1>3

\* A row more is a log again.
LEMMA PutIsOver ==
  ASSUME NEW S, NEW f \in LogsOver(S), NEW b \in S
  PROVE  Put(f, FALSE, <<Row(b, LastChain(f))>>, TRUE) \in LogsOver(S)
<1> DEFINE p == Row(b, LastChain(f))
           o == Opened(f)
<1>1. LastChain(f) \in Seq(S)
  BY LastChainIsOver
<1>2. p.kind = "link" /\ p.body = b /\ p.chain = Append(LastChain(f), b)
  BY DEF Row, Hash
<1>3. p \in LogPiecesOver(S)
  <2>1. Append(LastChain(f), b) \in Seq(S)
    BY <1>1
  <2>2. p = [kind |-> "link", body |-> b, chain |-> Append(LastChain(f), b)]
    BY DEF Row, Hash
  <2> HIDE DEF p
  <2> QED
    BY <2>1, <2>2 DEF LogPiecesOver, PiecesOver, PieceKinds, RowKinds
<1> HIDE DEF p
<1>4. o \in LogsOver(S) /\ Len(o) \in 1..Len(o)
  BY DEF Opened, LogsOver
<1>5. [o EXCEPT ![Len(o)] = @ \o <<p>>] \in LogsOver(S)
  <2> HIDE DEF o
  <2>1. o[Len(o)] \o <<p>> \in Seq(LogPiecesOver(S))
    BY <1>3, <1>4 DEF LogsOver
  <2> QED
    BY <1>4, <2>1 DEF LogsOver
<1>6. Append([o EXCEPT ![Len(o)] = @ \o <<p>>], <<>>) \in LogsOver(S)
  <2> HIDE DEF o
  <2>1. <<>> \in Seq(LogPiecesOver(S))
    OBVIOUS
  <2> QED
    BY <1>5, <2>1 DEF LogsOver
<1> QED
  BY <1>6 DEF Put, p

\* A log minted from bodies.
LEMMA MintedIsOver ==
  ASSUME NEW S, NEW bodies \in Seq(S)
  PROVE  Minted(bodies) \in LogsOver(S)
<1> DEFINE N == Len(bodies)
           After(k, f) == Put(f, FALSE, <<Row(bodies[k], LastChain(f))>>, TRUE)
           h == [k \in 1..N |-> [f \in LogsOver(S) |-> After(k, f)]]
           Is(minted) == minted = [k \in 0..N |-> IF k = 0 THEN << <<>> >>
                                                  ELSE After(k, minted[k-1])]
<1>1. << <<>> >> \in LogsOver(S) /\ N \in Nat
  BY DEF LogsOver
<1>2. ASSUME NEW k \in 1..N, NEW f \in LogsOver(S)
      PROVE  After(k, f) \in LogsOver(S)
  <2>1. bodies[k] \in S
    OBVIOUS
  <2> QED
    BY <2>1, PutIsOver
<1> HIDE DEF N
<1>3. \E minted : Is(minted)
  <2> HIDE DEF After
  <2>1. h \in [1..N -> [LogsOver(S) -> LogsOver(S)]]
    BY <1>2
  <2>2. \A k \in 1..N, f \in LogsOver(S) : h[k][f] = After(k, f)
    OBVIOUS
  <2> HIDE DEF h
  <2>3. \E g : Recursion(g, LogsOver(S), N, << <<>> >>, h)
    BY <1>1, <2>1, RecursionExists
  <2>4. PICK g \in [0..N -> LogsOver(S)] :
          g[0] = << <<>> >> /\ \A k \in 1..N : g[k] = h[k][g[k-1]]
    BY <2>3 DEF Recursion
  <2>5. \A k \in 0..N : g[k] = IF k = 0 THEN << <<>> >> ELSE After(k, g[k-1])
    BY <1>1, <2>2, <2>4
  <2>6. Is(g)
    BY <2>4, <2>5
  <2> QED
    BY <2>6
<1>4. PICK minted : Is(minted) /\ Minted(bodies) = minted[N]
  <2> DEFINE c == CHOOSE minted : Is(minted)
  <2>1. Is(c)
    BY <1>3, Zenon
  <2>2. Minted(bodies) = c[N]
    BY DEF Minted, N
  <2> HIDE DEF c
  <2> QED
    BY <2>1, <2>2
<1>5. minted[0] = << <<>> >> /\ \A k \in 1..N : minted[k] = After(k, minted[k-1])
  <2> HIDE DEF After
  <2> QED
    BY <1>1, <1>4
<1> DEFINE T == {k \in 0..N : minted[k] \in LogsOver(S)}
<1>6. \A k \in 0..N : k \in T
  <2> HIDE DEF After
  <2>1. 0 \in T
    BY <1>1, <1>5
  <2>2. \A k \in 1..N : k-1 \in T => k \in T
    BY <1>2, <1>5
  <2> HIDE DEF T
  <2> QED
    BY <1>1, <2>1, <2>2, StepByStep
<1>7. N \in 0..N
  BY <1>1
<1> QED
  BY <1>4, <1>6, <1>7

\* The n-th row of a log and its body.
LEMMA BodyOfIs ==
  ASSUME NEW f, Len(f) \in Nat, NEW i \in 1..Len(f), IsRow(f, i)
  PROVE  BodyOf(f, RowNumber(f, i)) = Body(f, i)
<1>1. (CHOOSE k \in 1..Len(f) : IsRow(f, k) /\ RowNumber(f, k) = RowNumber(f, i)) = i
  BY RowAt
<1> QED
  BY <1>1 DEF BodyOf

\* The bodies of the rows in their order.
LEMMA BodiesAreOver ==
  ASSUME NEW S, NEW f \in LogsOver(S)
  PROVE  BodiesOf(f) \in Seq(S) /\ Len(BodiesOf(f)) = RowCount(f) /\ RowCount(f) \in Nat
<1>1. Len(f) \in Nat
  BY DEF LogsOver
<1>2. RowCount(f) = RowNumber(f, Len(f)) /\ RowCount(f) \in Nat
  BY <1>1, CountIsLastNumber
<1>3. ASSUME NEW n \in 1..RowCount(f)
      PROVE  BodyOf(f, n) \in S
  <2>1. n \in 1..RowNumber(f, Len(f))
    BY <1>2
  <2>2. \E i \in 1..Len(f) : IsRow(f, i) /\ RowNumber(f, i) = n
    BY <1>1, <2>1, RowNumbersAreUsed
  <2>3. PICK i \in 1..Len(f) : IsRow(f, i) /\ RowNumber(f, i) = n
    BY <2>2
  <2>4. BodyOf(f, n) = Body(f, i)
    BY <1>1, <2>3, BodyOfIs
  <2> QED
    BY <2>3, <2>4, RowIsPieceOver
<1> QED
  BY <1>2, <1>3 DEF BodiesOf

\* Whatever is rewritten is a log.
LEMMA RewrittenIsOver ==
  ASSUME NEW S, log \in LogsOver(S), NEW bodies \in SUBSET S
  PROVE  Rewritten(bodies) \subseteq LogsOver(S)
<1> DEFINE old == BodiesOf(log)
<1>1. old \in Seq(S) /\ Len(old) = RowCount(log) /\ RowCount(log) \in Nat
  BY BodiesAreOver
<1> HIDE DEF old
<1>2. ASSUME NEW n \in 1..Len(old)
      PROVE  Minted(SubSeq(old, 1, n)) \in LogsOver(S)
  <2>1. SubSeq(old, 1, n) \in Seq(S)
    BY <1>1
  <2> QED
    BY <2>1, MintedIsOver
<1>3. ASSUME NEW i \in DOMAIN old, NEW b \in bodies
      PROVE  Minted([old EXCEPT ![i] = b]) \in LogsOver(S)
  <2>1. [old EXCEPT ![i] = b] \in Seq(S)
    BY <1>1
  <2> QED
    BY <2>1, MintedIsOver
<1>4. ASSUME NEW i \in 1..Len(log), IsRow(log, i), NEW b \in bodies
      PROVE  [log EXCEPT ![i] = <<[log[i][1] EXCEPT !.body = b]>>] \in LogsOver(S)
  <2>1. log[i][1] \in LogPiecesOver(S)
    BY <1>4, RowIsPieceOver
  <2> DEFINE piece == [log[i][1] EXCEPT !.body = b]
  <2>2. piece \in LogPiecesOver(S)
    BY <2>1 DEF LogPiecesOver, PiecesOver
  <2> HIDE DEF piece
  <2>3. <<piece>> \in Seq(LogPiecesOver(S))
    BY <2>2
  <2>4. [log EXCEPT ![i] = <<piece>>] \in LogsOver(S)
    BY <2>3 DEF LogsOver
  <2> QED
    BY <2>4 DEF piece
<1>5. ASSUME NEW f \in Rewritten(bodies)
      PROVE  f \in LogsOver(S)
  <2>1. \/ \E n \in 1..Len(old) : f = Minted(SubSeq(old, 1, n))
        \/ \E i \in DOMAIN old, b \in bodies : f = Minted([old EXCEPT ![i] = b])
        \/ \E i \in {j \in 1..Len(log) : IsRow(log, j)}, b \in bodies :
             f = [log EXCEPT ![i] = <<[log[i][1] EXCEPT !.body = b]>>]
    BY <1>5 DEF Rewritten, old
  <2> QED
    BY <1>2, <1>3, <1>4, <2>1
<1> QED
  BY <1>5

\* The same of a log over Content.
LEMMA LogFilesAre == LogFiles = LogsOver(Content) /\ LogChains = Seq(Content)
BY DEF LogFiles, LogsOver, LogPieces, LogPiecesOver, LogChains

\* A log over some of the bodies is one over all of them.
LEMMA LogsOverMore ==
  ASSUME NEW S, NEW T, S \subseteq T
  PROVE  LogsOver(S) \subseteq LogsOver(T)
<1>1. LogPiecesOver(S) \subseteq LogPiecesOver(T)
  <2>1. Seq(S) \subseteq Seq(T)
    OBVIOUS
  <2> QED
    BY <2>1 DEF LogPiecesOver, PiecesOver
<1> QED
  BY <1>1, SeqGrows DEF LogsOver

\* What the next row of a log chains from.
LEMMA LastChainIsChain ==
  ASSUME NEW f \in LogFiles
  PROVE  LastChain(f) \in LogChains
BY LastChainIsOver, LogFilesAre

\* A row more is a log again.
LEMMA PutIsLog ==
  ASSUME NEW f \in LogFiles, NEW b \in Content
  PROVE  Put(f, FALSE, <<Row(b, LastChain(f))>>, TRUE) \in LogFiles
BY PutIsOver, LogFilesAre

\* The bodies of the rows in their order.
LEMMA BodiesOfIs ==
  ASSUME NEW f \in LogFiles
  PROVE  BodiesOf(f) \in Seq(Content) /\ Len(BodiesOf(f)) = RowCount(f) /\ RowCount(f) \in Nat
BY BodiesAreOver, LogFilesAre

\* The first rows of a log as a log of its own.
LEMMA CutIsLog ==
  ASSUME NEW f \in LogFiles, NEW n \in 0..RowCount(f)
  PROVE  Minted(SubSeq(BodiesOf(f), 1, n)) \in LogFiles
<1>1. BodiesOf(f) \in Seq(Content) /\ Len(BodiesOf(f)) = RowCount(f) /\ RowCount(f) \in Nat
  BY BodiesOfIs
<1>2. SubSeq(BodiesOf(f), 1, n) \in Seq(Content)
  BY <1>1
<1> QED
  BY <1>2, MintedIsOver, LogFilesAre

\* Whatever is rewritten is a log.
LEMMA RewrittenIsLog ==
  ASSUME log \in LogFiles, NEW bodies \in SUBSET Content
  PROVE  Rewritten(bodies) \subseteq LogFiles
BY RewrittenIsOver, LogFilesAre

(***************************************************************************)
(* The shape of a folder.  Of an edit that may put anything into a file,   *)
(* nothing is said but what verify_pack relies on.                         *)
(***************************************************************************)
Listed(s) == \E S : s \in Seq(S)

FolderNames == {"records", "integrity", "witness", "window", "aat", "gaps", "mandate",
                "copy", "cnl", "page", "twin", "summary", "stray", "sum", "manifest"}

\* What integrity.json says of the witness: one that was not asked accuses nobody.
BlockIs(b) ==
  /\ DOMAIN b = {"kind", "independence", "ns", "verdict", "rows", "chain", "at"}
  /\ b.verdict \in {Null} \cup Verdicts
  /\ b.ns = Null => b.verdict \in {Null, "consistent"}

IntegrityIs(t) == /\ DOMAIN t = {"finding", "verdict", "rows", "ok", "sha", "witness"}
                  /\ BlockIs(t.witness)

WindowIs(w) == \E L, R : w \in Seq([line : L, raw : R])

ManifestNames == {"schema", "built", "operator", "win", "complete", "files", "verdict",
                  "checks", "counts", "head", "pins", "mandate", "independence", "aat"}

\* A manifest that could not look lists a check that could not.
ManifestIs(m) == /\ DOMAIN m = ManifestNames
                 /\ Listed(m.pins) /\ Listed(m.checks)
                 /\ m.verdict \in {V, B, C}
                 /\ m.verdict = C => Saying(m.checks, C) # {}

WholeFolder(p) == /\ DOMAIN p = FolderNames
                  /\ p.records \in LogFiles /\ IntegrityIs(p.integrity)
                  /\ WindowIs(p.window) /\ ManifestIs(p.manifest)

Folder(p) == /\ DOMAIN p = FolderNames
             /\ p.records # Null => p.records \in LogFiles
             /\ p.integrity # Null => IntegrityIs(p.integrity)
             /\ p.window # Null => WindowIs(p.window)
             /\ p.manifest # Null => ManifestIs(p.manifest)

\* What the parts of a folder other than these four hold does not matter to its shape.
LEMMA SameParts ==
  ASSUME NEW p, WholeFolder(p), NEW q, DOMAIN q = FolderNames, q.records = p.records,
         q.integrity = p.integrity, q.window = p.window, q.manifest = p.manifest
  PROVE  WholeFolder(q)
BY DEF WholeFolder

\* New hashes do not change the shape.
LEMMA RehashedIsWhole ==
  ASSUME NEW p, WholeFolder(p)
  PROVE  WholeFolder(Rehashed(p))
<1> DEFINE m == [p.manifest EXCEPT !.files = HashTable(p)]
<1>1. ManifestIs(m)
  BY DEF WholeFolder, ManifestIs, ManifestNames
<1> HIDE DEF m
<1>2. WholeFolder([p EXCEPT !.manifest = m, !.sum = m])
  BY <1>1 DEF WholeFolder, FolderNames
<1> QED
  BY <1>2 DEF Rehashed, Stamped, m

\* Writing the hashes again leaves a folder.
LEMMA RehashedIsFolder ==
  ASSUME NEW p, Folder(p)
  PROVE  Folder(Rehashed(p))
<1> DEFINE m == [p.manifest EXCEPT !.files = HashTable(p)]
<1>1. CASE p.manifest = Null
  BY <1>1 DEF Rehashed
<1>2. CASE p.manifest # Null
  <2>1. ManifestIs(m)
    BY <1>2 DEF Folder, ManifestIs, ManifestNames
  <2> HIDE DEF m
  <2>2. Folder([p EXCEPT !.manifest = m, !.sum = m])
    BY <2>1 DEF Folder, FolderNames
  <2> QED
    BY <1>2, <2>2 DEF Rehashed, Stamped, m
<1> QED
  BY <1>1, <1>2

\* A folder with all its files is a folder.
LEMMA WholeIsFolder ==
  ASSUME NEW p, WholeFolder(p)
  PROVE  Folder(p)
BY DEF WholeFolder, Folder

\* The numbers of a set in their order, and what is picked by them.
LEMMA PickedIs ==
  ASSUME NEW n \in Nat, NEW S \in SUBSET (1..n), NEW s
  PROVE  /\ Cardinality(S) \in Nat /\ Listed(Picked(s, S))
         /\ DOMAIN Picked(s, S) = 1..Cardinality(S)
         /\ DOMAIN InOrder(S) = 1..Cardinality(S)
<1>1. Cardinality(S) \in Nat
  BY Counted
<1> DEFINE at == InOrder(S)
           q == [k \in 1..Cardinality(S) |-> s[at[k]]]
<1>2. DOMAIN at = 1..Cardinality(S)
  BY DEF InOrder
<1> HIDE DEF at
<1>3. Picked(s, S) = q
  BY <1>2 DEF Picked, at
<1>4. q \in Seq({q[k] : k \in 1..Cardinality(S)})
  BY <1>1
<1> QED
  BY <1>1, <1>2, <1>3, <1>4 DEF Listed, at

\* The rows of a window, whatever lines it takes.
LEMMA WindowRowsIs ==
  ASSUME NEW f, NEW lines, NEW n \in Nat, DOMAIN lines = 1..n
  PROVE  WindowIs(WindowRows(f, lines))
<1> DEFINE L == {lines[k] : k \in 1..n}
           R == {f[lines[k]] : k \in 1..n}
<1>1. WindowRows(f, lines) = [k \in 1..n |-> [line |-> lines[k], raw |-> f[lines[k]]]]
  BY DEF WindowRows
<1>2. WindowRows(f, lines) \in Seq([line : L, raw : R])
  BY <1>1
<1> QED
  BY <1>2 DEF WindowIs

\* The rows of a window, and the rows it cannot place, are lists.
LEMMA SelectedIsListed ==
  ASSUME NEW f \in LogFiles, NEW o
  PROVE  /\ \E n \in Nat : DOMAIN Selected(f, o) = 1..n
         /\ \E n \in Nat : DOMAIN Unplaced(f, o) = 1..n
<1>1. FileLines(f) \in Nat
  BY DEF LogFiles, FileLines
<1>2. \E n \in Nat : DOMAIN Selected(f, o) = 1..n
  <2> DEFINE S == {i \in 1..FileLines(f) :
                     /\ OfAgent(f, o, i)
                     /\ Bounds(o) => Body(f, i).ts # Null /\ InBounds(f, o, i)}
  <2>1. S \in SUBSET (1..FileLines(f)) /\ Selected(f, o) = InOrder(S)
    BY DEF Selected
  <2> HIDE DEF S
  <2> QED
    BY <1>1, <2>1, PickedIs
<1>3. \E n \in Nat : DOMAIN Unplaced(f, o) = 1..n
  <2> DEFINE S == {i \in 1..FileLines(f) :
                     OfAgent(f, o, i) /\ Bounds(o) /\ Body(f, i).ts = Null}
  <2>1. S \in SUBSET (1..FileLines(f)) /\ Unplaced(f, o) = InOrder(S)
    BY DEF Unplaced
  <2> HIDE DEF S
  <2> QED
    BY <1>1, <2>1, PickedIs
<1> QED
  BY <1>2, <1>3

(***************************************************************************)
(* The words of a build.                                                   *)
(***************************************************************************)
\* Two lists, one after the other.
LEMMA ConcatIsListed ==
  ASSUME NEW a, NEW b, Listed(a), Listed(b)
  PROVE  /\ Listed(a \o b) /\ Len(a) \in Nat /\ Len(b) \in Nat
         /\ DOMAIN (a \o b) = 1..(Len(a) + Len(b))
         /\ \A k \in 1..Len(a) : (a \o b)[k] = a[k]
         /\ \A k \in 1..Len(b) : (a \o b)[Len(a) + k] = b[k]
<1>1. PICK S, T : a \in Seq(S) /\ b \in Seq(T)
  BY DEF Listed
<1>2. Len(a) \in Nat /\ Len(b) \in Nat
  BY <1>1
<1>3. a \in Seq(S \cup T) /\ b \in Seq(S \cup T)
  BY <1>1
<1>4. a \o b \in Seq(S \cup T) /\ Len(a \o b) = Len(a) + Len(b)
  BY <1>3
<1>5. /\ \A k \in 1..Len(a) : (a \o b)[k] = a[k]
      /\ \A k \in 1..Len(b) : (a \o b)[Len(a) + k] = b[k]
  BY <1>3
<1> QED
  BY <1>2, <1>4, <1>5 DEF Listed

\* The first two checks of a build are of the records and of the window.
LEMMA BaseChecksAre ==
  ASSUME NEW integrity, NEW window, NEW unplaced
  PROVE  LET base == BaseChecks(integrity, window, unplaced)
         IN  /\ Listed(base) /\ {1, 2} \subseteq DOMAIN base
             /\ base[1].verdict = integrity.verdict
             /\ base[2].verdict = IF window = <<>> THEN C ELSE V
             /\ base[1].check \in BaseNames /\ base[2].check \in BaseNames
<1> DEFINE r == IF integrity.verdict = C
                THEN ReasonOf(integrity.finding, integrity.witness.verdict) ELSE Null
           one == Check("records chain and witness cross-check", integrity.verdict, r)
           two == IF window = <<>> THEN Check("window has rows", C, "empty")
                  ELSE Check("window has rows", V, Null)
           rest == IF unplaced = <<>> THEN <<>>
                   ELSE <<Check("every agent row placed in or out of the window", C,
                                "unreadable")>>
<1>1. /\ one.verdict = integrity.verdict
      /\ one.check = "records chain and witness cross-check"
  BY DEF Check
<1>2. /\ two.verdict = IF window = <<>> THEN C ELSE V
      /\ two.check = "window has rows"
  BY DEF Check
<1>3. BaseChecks(integrity, window, unplaced) = <<one, two>> \o rest
  BY DEF BaseChecks
<1> HIDE DEF one, two
<1>4. Listed(<<one, two>>)
  <2>1. <<one, two>> \in Seq({one, two})
    OBVIOUS
  <2> QED
    BY <2>1 DEF Listed
<1>5. Listed(rest)
  <2> DEFINE c == Check("every agent row placed in or out of the window", C, "unreadable")
  <2> HIDE DEF c
  <2>1. <<c>> \in Seq({c}) /\ <<>> \in Seq({c})
    OBVIOUS
  <2> QED
    BY <2>1 DEF Listed, c
<1> HIDE DEF rest
<1>6. LET base == <<one, two>> \o rest
      IN  Listed(base) /\ {1, 2} \subseteq DOMAIN base /\ base[1] = one /\ base[2] = two
  <2>1. Len(<<one, two>>) = 2 /\ <<one, two>>[1] = one /\ <<one, two>>[2] = two
    OBVIOUS
  <2> QED
    BY <1>4, <1>5, <2>1, ConcatIsListed
<1> QED
  BY <1>1, <1>2, <1>3, <1>6 DEF BaseNames

\* The checks of the mandate are a list.
LEMMA MandateChecksAreListed ==
  ASSUME NEW s
  PROVE  Listed(MandateChecks(s))
<1> DEFINE a == Check("mandate file read", C, "missing")
           b == Check("mandate file is the one the gate loaded", C, "missing")
           c == Check("mandate file is the one the gate loaded", C, "name_not_found")
           d == Check("mandate file is the one the gate loaded", V, Null)
           e == Check("mandate inside count", C, "bounded")
           x == IF s.named = {} THEN b ELSE IF s.sha \notin s.named THEN c ELSE d
           z == IF s.open THEN <<e>> ELSE <<>>
<1>1. MandateChecks(s) = IF s.sha = Null THEN <<a>> ELSE <<x>> \o z
  BY DEF MandateChecks
<1> HIDE DEF a, b, c, d, x
<1>2. Listed(<<a>>) /\ Listed(<<x>>)
  <2>1. <<a>> \in Seq({a}) /\ <<x>> \in Seq({x})
    OBVIOUS
  <2> QED
    BY <2>1 DEF Listed
<1>3. Listed(z)
  <2> HIDE DEF e
  <2>1. <<e>> \in Seq({e}) /\ <<>> \in Seq({e})
    OBVIOUS
  <2> QED
    BY <2>1 DEF Listed
<1> HIDE DEF z
<1>4. Listed(<<x>> \o z)
  BY <1>2, <1>3, ConcatIsListed
<1> QED
  BY <1>1, <1>2, <1>4

\* A build whose word is that it could not look lists a check that could not.
Told(word, checks) == word \in {V, B, C} /\ (word = C => Saying(checks, C) # {})

WindowWord(integrity, window, checks) == BuildWord(integrity, window # <<>>, checks)

\* The checks of a build are a list, and its word is told by one of them.
LEMMA CouldNotLookIsListed ==
  ASSUME NEW integrity, NEW window, NEW unplaced, NEW more, Listed(more),
         NEW checks, checks = BaseChecks(integrity, window, unplaced) \o more
  PROVE  Listed(checks) /\ Told(WindowWord(integrity, window, checks), checks)
<1> DEFINE base == BaseChecks(integrity, window, unplaced)
           word == BuildWord(integrity, window # <<>>, checks)
           first == IF ~(window # <<>>) /\ integrity.verdict # B THEN C ELSE integrity.verdict
           others == {c \in Range(checks) : c.check \notin BaseNames}
           words == {first} \cup {c.verdict : c \in others}
<1>1. /\ Listed(base) /\ {1, 2} \subseteq DOMAIN base
      /\ base[1].verdict = integrity.verdict
      /\ base[2].verdict = IF window = <<>> THEN C ELSE V
  BY BaseChecksAre
<1> HIDE DEF base
<1>2. /\ Listed(checks) /\ {1, 2} \subseteq DOMAIN checks
      /\ checks[1] = base[1] /\ checks[2] = base[2]
  <2>1. DOMAIN base = 1..Len(base)
    BY <1>1 DEF Listed
  <2>2. checks = base \o more
    BY DEF base
  <2> QED
    BY <1>1, <2>1, <2>2, ConcatIsListed
<1>3. word = Worst(words)
  BY DEF BuildWord
<1>4. word \in {V, B, C} /\ (word = C => C \in words)
  <2> HIDE DEF words, word
  <2> QED
    BY <1>3 DEF Worst, V, B, C
<1>5. ASSUME C \in words
      PROVE  Saying(checks, C) # {}
  <2>1. CASE C = first
    <3>1. window = <<>> \/ integrity.verdict = C
      BY <2>1
    <3>2. checks[2].verdict = C \/ checks[1].verdict = C
      BY <1>1, <1>2, <3>1
    <3> QED
      BY <1>2, <3>2 DEF Saying
  <2>2. CASE C \in {c.verdict : c \in others}
    <3>1. PICK k \in DOMAIN checks : checks[k].verdict = C
      BY <2>2 DEF Range
    <3> QED
      BY <3>1 DEF Saying
  <2> QED
    BY <1>5, <2>1, <2>2
<1> QED
  BY <1>2, <1>4, <1>5 DEF Told, WindowWord

\* The manifest leaves a folder with all its files.
LEMMA SealIsWhole ==
  ASSUME NEW p, DOMAIN p = FolderNames, p.records \in LogFiles, IntegrityIs(p.integrity),
         WindowIs(p.window), DOMAIN p.manifest = ManifestNames
  PROVE  WholeFolder(Seal(p))
<1> DEFINE m == p.manifest
           more == IF p.mandate = Null THEN <<>> ELSE MandateChecks(p.mandate)
           checks == BaseChecks(p.integrity, p.window, m.win.unplaced) \o more
           word == BuildWord(p.integrity, p.window # <<>>, checks)
           texts == Sentences(word, m.win, m.win.lines, m.win.unplaced, p.mandate)
           sealed == [m EXCEPT
             !.verdict = word, !.checks = checks, !.counts = Counts(checks),
             !.head = [chain |-> LastChain(p.records), rows |-> RowCount(p.records)],
             !.pins = PinsOf(p.integrity.witness), !.mandate = p.mandate,
             !.independence = Independence(p.integrity.witness.kind),
             !.aat = IF p.aat = Null THEN Null ELSE p.aat.head]
           q == [p EXCEPT !.cnl = Missed(checks), !.page = Tagged(texts),
                          !.twin = Tagged(texts),
                          !.summary = Summary(p.records, p.integrity),
                          !.manifest = sealed]
<1>1. Seal(p) = Rehashed(q)
  BY DEF Seal
<1>2. Listed(more)
  <2>1. Listed(<<>>)
    BY DEF Listed
  <2> QED
    BY <2>1, MandateChecksAreListed
<1> HIDE DEF more
<1>3. Listed(checks) /\ word \in {V, B, C} /\ (word = C => Saying(checks, C) # {})
  BY <1>2, CouldNotLookIsListed DEF Told, WindowWord
<1>4. Listed(PinsOf(p.integrity.witness))
  <2> DEFINE b == p.integrity.witness
             r == [ns |-> b.ns, rows |-> b.rows, chain |-> b.chain, at |-> b.at]
  <2>1. PinsOf(b) = IF b.rows = Null THEN <<>> ELSE <<r>>
    BY DEF PinsOf
  <2> HIDE DEF r
  <2>2. <<r>> \in Seq({r}) /\ <<>> \in Seq({r})
    OBVIOUS
  <2> QED
    BY <2>1, <2>2 DEF Listed
<1> HIDE DEF checks, word
<1>5. ManifestIs(sealed)
  BY <1>3, <1>4 DEF ManifestIs, ManifestNames
<1> HIDE DEF sealed, texts
<1>6. WholeFolder(q)
  BY <1>5 DEF WholeFolder, FolderNames
<1> HIDE DEF q
<1> QED
  BY <1>1, <1>6, RehashedIsWhole

(***************************************************************************)
(* Every edit of a folder leaves a folder.                                 *)
(***************************************************************************)
\* The window and the fields that say how it was taken.
LEMMA WindowEditsAreWhole ==
  ASSUME NEW p, WholeFolder(p), NEW q \in WindowEdits(p)
  PROVE  WholeFolder(q)
<1> DEFINE m == p.manifest
<1>1. ASSUME NEW k \in DOMAIN p.window
      PROVE  WindowIs(RemoveAt(p.window, k))
  <2>1. PICK L, R : p.window \in Seq([line : L, raw : R])
    BY DEF WholeFolder, WindowIs
  <2>2. RemoveAt(p.window, k) \in Seq([line : L, raw : R])
    <3> DEFINE T == [line : L, raw : R]
               w == p.window
    <3>1. w \in Seq(T) /\ k \in 1..Len(w)
      BY <2>1
    <3> HIDE DEF T, w
    <3>2. SubSeq(w, 1, k-1) \in Seq(T) /\ SubSeq(w, k+1, Len(w)) \in Seq(T)
      BY <3>1
    <3>3. RemoveAt(w, k) \in Seq(T)
      BY <3>2 DEF RemoveAt
    <3> QED
      BY <3>3 DEF T, w
  <2> QED
    BY <2>2 DEF WindowIs
<1>2. ASSUME NEW w, WindowIs(w), NEW lines,
             q = [p EXCEPT !.window = w, !.manifest.win.lines = lines]
      PROVE  WholeFolder(q)
  BY <1>2 DEF WholeFolder, FolderNames, ManifestIs, ManifestNames
<1>3. ASSUME NEW win, q = [p EXCEPT !.manifest = [p.manifest EXCEPT !.win = win]]
      PROVE  WholeFolder(q)
  BY <1>3 DEF WholeFolder, FolderNames, ManifestIs, ManifestNames
<1>4. \/ \E k \in DOMAIN p.window :
           q = [p EXCEPT !.window = RemoveAt(p.window, k),
                         !.manifest.win.lines = LinesOf(RemoveAt(p.window, k))]
      \/ q = [p EXCEPT !.manifest = [p.manifest EXCEPT !.win = [p.manifest.win EXCEPT !.agent = Null]]]
      \/ q = [p EXCEPT !.manifest = [p.manifest EXCEPT !.win = [p.manifest.win EXCEPT !.from = Null]]]
      \/ q = [p EXCEPT !.manifest = [p.manifest EXCEPT !.win = [p.manifest.win EXCEPT !.to = Null]]]
      \/ q = [p EXCEPT !.manifest = [p.manifest EXCEPT !.win = [p.manifest.win EXCEPT !.unplaced = <<>>]]]
  BY DEF WindowEdits
<1> QED
  BY <1>1, <1>2, <1>3, <1>4

\* What the folder says of the witness and of its pins.
LEMMA WitnessEditsAreWhole ==
  ASSUME NEW p, WholeFolder(p), Null \notin {Own, Alt} \cup Verdicts,
         \A i \in DOMAIN pins : pins[i].ns \in {Own, Alt}, NEW q \in WitnessEdits(p)
  PROVE  WholeFolder(q)
<1> DEFINE As(block) == [p EXCEPT !.integrity.witness = block, !.integrity.verdict = V,
                                  !.integrity.finding = Finding(p.records, block.verdict),
                                  !.witness = IF block.ns = Null THEN Null ELSE block]
           block == p.integrity.witness
           Pinned(i) == [kind |-> "local_file", independence |-> "self_asserted",
                         ns |-> pins[i].ns, verdict |-> "consistent", rows |-> pins[i].rows,
                         chain |-> pins[i].chain, at |-> pins[i].at]
<1>1. ASSUME NEW b, BlockIs(b)
      PROVE  WholeFolder(As(b))
  BY <1>1 DEF WholeFolder, FolderNames, IntegrityIs
<1>2. BlockIs(NoWitness) /\ BlockIs([block EXCEPT !.verdict = "consistent"])
  <2>1. BlockIs(block)
    BY DEF WholeFolder, IntegrityIs
  <2> HIDE DEF block
  <2> QED
    BY <2>1 DEF BlockIs, NoWitness, Verdicts
<1>3. ASSUME NEW i \in DOMAIN pins
      PROVE  BlockIs(Pinned(i))
  BY <1>3 DEF BlockIs, Verdicts
<1>4. ASSUME NEW t, q = [p EXCEPT !.manifest.built = t]
      PROVE  WholeFolder(q)
  BY <1>4 DEF WholeFolder, FolderNames, ManifestIs, ManifestNames
<1>5. ASSUME q = [p EXCEPT !.manifest.pins = <<>>]
      PROVE  WholeFolder(q)
  <2>1. Listed(<<>>)
    BY DEF Listed
  <2> QED
    BY <1>5, <2>1 DEF WholeFolder, FolderNames, ManifestIs, ManifestNames
<1>6. ASSUME q = [p EXCEPT !.integrity.verdict = V, !.integrity.finding = "PASS"]
      PROVE  WholeFolder(q)
  BY <1>6 DEF WholeFolder, FolderNames, IntegrityIs
<1>7. ASSUME q = [p EXCEPT !.integrity.witness.independence = "externally_verifiable",
                           !.manifest.independence = "externally_verifiable"]
      PROVE  WholeFolder(q)
  <2>1. IntegrityIs(q.integrity)
    BY <1>7 DEF WholeFolder, FolderNames, IntegrityIs, BlockIs
  <2>2. ManifestIs(q.manifest)
    BY <1>7 DEF WholeFolder, FolderNames, ManifestIs, ManifestNames
  <2> QED
    BY <1>7, <2>1, <2>2 DEF WholeFolder, FolderNames
<1>8. \/ \E t \in 0..MaxTime : q = [p EXCEPT !.manifest.built = t]
      \/ q = [p EXCEPT !.manifest.pins = <<>>]
      \/ q = As(NoWitness) \/ q = As([block EXCEPT !.verdict = "consistent"])
      \/ q = [p EXCEPT !.integrity.verdict = V, !.integrity.finding = "PASS"]
      \/ q = [p EXCEPT !.integrity.witness.independence = "externally_verifiable",
                       !.manifest.independence = "externally_verifiable"]
      \/ \E i \in DOMAIN pins : q = As(Pinned(i))
  BY DEF WitnessEdits
<1> HIDE DEF As, Pinned
<1> QED
  BY <1>1, <1>2, <1>3, <1>4, <1>5, <1>6, <1>7, <1>8

\* The copy of the log is cut short, with or without what is derived from it.
LEMMA RecordEditsAreWhole ==
  ASSUME NEW p, WholeFolder(p), NEW q \in RecordEdits(p)
  PROVE  WholeFolder(q)
<1> DEFINE f == p.records
           Cut(n) == Minted(SubSeq(BodiesOf(f), 1, n))
<1>1. ASSUME NEW n \in 0..RowCount(f)-1
      PROVE  Cut(n) \in LogFiles
  <2>1. f \in LogFiles /\ RowCount(f) \in Nat
    BY BodiesOfIs DEF WholeFolder
  <2>2. n \in 0..RowCount(f)
    BY <2>1
  <2> QED
    BY <2>1, <2>2, CutIsLog
<1>2. ASSUME NEW r \in LogFiles, q = [p EXCEPT !.records = r]
      PROVE  WholeFolder(q)
  BY <1>2 DEF WholeFolder, FolderNames
<1>3. ASSUME NEW r \in LogFiles,
             q = [p EXCEPT !.records = r, !.integrity.sha = r, !.integrity.rows = RowCount(r),
                           !.window = WindowRows(r, Selected(r, p.manifest.win)),
                           !.manifest.win.lines = Selected(r, p.manifest.win)]
      PROVE  WholeFolder(q)
  <2> DEFINE lines == Selected(r, p.manifest.win)
             w == WindowRows(r, lines)
  <2>1. WindowIs(w)
    <3>1. PICK n \in Nat : DOMAIN lines = 1..n
      BY SelectedIsListed
    <3> QED
      BY <3>1, WindowRowsIs
  <2> HIDE DEF lines, w
  <2>2. IntegrityIs(q.integrity)
    BY <1>3 DEF WholeFolder, FolderNames, IntegrityIs, BlockIs
  <2>3. ManifestIs(q.manifest)
    BY <1>3 DEF WholeFolder, FolderNames, ManifestIs, ManifestNames
  <2>4. DOMAIN q = FolderNames /\ q.records = r /\ q.window = w
    BY <1>3 DEF WholeFolder, FolderNames, lines, w
  <2> QED
    BY <2>1, <2>2, <2>3, <2>4 DEF WholeFolder
<1>4. \/ \E n \in 0..RowCount(f)-1 : q = [p EXCEPT !.records = Cut(n)]
      \/ \E r \in {Cut(n) : n \in 0..RowCount(f)-1} :
           q = [p EXCEPT !.records = r, !.integrity.sha = r, !.integrity.rows = RowCount(r),
                         !.window = WindowRows(r, Selected(r, p.manifest.win)),
                         !.manifest.win.lines = Selected(r, p.manifest.win)]
  BY DEF RecordEdits
<1> HIDE DEF Cut
<1> QED
  BY <1>1, <1>2, <1>3, <1>4

\* The optional parts.
LEMMA PartEditsAreWhole ==
  ASSUME NEW p, WholeFolder(p), NEW q \in PartEdits(p)
  PROVE  WholeFolder(q)
<1>1. \/ \E s : q = [p EXCEPT !.mandate = s]
      \/ \E a : q = [p EXCEPT !.aat = a]
      \/ \E g : q = [p EXCEPT !.gaps = g]
  BY DEF PartEdits
<1>2. /\ DOMAIN q = FolderNames /\ q.records = p.records /\ q.integrity = p.integrity
      /\ q.window = p.window /\ q.manifest = p.manifest
  BY <1>1 DEF WholeFolder, FolderNames
<1> QED
  BY <1>2, SameParts

\* Page one, the checks that could not look, and single fields of the manifest.
LEMMA PageEditsAreWhole ==
  ASSUME NEW p, WholeFolder(p), NEW q \in PageEdits(p)
  PROVE  WholeFolder(q)
<1> DEFINE Say(word) == [id \in DOMAIN p.page |->
                           IF id = "verdict" THEN [p.page[id] EXCEPT !.text = word]
                           ELSE p.page[id]]
           plain == PlainPage([id \in DOMAIN p.page |-> p.page[id].text])
           kept == Picked(p.manifest.checks,
                          DOMAIN p.manifest.checks \ Saying(p.manifest.checks, C))
<1>1. \/ q = [p EXCEPT !.page = Say(V)]
      \/ q = [p EXCEPT !.page = Say(V), !.twin = Say(V)]
      \/ q = [p EXCEPT !.cnl = <<>>] \/ q = [p EXCEPT !.summary = <<>>]
      \/ q = [p EXCEPT !.stray = "file"]
      \/ q = [p EXCEPT !.page = plain, !.twin = Null, !.manifest.schema = 1]
      \/ q = [p EXCEPT !.cnl = <<>>, !.manifest.checks = kept,
                       !.manifest.counts = [@ EXCEPT ![C] = 0], !.manifest.verdict = V]
      \/ q = [p EXCEPT !.manifest.verdict = V]
      \/ q = [p EXCEPT !.manifest.head.rows = @ + 1]
      \/ q = [p EXCEPT !.manifest.operator = "someone"]
      \/ q = [p EXCEPT !.manifest.complete = FALSE]
  BY DEF PageEdits
<1>2. Listed(kept)
  <2>1. PICK n \in Nat : DOMAIN p.manifest.checks = 1..n
    <3>1. PICK S : p.manifest.checks \in Seq(S)
      BY DEF WholeFolder, ManifestIs, Listed
    <3> QED
      BY <3>1
  <2>2. DOMAIN p.manifest.checks \ Saying(p.manifest.checks, C) \in SUBSET (1..n)
    BY <2>1
  <2> QED
    BY <2>2, PickedIs
<1> HIDE DEF Say, plain, kept
<1>3. CASE \/ q = [p EXCEPT !.page = Say(V)]
           \/ q = [p EXCEPT !.page = Say(V), !.twin = Say(V)]
           \/ q = [p EXCEPT !.cnl = <<>>] \/ q = [p EXCEPT !.summary = <<>>]
           \/ q = [p EXCEPT !.stray = "file"]
  BY <1>3 DEF WholeFolder, FolderNames
<1>4. CASE q = [p EXCEPT !.page = plain, !.twin = Null, !.manifest.schema = 1]
  BY <1>4 DEF WholeFolder, FolderNames, ManifestIs, ManifestNames
<1>5. CASE q = [p EXCEPT !.cnl = <<>>, !.manifest.checks = kept,
                         !.manifest.counts = [@ EXCEPT ![C] = 0], !.manifest.verdict = V]
  BY <1>2, <1>5 DEF WholeFolder, FolderNames, ManifestIs, ManifestNames, V, B, C
<1>6. CASE q = [p EXCEPT !.manifest.verdict = V]
  BY <1>6 DEF WholeFolder, FolderNames, ManifestIs, ManifestNames, V, B, C
<1>7. CASE q = [p EXCEPT !.manifest.head.rows = @ + 1]
  BY <1>7 DEF WholeFolder, FolderNames, ManifestIs, ManifestNames
<1>8. CASE q = [p EXCEPT !.manifest.operator = "someone"]
  BY <1>8 DEF WholeFolder, FolderNames, ManifestIs, ManifestNames
<1>9. CASE q = [p EXCEPT !.manifest.complete = FALSE]
  BY <1>9 DEF WholeFolder, FolderNames, ManifestIs, ManifestNames
<1> QED
  BY <1>1, <1>3, <1>4, <1>5, <1>6, <1>7, <1>8, <1>9

PinsOfLogs == [ns : {Own, Alt}, rows : Nat, chain : LogChains, at : Nat]

(***************************************************************************)
(* The invariant: what a log, a pin file and a folder can be.              *)
(***************************************************************************)
PackInv == /\ subject \in Subjects /\ clock \in 0..MaxTime
           /\ log \in LogFiles
           /\ pins \in Seq(PinsOfLogs)
           /\ pack # Null => Folder(pack)

\* What the build writes is whole.
LEMMA BuiltIsWhole ==
  ASSUME NEW f \in LogFiles, NEW P, NEW whole, NEW o, NEW now
  PROVE  WholeFolder(Built(f, P, whole, o, now))
<1> DEFINE block == WitnessBlock(f, P, whole, o.ns)
           integrity == Integrity(f, block)
           lines == Selected(f, o)
           witness == IF o.ns = Null THEN Null ELSE integrity.witness
           aat == IF o.aat THEN Aat(f) ELSE Null
           gaps == IF o.aat THEN Gaps(f) ELSE Null
           mandate == IF o.mandate THEN Section(f, lines, o.copy) ELSE Null
           win == [agent |-> o.agent, from |-> o.from, to |-> o.to,
                   lines |-> lines, unplaced |-> Unplaced(f, o)]
           m == [schema |-> 2, built |-> now, operator |-> "UNKNOWN", win |-> win,
                 complete |-> TRUE, files |-> Null, verdict |-> Null, checks |-> Null,
                 counts |-> Null, head |-> Null, pins |-> Null, mandate |-> Null,
                 independence |-> Null, aat |-> Null]
           p == [records |-> f, integrity |-> integrity, witness |-> witness,
                 window |-> WindowRows(f, lines), aat |-> aat, gaps |-> gaps,
                 mandate |-> mandate, copy |-> o.copy, cnl |-> Null, page |-> Null,
                 twin |-> Null, summary |-> Null, stray |-> Null, sum |-> Null,
                 manifest |-> m]
<1>1. Built(f, P, whole, o, now) = Seal(p)
  BY DEF Built
<1>2. WindowIs(WindowRows(f, lines))
  <2>1. PICK n \in Nat : DOMAIN lines = 1..n
    BY SelectedIsListed
  <2> QED
    BY <2>1, WindowRowsIs
<1>3. BlockIs(block)
  <2>1. CASE o.ns = Null
    BY <2>1 DEF WitnessBlock, NoWitness, BlockIs
  <2>2. CASE o.ns # Null
    <3> DEFINE a == Audit(f, P, DOMAIN P, whole, o.ns)
    <3>1. a.verdict \in Verdicts
      <4> HIDE <2>2
      <4> QED
        BY DEF Audit, Verdicts
    <3>2. block = [kind |-> "local_file", independence |-> "self_asserted", ns |-> o.ns,
                   verdict |-> a.verdict, rows |-> a.rows, chain |-> a.chain, at |-> a.at]
      BY <2>2 DEF WitnessBlock
    <3> HIDE DEF a
    <3> QED
      BY <2>2, <3>1, <3>2 DEF BlockIs
  <2> QED
    BY <2>1, <2>2
<1>4. IntegrityIs(integrity)
  <2> HIDE DEF block
  <2> QED
    BY <1>3 DEF Integrity, IntegrityIs
<1> HIDE DEF integrity, witness, aat, gaps, mandate, win, lines
<1>5. DOMAIN m = ManifestNames
  BY DEF ManifestNames
<1> HIDE DEF m
<1>6. /\ DOMAIN p = FolderNames /\ p.records = f /\ p.integrity = integrity
      /\ p.window = WindowRows(f, lines) /\ p.manifest = m
  BY DEF FolderNames
<1> HIDE DEF p
<1> QED
  BY <1>1, <1>2, <1>4, <1>5, <1>6, SealIsWhole

\* The shape of the log, of the pins and of the folder is an invariant of packing,
\* whatever is edited.
LEMMA PackInvHolds == PackSpec => []PackInv
<1>1. PackInit => PackInv
  <2> SUFFICES ASSUME PackInit
               PROVE  PackInv
    OBVIOUS
  <2>1. <<>> \in LogFiles /\ <<>> \in Seq(PinsOfLogs)
    BY DEF LogFiles
  <2> QED
    BY <2>1, BodiesAreContent DEF PackInit, PackInv
<1>2. PackInv /\ [PackNext]_packVars => PackInv'
  <2> SUFFICES ASSUME PackInv, [PackNext]_packVars
               PROVE  PackInv'
    OBVIOUS
  <2> USE DEF PackInv
  <2>1. ASSUME NEW b \in subject.bodies[clock], Write(b)
        PROVE  PackInv'
    <3>1. b \in Content
      BY <2>1, BodiesAreContent
    <3>2. log' \in LogFiles
      BY <2>1, <3>1, PutIsLog DEF Write
    <3> QED
      BY <2>1, <3>2 DEF Write
  <2>2. ASSUME NEW ns \in {Own, Alt}, Publish(ns)
        PROVE  PackInv'
    <3> DEFINE mark == [ns |-> ns, rows |-> RowCount(log), chain |-> LastChain(log), at |-> clock]
    <3>1. mark \in PinsOfLogs
      BY BodiesOfIs, LastChainIsChain, BodiesAreContent DEF PinsOfLogs
    <3>2. pins' = Append(pins, mark)
      BY <2>2 DEF Publish
    <3> HIDE DEF mark
    <3>3. pins' \in Seq(PinsOfLogs)
      BY <3>1, <3>2
    <3> QED
      BY <2>2, <3>3 DEF Publish
  <2>3. ASSUME NEW o \in subject.options, Build(o)
        PROVE  PackInv'
    <3>1. Folder(pack')
      BY <2>3, BuiltIsWhole, WholeIsFolder DEF Build
    <3> QED
      BY <2>3, <3>1 DEF Build
  <2>4. ASSUME Tick
        PROVE  PackInv'
    BY <2>4, BodiesAreContent DEF Tick
  <2>5. ASSUME Rewrite
        PROVE  PackInv'
    <3>1. subject.bodies[clock] \in SUBSET Content
      BY BodiesAreContent
    <3>2. log' \in LogFiles
      BY <2>5, <3>1, RewrittenIsLog DEF Rewrite
    <3> QED
      BY <2>5, <3>2 DEF Rewrite
  <2>6. ASSUME BreakPinFile
        PROVE  PackInv'
    BY <2>6 DEF BreakPinFile
  <2>7. ASSUME Edit
        PROVE  PackInv'
    <3>1. WholeFolder(pack)
      BY <2>7 DEF Edit, Touched, NotBuilt, Whole, Lacks, Present, Folder, WholeFolder
    <3>2. ASSUME NEW q \in Changed(pack)
          PROVE  WholeFolder(q)
      <4>1. \A i \in DOMAIN pins : pins[i].ns \in {Own, Alt}
        <5>1. \A i \in DOMAIN pins : pins[i] \in PinsOfLogs
          OBVIOUS
        <5> QED
          BY <5>1 DEF PinsOfLogs
      <4>2. q \in WitnessEdits(pack) \cup RecordEdits(pack) \cup WindowEdits(pack)
                  \cup PartEdits(pack) \cup PageEdits(pack)
        BY <3>2 DEF Changed
      <4> QED
        BY <3>1, <4>1, <4>2, NullIsApart, WitnessEditsAreWhole, RecordEditsAreWhole,
           WindowEditsAreWhole, PartEditsAreWhole, PageEditsAreWhole
    <3>3. \/ \E q \in Changed(pack) : pack' \in {Rehashed(q), Seal(q)}
          \/ pack' = [pack EXCEPT !.stray = "file"]
          \/ pack' = [pack EXCEPT !.manifest.pins = <<>>]
      BY <2>7 DEF Edit
    <3>4. WholeFolder(pack')
      <4>1. CASE \E q \in Changed(pack) : pack' \in {Rehashed(q), Seal(q)}
        <5>1. PICK q \in Changed(pack) : pack' = Rehashed(q) \/ pack' = Seal(q)
          BY <4>1
        <5>2. WholeFolder(q)
          BY <3>2
        <5>3. WholeFolder(Rehashed(q))
          BY <5>2, RehashedIsWhole
        <5>4. WholeFolder(Seal(q))
          BY <5>2, SealIsWhole DEF WholeFolder, ManifestIs
        <5> QED
          BY <5>1, <5>3, <5>4
      <4>2. CASE pack' = [pack EXCEPT !.stray = "file"]
        BY <3>1, <4>2 DEF WholeFolder, FolderNames
      <4>3. CASE pack' = [pack EXCEPT !.manifest.pins = <<>>]
        <5>1. Listed(<<>>)
          BY DEF Listed
        <5> QED
          BY <3>1, <4>3, <5>1 DEF WholeFolder, FolderNames, ManifestIs, ManifestNames
      <4> QED
        BY <3>3, <4>1, <4>2, <4>3
    <3>5. Folder(pack')
      BY <3>4, WholeIsFolder
    <3> QED
      BY <2>7, <3>5 DEF Edit
  <2>8. ASSUME Lose
        PROVE  PackInv'
    <3>1. Folder(pack)
      BY <2>8 DEF Lose, Touched, NotBuilt
    <3>2. ASSUME NEW n \in DOMAIN pack
          PROVE  Folder([pack EXCEPT ![n] = Null])
      BY <3>1 DEF Folder, FolderNames
    <3>3. \/ \E n \in DOMAIN pack : pack' = Rehashed([pack EXCEPT ![n] = Null])
          \/ pack' = [pack EXCEPT !["sum"] = Null]
      BY <2>8 DEF Lose, Present
    <3>4. "sum" \in DOMAIN pack
      BY <3>1 DEF Folder, FolderNames
    <3>5. Folder(pack')
      BY <3>2, <3>3, <3>4, RehashedIsFolder
    <3> QED
      BY <2>8, <3>5 DEF Lose
  <2>9. CASE UNCHANGED packVars
    BY <2>9 DEF packVars
  <2> QED
    BY <2>1, <2>2, <2>3, <2>4, <2>5, <2>6, <2>7, <2>8, <2>9 DEF PackNext
<1> QED
  BY <1>1, <1>2, PTL DEF PackSpec

(***************************************************************************)
(* What verify_pack has established of a pack that it calls VERIFIED.      *)
(***************************************************************************)
\* The words of the steps.
LEMMA VerifiedMeans ==
  ASSUME NEW p, NEW given, NEW ns, Verified(p, given, ns)
  PROVE  /\ p.manifest # Null
         /\ StepHashes(p) = V /\ StepChain(p) = V /\ StepWindow(p) = V /\ StepBuild(p) = V
         /\ StepManifestHash(p) = V /\ StepAat(p) = V /\ StepMandate(p) = V
         /\ StepRederived(p) = V /\ StepBearer(p) = V /\ StepPins(p, given, ns) = V
BY DEF Verified, OtherSteps

\* A chain step that says VERIFIED had records to look at, and they are green.
LEMMA ChainStepMeans ==
  ASSUME NEW p, StepChain(p) = V
  PROVE  /\ p.records # Null /\ Ok(p.records, FALSE) = "True"
         /\ p.manifest.head = [chain |-> LastChain(p.records), rows |-> RowCount(p.records)]
<1>1. p.records # Null
  BY DEF StepChain, Lacks, Present, V, C
<1>2. Ok(p.records, FALSE) \in {"True", "None", "False"}
  BY DEF Ok
<1>3. Ok(p.records, FALSE) = "True"
  BY <1>2 DEF StepChain, V, B, C
<1>4. p.manifest.head = [chain |-> LastChain(p.records), rows |-> RowCount(p.records)]
  BY <1>3 DEF StepChain, Judge, V, B, C
<1> QED
  BY <1>1, <1>3, <1>4

\* In a green log the chain value of a row spells the bodies up to it.
LEMMA ChainAtSpells ==
  ASSUME NEW f \in LogFiles, Ok(f, FALSE) = "True", NEW n \in 0..RowCount(f)
  PROVE  ChainAt(f, n) = SubSeq(BodiesOf(f), 1, n)
<1>1. Clean(f) /\ Linked(f) /\ Len(f) \in Nat
  <2>1. f \in Seq(Seq(PiecesOver(Content, LogChains)))
    BY DEF LogFiles, LogPieces
  <2>2. Len(f) \in Nat
    BY <2>1
  <2> QED
    BY <2>1, <2>2, GreenIsClean
<1>2. BodiesOf(f) \in Seq(Content) /\ Len(BodiesOf(f)) = RowCount(f) /\ RowCount(f) \in Nat
  BY BodiesOfIs
<1>3. CASE n = 0
  BY <1>2, <1>3 DEF ChainAt, Genesis
<1>4. CASE n # 0
  <2>1. RowCount(f) = RowNumber(f, Len(f))
    BY <1>1, CountIsLastNumber
  <2>2. n \in 1..RowNumber(f, Len(f))
    BY <1>4, <2>1, <1>2
  <2>3. \E i \in 1..Len(f) : IsRow(f, i) /\ RowNumber(f, i) = n
    BY <1>1, <2>2, RowNumbersAreUsed
  <2>4. PICK i \in 1..Len(f) : IsRow(f, i) /\ RowNumber(f, i) = n
    BY <2>3
  <2>5. (CHOOSE k \in 1..Len(f) : IsRow(f, k) /\ RowNumber(f, k) = n) = i
    BY <1>1, <2>4, RowAt
  <2>6. Kind(f[i]) # "bare"
    BY <1>1 DEF Clean
  <2>7. ChainAt(f, n) = Claimed(f, i)
    <3>1. ~(n <= 0) /\ ~(n > RowCount(f))
      BY <1>2, <1>4
    <3> QED
      BY <2>5, <2>6, <3>1 DEF ChainAt
  <2>8. TailChain(f, i) = Claimed(f, i)
    BY <2>4, TailChainTakes
  <2> DEFINE t == TailChain(f, i)
  <2>9. /\ t \in Seq({Body(f, k) : k \in 1..Len(f)}) /\ Len(t) = n
        /\ \A k \in 1..i : IsRow(f, k) => t[RowNumber(f, k)] = Body(f, k)
    <3>1. i \in 0..Len(f)
      BY <1>1
    <3>2. RowNumber(f, i) = n
      BY <2>4
    <3> QED
      BY <1>1, <3>1, <3>2, ChainSpells
  <2>10. ASSUME NEW k \in 1..n
         PROVE  t[k] = BodiesOf(f)[k]
    <3>1. k \in 1..RowNumber(f, i)
      BY <2>4
    <3>2. PICK j \in 1..i : IsRow(f, j) /\ RowNumber(f, j) = k
      BY <3>1, RowNumbersAreUsed
    <3>3. t[k] = Body(f, j)
      BY <2>9, <3>2
    <3>4. BodyOf(f, k) = Body(f, j)
      <4>1. j \in 1..Len(f)
        BY <1>1
      <4> QED
        BY <1>1, <3>2, <4>1, BodyOfIs
    <3>5. BodiesOf(f)[k] = BodyOf(f, k)
      BY <1>2 DEF BodiesOf
    <3> QED
      BY <3>3, <3>4, <3>5
  <2> HIDE DEF t
  <2> DEFINE s == SubSeq(BodiesOf(f), 1, n)
  <2>11. Len(s) = n /\ s \in Seq(Content) /\ \A k \in 1..n : s[k] = BodiesOf(f)[k]
    BY <1>2
  <2> HIDE DEF s
  <2>12. t = s
    BY <2>9, <2>10, <2>11
  <2> QED
    BY <2>7, <2>8, <2>12 DEF t, s
<1> QED
  BY <1>3, <1>4

\* Of the words of a step the worst is said.
LEMMA WorstIsVerified ==
  ASSUME NEW words, Worst(words) = V
  PROVE  B \notin words /\ C \notin words
BY DEF Worst, V, B, C

\* Every pin is of one namespace when there are no two.
LEMMA OneNamespace ==
  ASSUME pins \in Seq(PinsOfLogs), ~(Cardinality(Namespaces(pins)) > 1),
         NEW i \in DOMAIN pins, NEW j \in DOMAIN pins
  PROVE  pins[i].ns = pins[j].ns
<1> SUFFICES ASSUME pins[i].ns # pins[j].ns
             PROVE  FALSE
  OBVIOUS
<1> DEFINE a == pins[i].ns
           b == pins[j].ns
<1>1. \A k \in DOMAIN pins : pins[k].ns \in {Own, Alt}
  <2>1. \A k \in DOMAIN pins : pins[k] \in PinsOfLogs
    OBVIOUS
  <2> QED
    BY <2>1 DEF PinsOfLogs
<1>2. Namespaces(pins) = {a, b}
  BY <1>1 DEF Namespaces
<1>3. a # b
  OBVIOUS
<1> HIDE DEF a, b
<1>4. Cardinality({a, b}) = 2
  <2> DEFINE S == {a}
  <2>1. IsFiniteSet(S) /\ Cardinality(S) = 1
    BY FS_Singleton
  <2>2. b \notin S /\ {a, b} = S \cup {b}
    BY <1>3
  <2> HIDE DEF S
  <2>3. Cardinality(S \cup {b}) = Cardinality(S) + 1
    BY <2>1, <2>2, FS_AddElement
  <2>4. Cardinality({a, b}) = Cardinality(S \cup {b})
    BY <2>2, Zenon
  <2> QED
    BY <2>1, <2>3, <2>4
<1> QED
  BY <1>2, <1>4

\* What an audit of the pins up to the head that says consistent has compared.
LEMMA AuditCompared ==
  ASSUME pins \in Seq(PinsOfLogs), NEW f \in LogFiles, Ok(f, FALSE) = "True", NEW ns,
         AuditUpTo(f, ns) = "consistent",
         NEW i \in DOMAIN pins, pins[i].ns = ns, pins[i].rows <= RowCount(f)
  PROVE  ~Disagrees(f, pins[i])
<1> DEFINE J == UpTo(pins, RowCount(f))
           H == OfNs(pins, J, ns)
           a == Audit(f, pins, J, intact, ns)
           bad == {k \in H : Disagrees(f, pins[k])}
<1>1. a.verdict = "consistent"
  <2>1. a.verdict # "local_broken"
    BY DEF Audit
  <2> HIDE DEF a
  <2> QED
    BY <2>1 DEF AuditUpTo, a
<1>2. bad = {}
  <2> HIDE DEF J
  <2> QED
    BY <1>1 DEF Audit
<1>3. i \in H
  BY DEF OfNs, UpTo
<1> QED
  BY <1>2, <1>3

\* A pin the log does not disagree with spells the bodies up to its head.
LEMMA AgreesSpells ==
  ASSUME pins \in Seq(PinsOfLogs), NEW f \in LogFiles, Ok(f, FALSE) = "True",
         NEW i \in DOMAIN pins, ~Disagrees(f, pins[i])
  PROVE  /\ pins[i].rows <= RowCount(f)
         /\ SubSeq(BodiesOf(f), 1, pins[i].rows) = pins[i].chain
<1>1. pins[i].rows \in Nat
  <2>1. pins[i] \in PinsOfLogs
    OBVIOUS
  <2> QED
    BY <2>1 DEF PinsOfLogs
<1>2. RowCount(f) \in Nat
  BY BodiesOfIs
<1>3. pins[i].rows <= RowCount(f) /\ ChainAt(f, pins[i].rows) = pins[i].chain
  BY <1>1, <1>2 DEF Disagrees
<1>4. pins[i].rows \in 0..RowCount(f)
  BY <1>1, <1>2, <1>3
<1> QED
  BY <1>3, <1>4, ChainAtSpells

\* A pack that names no pin and is VERIFIED all the same has every pin behind it.
LEMMA UnlistedMeans ==
  ASSUME pins \in Seq(PinsOfLogs), NEW f, RowCount(f) \in Nat, NEW built, NEW ns \in {Null, Own},
         Unlisted(f, built, ns) = V, NEW i \in DOMAIN pins, pins[i].ns = Own
  PROVE  ~Disagrees(f, pins[i])
<1> DEFINE names == Namespaces(pins)
           mine == IF ns # Null THEN {ns}
                   ELSE {n \in names : \E k \in DOMAIN pins : pins[k].ns = n
                                                              /\ ~Disagrees(f, pins[k])}
           ours == {k \in DOMAIN pins : pins[k].ns \in mine}
           past == {k \in ours : pins[k].rows > RowCount(f)}
<1>1. /\ intact
      /\ ~(IF ns = Null THEN Cardinality(names) > 1 ELSE ns \notin names)
      /\ mine # {}
      /\ \A k \in ours \ past : ~Disagrees(f, pins[k])
      /\ past = {}
  <2> HIDE DEF mine, names
  <2> QED
    BY DEF Unlisted, mine, names, V, B, C
<1>2. Own \in mine
  <2>1. CASE ns = Own /\ ns # Null
    BY <2>1
  <2>2. CASE ns = Null
    <3>1. ~(Cardinality(Namespaces(pins)) > 1)
      BY <1>1, <2>2
    <3>2. PICK k \in DOMAIN pins : ~Disagrees(f, pins[k]) /\ pins[k].ns \in mine
      BY <1>1, <2>2
    <3>3. pins[k].ns = Own
      BY <3>1, <3>2, OneNamespace
    <3> QED
      BY <3>2, <3>3
  <2> QED
    BY <2>1, <2>2
<1> HIDE DEF mine
<1>3. i \in ours
  BY <1>2
<1> QED
  BY <1>1, <1>3

\* A pin that a pack names and the pin file does not disprove.
LEMMA LocalMeans ==
  ASSUME pins \in Seq(PinsOfLogs), Own # Null, NEW f \in LogFiles, Ok(f, FALSE) = "True",
         NEW mark, NEW ns \in {Null, Own}, CheckLocal(f, mark, TRUE, ns) = V,
         NEW i \in DOMAIN pins, pins[i].ns = Own
  PROVE  IF pins[i].rows <= RowCount(f) THEN ~Disagrees(f, pins[i])
         ELSE \E j \in 1..i : pins[j].rows = mark.rows /\ pins[j].chain = mark.chain
<1> DEFINE names == Namespaces(pins)
           checked == {mark.ns} \cup ({ns} \ {Null})
           words == {AuditUpTo(f, n) : n \in checked}
<1>1. /\ ~(IF ns = Null THEN Cardinality(names) > 1 ELSE ns \notin names)
      /\ mark.ns \in names
      /\ \E j \in DOMAIN pins : <<pins[j].ns, pins[j].rows, pins[j].chain>>
                                = <<mark.ns, mark.rows, mark.chain>>
      /\ ~PinnedBefore(f, mark, checked)
      /\ words = {"consistent"}
  <2> HIDE DEF words, names, checked
  <2> QED
    BY DEF CheckLocal, words, names, checked, V, B, C
<1>2. Own \in checked
  <2>1. CASE ns = Own
    BY <2>1
  <2>2. CASE ns = Null
    <3>1. ~(Cardinality(Namespaces(pins)) > 1)
      BY <1>1, <2>2
    <3>2. PICK k \in DOMAIN pins : pins[k].ns = mark.ns
      BY <1>1 DEF Namespaces
    <3>3. pins[k].ns = Own
      BY <3>1, OneNamespace
    <3> QED
      BY <3>2, <3>3
  <2> QED
    BY <2>1, <2>2
<1>3. AuditUpTo(f, Own) = "consistent"
  BY <1>1, <1>2
<1>4. CASE pins[i].rows <= RowCount(f)
  BY <1>3, <1>4, AuditCompared
<1>5. CASE ~(pins[i].rows <= RowCount(f))
  <2>1. PICK j \in DOMAIN pins : <<pins[j].ns, pins[j].rows, pins[j].chain>>
                                 = <<mark.ns, mark.rows, mark.chain>>
    BY <1>1
  <2>2. pins[i].rows > RowCount(f)
    <3>1. pins[i].rows \in Nat
      <4>1. pins[i] \in PinsOfLogs
        OBVIOUS
      <4> QED
        BY <4>1 DEF PinsOfLogs
    <3>2. RowCount(f) \in Nat
      BY BodiesOfIs
    <3> QED
      BY <1>5, <3>1, <3>2
  <2>3. ~(i < j)
    <3> HIDE DEF checked
    <3> QED
      BY <1>1, <1>2, <2>1, <2>2 DEF PinnedBefore
  <2>4. j \in 1..i
    BY <2>3
  <2> QED
    BY <1>5, <2>1, <2>4
<1> QED
  BY <1>4, <1>5

(***************************************************************************)
(* A pack verified against the pin file, under the log's namespace or      *)
(* none, holds every pin up to its head, and the pins past its head are    *)
(* younger than one it names: a log cut short or minted anew behind a pin  *)
(* is never packed to a VERIFIED, whoever wrote the folder, however many   *)
(* rows and pins there are.                                                *)
(***************************************************************************)
THEOREM PackHoldsPins == PackSpec => []PinsHold
<1>1. PackInv => PinsHold
  <2> SUFFICES ASSUME PackInv, ~NotBuilt, NEW ns \in {Null, Own}, Verified(pack, TRUE, ns),
                      NEW i \in DOMAIN pins, pins[i].ns = Own
               PROVE  IF pins[i].rows <= RowCount(pack.records)
                      THEN SubSeq(BodiesOf(pack.records), 1, pins[i].rows) = pins[i].chain
                      ELSE \E j \in 1..i-1 : \E k \in DOMAIN pack.manifest.pins :
                             pack.manifest.pins[k].rows = pins[j].rows
                             /\ pack.manifest.pins[k].chain = pins[j].chain
    BY DEF PinsHold
  <2> DEFINE f == pack.records
             m == pack.manifest
             block == pack.integrity.witness
  <2>1. pins \in Seq(PinsOfLogs) /\ Folder(pack)
    BY DEF PackInv, NotBuilt
  <2>2. m # Null /\ StepChain(pack) = V /\ StepPins(pack, TRUE, ns) = V
    BY VerifiedMeans
  <2>3. f # Null /\ Ok(f, FALSE) = "True"
    BY <2>2, ChainStepMeans
  <2>4. f \in LogFiles /\ Listed(m.pins)
    BY <2>1, <2>2, <2>3 DEF Folder, ManifestIs
  <2>5. RowCount(f) \in Nat
    BY <2>4, BodiesOfIs
  <2>6. pins[i] \in PinsOfLogs
    BY <2>1
  <2>7. /\ ~InPackPins(pack)
        /\ IF m.pins = <<>> THEN Unlisted(f, m.built, ns) = V
           ELSE Worst({CheckLocal(f, m.pins[k], TRUE, ns) : k \in DOMAIN m.pins}) = V
    BY <2>2, <2>3 DEF StepPins, V, B, C
  <2>8. CASE m.pins = <<>>
    <3>1. ~Disagrees(f, pins[i])
      BY <2>1, <2>5, <2>7, <2>8, UnlistedMeans
    <3> QED
      BY <2>1, <2>3, <2>4, <3>1, AgreesSpells
  <2>9. CASE m.pins # <<>>
    <3>1. PICK k \in DOMAIN m.pins : TRUE
      <4>1. PICK S : m.pins \in Seq(S)
        BY <2>4 DEF Listed
      <4> DEFINE s == m.pins
      <4>2. s \in Seq(S) /\ s # <<>>
        BY <2>9, <4>1
      <4> HIDE DEF s
      <4>3. 1 \in DOMAIN s
        BY <4>2
      <4> QED
        BY <4>3 DEF s
    <3> DEFINE q == m.pins[k]
               word == CheckLocal(f, q, TRUE, ns)
               words == {CheckLocal(f, m.pins[n], TRUE, ns) : n \in DOMAIN m.pins}
    <3>2. word \in {V, B, C}
      BY DEF CheckLocal
    <3>3. word = V
      <4>1. Worst(words) = V /\ word \in words
        BY <2>7, <2>9
      <4> HIDE DEF words, word
      <4> QED
        BY <3>2, <4>1, WorstIsVerified
    <3>4. CASE pins[i].rows <= RowCount(f)
      <4>1. ~Disagrees(f, pins[i])
        BY <2>1, <2>3, <2>4, <3>3, <3>4, NullIsApart, LocalMeans
      <4> QED
        BY <2>1, <2>3, <2>4, <3>4, <4>1, AgreesSpells
    <3>5. CASE ~(pins[i].rows <= RowCount(f))
      <4>1. PICK j \in 1..i : pins[j].rows = q.rows /\ pins[j].chain = q.chain
        <5>1. IF pins[i].rows <= RowCount(f) THEN ~Disagrees(f, pins[i])
              ELSE \E j \in 1..i : pins[j].rows = q.rows /\ pins[j].chain = q.chain
          <6>1. Own # Null
            BY NullIsApart
          <6>2. CheckLocal(f, q, TRUE, ns) = V
            BY <3>3
          <6> HIDE DEF q, f, m
          <6> QED
            BY <2>1, <2>3, <2>4, <6>1, <6>2, LocalMeans
        <5> QED
          BY <3>5, <5>1
      <4>2. ChainAt(f, q.rows) = q.chain
        <5>1. ~Lacks(pack, {"records"})
          BY <2>1, <2>3 DEF Lacks, Present, Folder, FolderNames
        <5> QED
          BY <2>7, <5>1 DEF InPackPins
      <4>3. j # i
        <5> SUFFICES ASSUME j = i
                     PROVE  FALSE
          OBVIOUS
        <5>1. pins[i].rows \in Nat /\ pins[i].chain \in Seq(Content)
          BY <2>6 DEF PinsOfLogs, LogChains
        <5>2. ChainAt(f, pins[i].rows) = NoChain
          BY <2>5, <3>5, <5>1 DEF ChainAt
        <5>3. NoChain \notin Seq(Content)
          BY VoidIsNoBody DEF NoChain
        <5> QED
          BY <4>1, <4>2, <5>1, <5>2, <5>3
      <4>4. j \in 1..i-1
        BY <2>1, <4>3
      <4> QED
        BY <3>5, <4>1, <4>4
    <3> QED
      BY <3>4, <3>5
  <2> QED
    BY <2>8, <2>9
<1> QED
  BY <1>1, PackInvHolds, PTL

(***************************************************************************)
(* What the steps about the window, the build and page one establish.      *)
(***************************************************************************)
\* The first that is picked is one of those to pick from.
LEMMA FirstPicked ==
  ASSUME NEW n \in Nat, NEW S \in SUBSET (1..n), S # {}, NEW s
  PROVE  \E k \in S : Picked(s, S)[1] = s[k]
<1>1. Cardinality(S) \in Nat /\ Cardinality(S) # 0
  BY Counted
<1>2. DOMAIN Picked(s, S) = 1..Cardinality(S) /\ DOMAIN InOrder(S) = 1..Cardinality(S)
  BY PickedIs
<1>3. 1 \in 1..Cardinality(S)
  BY <1>1
<1> DEFINE First(k) == Cardinality({m \in S : m < k}) = 0
           k == CHOOSE k \in S : First(k)
<1>4. \E x \in S : First(x)
  <2>1. S \in SUBSET Nat
    OBVIOUS
  <2>2. PICK x \in S : \A y \in S : x <= y
    BY <2>1, Smallest
  <2>3. {m \in S : m < x} = {}
    <3>1. \A m \in S : ~(m < x)
      BY <2>1, <2>2
    <3> QED
      BY <3>1
  <2>4. First(x)
    BY <2>3, FS_EmptySet
  <2> QED
    BY <2>4
<1>5. k \in S
  BY <1>4
<1>6. InOrder(S)[1] = k
  BY <1>3, SMTT(30) DEF InOrder
<1> HIDE DEF k
<1>7. Picked(s, S)[1] = s[k]
  BY <1>2, <1>3, <1>6 DEF Picked
<1> QED
  BY <1>5, <1>7

\* A window step that says VERIFIED: the window is the rows of the listed lines.
LEMMA WindowStepMeans ==
  ASSUME NEW p, Folder(p), StepWindow(p) = V
  PROVE  /\ p.window # Null /\ p.records # Null /\ WindowIs(p.window)
         /\ p.manifest.win.lines = LinesOf(p.window)
         /\ p.window = WindowRows(p.records, LinesOf(p.window))
<1>1. /\ ~Lacks(p, {"window", "records"})
      /\ \A k \in DOMAIN p.window : p.window[k].raw = p.records[p.window[k].line]
      /\ p.manifest.win.lines = LinesOf(p.window)
  BY DEF StepWindow, Judge, V, B, C
<1>2. p.window # Null /\ p.records # Null
  BY <1>1 DEF Lacks, Present
<1>3. WindowIs(p.window)
  BY <1>2 DEF Folder
<1> DEFINE w == p.window
           f == p.records
<1>4. PICK L, R : w \in Seq([line : L, raw : R])
  BY <1>3 DEF WindowIs
<1>5. WindowRows(f, LinesOf(w)) = [k \in DOMAIN w |-> [line |-> w[k].line, raw |-> f[w[k].line]]]
  BY DEF WindowRows, LinesOf
<1>6. \A k \in DOMAIN w : w[k] = [line |-> w[k].line, raw |-> f[w[k].line]]
  <2>1. ASSUME NEW k \in DOMAIN w
        PROVE  w[k] = [line |-> w[k].line, raw |-> f[w[k].line]]
    <3>1. w[k].raw = f[w[k].line]
      BY <1>1
    <3> DEFINE T == [line : L, raw : R]
    <3>2. w \in Seq(T)
      BY <1>4
    <3> HIDE DEF w, f, T
    <3>3. w[k] \in T
      BY <3>2
    <3> QED
      BY <3>1, <3>3 DEF T
  <2> QED
    BY <2>1
<1>7. w = [k \in DOMAIN w |-> w[k]]
  BY <1>4
<1> HIDE DEF w, f
<1>8. w = WindowRows(f, LinesOf(w))
  BY <1>5, <1>6, <1>7
<1> QED
  BY <1>1, <1>2, <1>3, <1>8 DEF w, f

\* A build step that says VERIFIED: no check says it could not look, no row was
\* left out for its time and the window is the selection.
LEMMA BuildStepMeans ==
  ASSUME NEW p, Folder(p), p.manifest # Null, p.window # Null, p.records # Null,
         StepBuild(p) = V
  PROVE  /\ Saying(p.manifest.checks, C) = {} /\ p.manifest.verdict = V
         /\ Unplaced(p.records, p.manifest.win) = <<>>
         /\ LinesOf(p.window) = Selected(p.records, p.manifest.win)
         /\ p.window # <<>>
<1> DEFINE m == p.manifest
<1>1. /\ Missed(m.checks) = p.cnl /\ ~Hidden(p) /\ m.verdict # B
      /\ p.cnl = <<>>
  BY DEF StepBuild, V, B, C
<1>2. ManifestIs(m)
  BY DEF Folder
<1>3. Saying(m.checks, C) = {}
  <2>1. PICK S : m.checks \in Seq(S)
    BY <1>2 DEF ManifestIs, Listed
  <2> DEFINE s == m.checks
             n == Len(s)
  <2>2. n \in Nat /\ DOMAIN s = 1..n
    BY <2>1
  <2>3. Saying(s, C) \in SUBSET (1..n)
    BY <2>2 DEF Saying
  <2>4. DOMAIN Missed(s) = 1..Cardinality(Saying(s, C)) /\ Cardinality(Saying(s, C)) \in Nat
    BY <2>2, <2>3, PickedIs DEF Missed
  <2>5. DOMAIN Missed(s) = {}
    BY <1>1
  <2>6. Cardinality(Saying(s, C)) = 0
    BY <2>4, <2>5
  <2> QED
    BY <2>2, <2>3, <2>6, Counted
<1>4. m.verdict = V
  BY <1>1, <1>2, <1>3 DEF ManifestIs
<1>5. ~Lacks(p, {"records", "window"})
  BY DEF Lacks, Present, Folder, FolderNames
<1>6. {p.cnl[k].reason : k \in DOMAIN p.cnl} = {}
  BY <1>1
<1> QED
  BY <1>1, <1>3, <1>4, <1>5, <1>6 DEF Hidden

\* A step of the re-derived fields that says VERIFIED: the folder says nothing the
\* records do not.
LEMMA RederivedStepMeans ==
  ASSUME NEW p, StepRederived(p) = V
  PROVE  p.integrity # Null /\ ~Drift(p)
<1>1. ~Lacks(p, {"records", "integrity"}) /\ ~RecordsBad(p) /\ ~Drift(p)
  BY DEF StepRederived, V, B, C
<1> QED
  BY <1>1 DEF Lacks, Present

\* The finding that the word of a green log can come from.
LEMMA FindingOfGreen ==
  ASSUME NEW f, Ok(f, FALSE) = "True", NEW verdict \in {Null} \cup Verdicts,
         Null \notin Verdicts
  PROVE  /\ WordOf(Finding(f, verdict)) \in {V, B, C}
         /\ WordOf(Finding(f, verdict)) = V =>
              /\ Finding(f, verdict) \in {"PASS", "VERIFIED_MODULO_TRUNCATION"}
              /\ verdict \in {Null, "consistent"}
<1>1. CASE verdict = Null
  BY <1>1 DEF Finding, FindingOf, WordOf, Verdicts, V, B, C
<1>2. CASE verdict = "consistent"
  BY <1>2 DEF Finding, FindingOf, WordOf, Verdicts, V, B, C
<1>3. CASE verdict \in {"truncated", "rewritten"}
  BY <1>3 DEF Finding, FindingOf, WordOf, Verdicts, V, B, C
<1>4. CASE verdict \in {"no_record", "local_broken", "witness_broken"}
  BY <1>4 DEF Finding, FindingOf, WordOf, Verdicts, V, B, C
<1> QED
  BY <1>1, <1>2, <1>3, <1>4 DEF Verdicts

\* Of the sentences of page one, these are there whatever else is.
LEMMA SentencesSay ==
  ASSUME NEW word, NEW o, NEW lines, NEW unplaced, NEW section
  PROVE  LET texts == Sentences(word, o, lines, unplaced, section)
         IN  /\ {"verdict", "rows", "agent", "legend"} \subseteq DOMAIN texts
             /\ texts["verdict"] = word /\ texts["rows"] = lines /\ texts["agent"] = o.agent
BY DEF Sentences

\* Page one says what the manifest and the records say when nothing drifts.
LEMMA PageIsTrue ==
  ASSUME NEW p, ~Drift(p), NEW rows, rows = Selected(p.records, p.manifest.win)
  PROVE  /\ p.page["verdict"].text = p.manifest.verdict /\ p.page["rows"].text = rows
         /\ p.page["agent"].text = p.manifest.win.agent
<1> DEFINE m == p.manifest
           word == BuildWord(p.integrity, Selected(p.records, m.win) # <<>>, m.checks)
           texts == Sentences(word, m.win, Selected(p.records, m.win),
                              Unplaced(p.records, m.win), m.mandate)
<1>1. m.verdict = word /\ ~PageDrift(p, word)
  BY DEF Drift
<1>2. p.page = PlainPage(texts) \/ p.page = Tagged(texts)
  BY <1>1 DEF PageDrift
<1>3. /\ {"verdict", "rows", "agent", "legend"} \subseteq DOMAIN texts
      /\ texts["verdict"] = word /\ texts["rows"] = Selected(p.records, m.win)
      /\ texts["agent"] = m.win.agent
  BY SentencesSay
<1> HIDE DEF texts, word
<1>4. /\ p.page["verdict"].text = texts["verdict"] /\ p.page["rows"].text = texts["rows"]
      /\ p.page["agent"].text = texts["agent"]
  BY <1>2, <1>3 DEF PlainPage, Tagged
<1> QED
  BY <1>1, <1>3, <1>4

\* Integrity.json says VERIFIED for what the records and the witness say.
LEMMA IntegrityIsTrue ==
  ASSUME NEW p, ~Drift(p), IntegrityIs(p.integrity), Ok(p.records, FALSE) = "True",
         p.manifest.verdict = V, Selected(p.records, p.manifest.win) # <<>>,
         Null \notin Verdicts
  PROVE  /\ p.integrity.finding \in {"PASS", "VERIFIED_MODULO_TRUNCATION"}
         /\ p.integrity.witness.verdict \in {Null, "consistent"}
<1> DEFINE m == p.manifest
           t == p.integrity
           block == t.witness
           other == IF block.ns = Null THEN [block EXCEPT !.verdict = Null] ELSE block
           want == Integrity(p.records, other)
           finding == Finding(p.records, other.verdict)
           first == IF ~(Selected(p.records, m.win) # <<>>) /\ t.verdict # B THEN C ELSE t.verdict
           words == {first} \cup
                    {c.verdict : c \in {c \in Range(m.checks) : c.check \notin BaseNames}}
<1>1. /\ [t EXCEPT !.witness = block] = [want EXCEPT !.witness = block]
      /\ m.verdict = BuildWord(t, Selected(p.records, m.win) # <<>>, m.checks)
  BY DEF Drift
<1>2. t.finding = finding /\ t.verdict = WordOf(finding)
  <2>1. want.finding = finding /\ want.verdict = WordOf(finding)
    BY DEF Integrity
  <2>2. DOMAIN want = {"finding", "verdict", "rows", "ok", "sha", "witness"}
    BY DEF Integrity
  <2>3. DOMAIN t = {"finding", "verdict", "rows", "ok", "sha", "witness"}
    BY DEF IntegrityIs
  <2> HIDE DEF want, finding
  <2>4. [t EXCEPT !.witness = block].finding = t.finding
        /\ [t EXCEPT !.witness = block].verdict = t.verdict
    BY <2>3
  <2>5. [want EXCEPT !.witness = block].finding = want.finding
        /\ [want EXCEPT !.witness = block].verdict = want.verdict
    BY <2>2
  <2> QED
    BY <1>1, <2>1, <2>4, <2>5
<1>3. BlockIs(block)
  BY DEF IntegrityIs
<1>4. other.verdict \in {Null} \cup Verdicts
  <2> HIDE DEF block
  <2> QED
    BY <1>3 DEF BlockIs
<1>5. t.verdict # B /\ t.verdict # C
  <2>1. t.verdict = first
    OBVIOUS
  <2>2. Worst(words) = V
    BY <1>1 DEF BuildWord
  <2>3. first \in words
    OBVIOUS
  <2> HIDE DEF words, first
  <2> QED
    BY <2>1, <2>2, <2>3, WorstIsVerified
<1> HIDE DEF other
<1>6. finding \in {"PASS", "VERIFIED_MODULO_TRUNCATION"} /\ other.verdict \in {Null, "consistent"}
  BY <1>2, <1>4, <1>5, FindingOfGreen
<1>7. block.verdict \in {Null, "consistent"}
  BY <1>3, <1>6 DEF BlockIs, other
<1> QED
  BY <1>2, <1>6, <1>7

\* A mandate step that says VERIFIED: the counts are those of the listed lines and
\* the copy in the pack is the file the gate loaded.
LEMMA MandateStepMeans ==
  ASSUME NEW p, ManifestIs(p.manifest), StepMandate(p) = V, p.manifest.mandate # Null,
         Saying(p.manifest.checks, C) = {}
  PROVE  /\ p.manifest.mandate = Section(p.records, p.manifest.win.lines, p.copy)
         /\ p.copy \in p.manifest.mandate.named
<1> DEFINE m == p.manifest
           s == Section(p.records, m.win.lines, p.copy)
           checks == m.checks
           S == {k \in DOMAIN checks : checks[k].check \in MandateNames}
<1>1. m.mandate = s /\ Picked(checks, S) = MandateChecks(s)
  BY DEF StepMandate, Judge, V, B, C
<1>2. s.sha = p.copy
  BY DEF Section
<1> HIDE DEF s
<1>3. PICK n \in Nat : DOMAIN checks = 1..n
  <2>1. PICK X : checks \in Seq(X)
    BY DEF ManifestIs, Listed
  <2> QED
    BY <2>1
<1>4. S \in SUBSET (1..n)
  BY <1>3
<1>5. MandateChecks(s) # <<>> /\ MandateChecks(s)[1].verdict # C =>
        s.sha # Null /\ s.sha \in s.named
  <2> DEFINE a == Check("mandate file read", C, "missing")
             b == Check("mandate file is the one the gate loaded", C, "missing")
             c == Check("mandate file is the one the gate loaded", C, "name_not_found")
             d == Check("mandate file is the one the gate loaded", V, Null)
             e == Check("mandate inside count", C, "bounded")
             x == IF s.named = {} THEN b ELSE IF s.sha \notin s.named THEN c ELSE d
             z == IF s.open THEN <<e>> ELSE <<>>
  <2>1. MandateChecks(s) = IF s.sha = Null THEN <<a>> ELSE <<x>> \o z
    BY DEF MandateChecks
  <2>2. a.verdict = C /\ b.verdict = C /\ c.verdict = C
    BY DEF Check
  <2> HIDE DEF a, b, c, d, e
  <2>3. (<<x>> \o z)[1] = x
    OBVIOUS
  <2> QED
    BY <2>1, <2>2, <2>3
<1>6. Listed(MandateChecks(s)) /\ 1 \in DOMAIN MandateChecks(s)
  <2> DEFINE a == Check("mandate file read", C, "missing")
             b == Check("mandate file is the one the gate loaded", C, "missing")
             c == Check("mandate file is the one the gate loaded", C, "name_not_found")
             d == Check("mandate file is the one the gate loaded", V, Null)
             e == Check("mandate inside count", C, "bounded")
             x == IF s.named = {} THEN b ELSE IF s.sha \notin s.named THEN c ELSE d
             z == IF s.open THEN <<e>> ELSE <<>>
  <2>1. MandateChecks(s) = IF s.sha = Null THEN <<a>> ELSE <<x>> \o z
    BY DEF MandateChecks
  <2> HIDE DEF a, e, x
  <2>2. 1 \in DOMAIN (<<x>> \o z) /\ 1 \in DOMAIN <<a>>
    OBVIOUS
  <2> QED
    BY <2>1, <2>2, MandateChecksAreListed
<1>7. S # {}
  <2>1. DOMAIN Picked(checks, S) = 1..Cardinality(S) /\ Cardinality(S) \in Nat
    BY <1>4, PickedIs
  <2>2. Cardinality(S) # 0
    BY <1>1, <1>6, <2>1
  <2> HIDE DEF S
  <2> QED
    BY <1>4, <2>2, Counted
<1>8. PICK k \in S : Picked(checks, S)[1] = checks[k]
  <2> HIDE DEF S
  <2> QED
    BY <1>4, <1>7, FirstPicked
<1>9. MandateChecks(s)[1].verdict # C
  <2>1. checks[k].verdict # C
    BY <1>8 DEF Saying
  <2> HIDE DEF S
  <2> QED
    BY <1>1, <1>8, <2>1
<1>10. MandateChecks(s) # <<>>
  BY <1>6
<1> QED
  BY <1>1, <1>2, <1>5, <1>9, <1>10 DEF s

(***************************************************************************)
(* VERIFIED hides nothing, for packs of logs of any length with any edits  *)
(* of the folder: the chain is whole, the window is the selection the      *)
(* manifest states and leaves no row out for its time, the witness agreed  *)
(* or was not asked, the mandate counts are the window's, and page one     *)
(* says all that.                                                          *)
(***************************************************************************)
THEOREM PackHidesNothing == PackSpec => []NothingHidden
<1>1. PackInv => NothingHidden
  <2> SUFFICES ASSUME PackInv, ~NotBuilt, NEW given \in BOOLEAN, NEW ns \in {Null, Own},
                      Verified(pack, given, ns)
               PROVE  LET m == pack.manifest
                          rows == Selected(pack.records, m.win)
                      IN  /\ Ok(pack.records, FALSE) = "True"
                          /\ rows # <<>> /\ pack.window = WindowRows(pack.records, rows)
                          /\ Unplaced(pack.records, m.win) = <<>>
                          /\ pack.integrity.finding \in {"PASS", "VERIFIED_MODULO_TRUNCATION"}
                          /\ pack.integrity.witness.verdict \in {Null, "consistent"}
                          /\ m.mandate # Null => /\ m.mandate = Section(pack.records, rows, pack.copy)
                                                 /\ pack.copy \in m.mandate.named
                          /\ pack.page["verdict"].text = V /\ pack.page["rows"].text = rows
                          /\ pack.page["agent"].text = m.win.agent
    BY DEF NothingHidden
  <2> DEFINE m == pack.manifest
             f == pack.records
             rows == Selected(f, m.win)
  <2>1. Folder(pack)
    BY DEF PackInv, NotBuilt
  <2>2. /\ m # Null /\ StepChain(pack) = V /\ StepWindow(pack) = V /\ StepBuild(pack) = V
        /\ StepMandate(pack) = V /\ StepRederived(pack) = V
    BY VerifiedMeans
  <2>3. f # Null /\ Ok(f, FALSE) = "True"
    BY <2>2, ChainStepMeans
  <2>4. /\ pack.window # Null /\ WindowIs(pack.window) /\ m.win.lines = LinesOf(pack.window)
        /\ pack.window = WindowRows(f, LinesOf(pack.window))
    BY <2>1, <2>2, WindowStepMeans
  <2>5. /\ Saying(m.checks, C) = {} /\ m.verdict = V /\ Unplaced(f, m.win) = <<>>
        /\ LinesOf(pack.window) = rows /\ pack.window # <<>>
    BY <2>1, <2>2, <2>3, <2>4, BuildStepMeans
  <2>6. rows # <<>>
    <3>1. DOMAIN pack.window # {}
      <4>1. PICK L, R : pack.window \in Seq([line : L, raw : R])
        BY <2>4 DEF WindowIs
      <4> DEFINE w == pack.window
                 T == [line : L, raw : R]
      <4>2. w \in Seq(T) /\ w # <<>>
        BY <2>5, <4>1
      <4> HIDE DEF w, T
      <4>3. 1 \in DOMAIN w
        BY <4>2
      <4> QED
        BY <4>3 DEF w
    <3>2. DOMAIN rows = DOMAIN pack.window
      BY <2>5 DEF LinesOf
    <3> HIDE DEF rows
    <3> QED
      BY <3>1, <3>2
  <2>7. pack.integrity # Null /\ ~Drift(pack)
    BY <2>2, RederivedStepMeans
  <2>8. IntegrityIs(pack.integrity) /\ ManifestIs(m)
    BY <2>1, <2>2, <2>7 DEF Folder
  <2>9. /\ pack.integrity.finding \in {"PASS", "VERIFIED_MODULO_TRUNCATION"}
        /\ pack.integrity.witness.verdict \in {Null, "consistent"}
    BY <2>3, <2>5, <2>6, <2>7, <2>8, NullIsApart, IntegrityIsTrue
  <2>10. m.mandate # Null => /\ m.mandate = Section(f, rows, pack.copy)
                             /\ pack.copy \in m.mandate.named
    BY <2>2, <2>4, <2>5, <2>8, MandateStepMeans
  <2>11. /\ pack.page["verdict"].text = V /\ pack.page["rows"].text = rows
         /\ pack.page["agent"].text = m.win.agent
    BY <2>5, <2>7, PageIsTrue
  <2>12. pack.window = WindowRows(f, rows)
    BY <2>4, <2>5
  <2> QED
    BY <2>3, <2>5, <2>6, <2>9, <2>10, <2>11, <2>12
<1> QED
  BY <1>1, PackInvHolds, PTL

(***************************************************************************)
(* Lists picked by line number, and sets of numbers in their order.        *)
(***************************************************************************)
\* The numbers of a set in their order: each of them, and none twice.
LEMMA InOrderIs ==
  ASSUME NEW n \in Nat, NEW S \in SUBSET (1..n)
  PROVE  /\ Cardinality(S) \in Nat /\ DOMAIN InOrder(S) = 1..Cardinality(S)
         /\ \A k \in 1..Cardinality(S) : InOrder(S)[k] \in S
         /\ \A x \in S : \E k \in 1..Cardinality(S) : InOrder(S)[k] = x
         /\ \A x \in S, k \in 1..Cardinality(S) :
              Cardinality({m \in S : m < x}) = k - 1 => InOrder(S)[k] = x
<1> DEFINE f == [j \in 1..n |-> IF j \in S THEN <<[kind |-> "bare"]>> ELSE <<>>]
           Below(x) == Cardinality({m \in S : m < x})
           At(k) == InOrder(S)[k]
<1>1. Cardinality(S) \in Nat /\ DOMAIN InOrder(S) = 1..Cardinality(S)
  BY PickedIs
<1>2. ASSUME NEW j \in 1..n
      PROVE  IsRow(f, j) <=> j \in S
  <2>1. f[j] = IF j \in S THEN <<[kind |-> "bare"]>> ELSE <<>>
    OBVIOUS
  <2> HIDE DEF f
  <2>2. CASE j \in S
    <3>1. f[j] = <<[kind |-> "bare"]>>
      BY <2>1, <2>2
    <3>2. Len(f[j]) = 1 /\ f[j] # <<>> /\ f[j][1].kind = "bare"
      BY <3>1
    <3> QED
      BY <2>2, <3>2 DEF IsRow, Kind, RowKinds
  <2>3. CASE j \notin S
    BY <2>1, <2>3 DEF IsRow, Kind, RowKinds
  <2> QED
    BY <2>2, <2>3
<1> HIDE DEF f
<1>3. RowNumber(f, n) = Cardinality(S)
  <2>1. {j \in 1..n : IsRow(f, j)} = S
    BY <1>2
  <2> QED
    BY <2>1 DEF RowNumber
<1>4. ASSUME NEW x \in S
      PROVE  /\ RowNumber(f, x) = Below(x) + 1 /\ RowNumber(f, x) \in 1..Cardinality(S)
             /\ Below(x) \in Nat
  <2>1. x \in 1..n /\ x - 1 \in Nat /\ IsRow(f, (x - 1) + 1)
    BY <1>2
  <2>2. RowNumber(f, (x - 1) + 1) = RowNumber(f, x - 1) + 1 /\ RowNumber(f, x - 1) \in Nat
    BY <2>1, RowNumberSteps
  <2>3. {j \in 1..(x - 1) : IsRow(f, j)} = {m \in S : m < x}
    <3>1. \A j : j \in 1..(x - 1) /\ IsRow(f, j) => j \in S /\ j < x
      BY <1>2, <2>1
    <3>2. \A m : m \in S /\ m < x => m \in 1..(x - 1) /\ IsRow(f, m)
      BY <1>2, <2>1
    <3> QED
      BY <3>1, <3>2
  <2>4. RowNumber(f, x - 1) = Below(x)
    BY <2>3 DEF RowNumber
  <2>5. RowNumber(f, x) <= RowNumber(f, n)
    BY <2>1, RowNumberGrows
  <2>6. (x - 1) + 1 = x
    BY <2>1
  <2> HIDE DEF Below
  <2> QED
    BY <1>3, <2>2, <2>4, <2>5, <2>6
<1>5. ASSUME NEW x \in S, NEW y \in S, Below(x) = Below(y)
      PROVE  x = y
  <2>1. RowNumber(f, x) = RowNumber(f, y) /\ RowNumber(f, x) \in Nat
    BY <1>4, <1>5
  <2>2. x \in 1..n /\ y \in 1..n /\ IsRow(f, x) /\ IsRow(f, y)
    BY <1>2
  <2>3. ~(x < y)
    BY <2>1, <2>2, RowNumbersDiffer
  <2>4. ~(y < x)
    BY <2>1, <2>2, RowNumbersDiffer
  <2> QED
    BY <2>2, <2>3, <2>4
<1>6. ASSUME NEW k \in 1..Cardinality(S)
      PROVE  \E x \in S : Below(x) = k - 1
  <2>1. k \in 1..RowNumber(f, n)
    BY <1>3
  <2>2. PICK x \in 1..n : IsRow(f, x) /\ RowNumber(f, x) = k
    BY <2>1, RowNumbersAreUsed
  <2>3. x \in S
    BY <1>2, <2>2
  <2>4. RowNumber(f, x) = Below(x) + 1 /\ Below(x) \in Nat
    BY <1>4, <2>3
  <2> HIDE DEF Below
  <2>5. Below(x) = k - 1
    BY <2>2, <2>4
  <2> QED
    BY <2>3, <2>5
<1>7. ASSUME NEW k \in 1..Cardinality(S)
      PROVE  At(k) \in S /\ Below(At(k)) = k - 1
  <2>1. At(k) = CHOOSE x \in S : Below(x) = k - 1
    BY <1>7 DEF InOrder
  <2> HIDE DEF Below, At
  <2> QED
    BY <1>6, <2>1
<1>8. ASSUME NEW x \in S, NEW k \in 1..Cardinality(S), Below(x) = k - 1
      PROVE  At(k) = x
  <2>1. At(k) \in S /\ Below(At(k)) = Below(x)
    BY <1>7, <1>8
  <2> HIDE DEF Below, At
  <2> QED
    BY <1>5, <2>1
<1>9. ASSUME NEW x \in S
      PROVE  \E k \in 1..Cardinality(S) : At(k) = x
  <2>1. RowNumber(f, x) \in 1..Cardinality(S) /\ Below(x) = RowNumber(f, x) - 1
    <3>1. /\ RowNumber(f, x) = Below(x) + 1 /\ RowNumber(f, x) \in 1..Cardinality(S)
          /\ Below(x) \in Nat
      BY <1>4
    <3> HIDE DEF Below
    <3> QED
      BY <3>1
  <2>2. At(RowNumber(f, x)) = x
    <3> HIDE DEF Below, At
    <3> QED
      BY <1>8, <2>1
  <2> QED
    BY <2>1, <2>2
<1> HIDE DEF At
<1>10. /\ \A k \in 1..Cardinality(S) : At(k) \in S
       /\ \A x \in S : \E k \in 1..Cardinality(S) : At(k) = x
       /\ \A x \in S, k \in 1..Cardinality(S) : Below(x) = k - 1 => At(k) = x
  BY <1>7, <1>8, <1>9
<1> QED
  BY <1>1, <1>10 DEF At

\* The numbers from a on.
LEMMA IntervalInOrder ==
  ASSUME NEW a \in Nat, NEW n \in Nat
  PROVE  /\ Cardinality(a+1..a+n) = n /\ DOMAIN InOrder(a+1..a+n) = 1..n
         /\ \A k \in 1..n : InOrder(a+1..a+n)[k] = a + k
<1> DEFINE S == a+1..a+n
<1>1. Cardinality(S) = n
  <2>1. a+1 \in Int /\ a+n \in Int
    OBVIOUS
  <2>2. Cardinality(a+1..a+n) = IF a+1 > a+n THEN 0 ELSE a+n - (a+1) + 1
    BY <2>1, FS_Interval
  <2> QED
    BY <2>2
<1>2. S \in SUBSET (1..a+n) /\ a+n \in Nat
  OBVIOUS
<1>3. ASSUME NEW k \in 1..n
      PROVE  Cardinality({m \in S : m < a + k}) = k - 1
  <2>1. {m \in S : m < a + k} = a+1..a+k-1
    OBVIOUS
  <2>2. a+1 \in Int /\ a+k-1 \in Int
    OBVIOUS
  <2>3. Cardinality(a+1..a+k-1) = IF a+1 > a+k-1 THEN 0 ELSE a+k-1 - (a+1) + 1
    BY <2>2, FS_Interval
  <2>4. (IF a+1 > a+k-1 THEN 0 ELSE a+k-1 - (a+1) + 1) = k - 1
    BY <1>3
  <2>5. Cardinality({m \in S : m < a + k}) = Cardinality(a+1..a+k-1)
    <3> HIDE DEF S
    <3> QED
      BY <2>1, Zenon
  <2> QED
    BY <2>3, <2>4, <2>5
<1>4. \A k \in 1..n : a + k \in S
  OBVIOUS
<1> HIDE DEF S
<1>5. DOMAIN InOrder(S) = 1..n /\ \A k \in 1..n : InOrder(S)[k] = a + k
  <2>1. DOMAIN InOrder(S) = 1..Cardinality(S)
    BY <1>2, InOrderIs
  <2>2. \A x \in S, k \in 1..Cardinality(S) :
          Cardinality({m \in S : m < x}) = k - 1 => InOrder(S)[k] = x
    BY <1>2, InOrderIs
  <2> QED
    BY <1>1, <1>3, <1>4, <2>1, <2>2
<1> QED
  BY <1>1, <1>5 DEF S

\* What is picked from the end of a list is its end.
LEMMA PickedTail ==
  ASSUME NEW s, NEW t, Listed(s), Listed(t)
  PROVE  Picked(s \o t, Len(s)+1..Len(s)+Len(t)) = t
<1> DEFINE a == Len(s)
           n == Len(t)
           S == a+1..a+n
<1>1. a \in Nat /\ n \in Nat /\ \A k \in 1..n : (s \o t)[a + k] = t[k]
  BY ConcatIsListed
<1>2. t = [k \in 1..n |-> t[k]]
  BY DEF Listed
<1> HIDE DEF a, n
<1>3. DOMAIN InOrder(S) = 1..n /\ \A k \in 1..n : InOrder(S)[k] = a + k
  BY <1>1, IntervalInOrder
<1> HIDE DEF S
<1>4. Picked(s \o t, S) = [k \in 1..n |-> (s \o t)[InOrder(S)[k]]]
  BY <1>3 DEF Picked
<1>5. Picked(s \o t, S) = [k \in 1..n |-> t[k]]
  BY <1>1, <1>3, <1>4
<1> QED
  BY <1>2, <1>5 DEF S, a, n

(***************************************************************************)
(* A folder as the build leaves it, field by field.                        *)
(***************************************************************************)
\* Null stands for no file, and no file's content is Null.
NullIsNoFile == \A f : f = [x \in DOMAIN f |-> f[x]] => f # Null

SectionOf(f, o) == IF o.mandate THEN Section(f, Selected(f, o), o.copy) ELSE Null
ChecksOf(f, block, o) ==
  BaseChecks(Integrity(f, block), WindowRows(f, Selected(f, o)), Unplaced(f, o))
  \o (IF SectionOf(f, o) = Null THEN <<>> ELSE MandateChecks(SectionOf(f, o)))
WordOfBuild(f, block, o) ==
  BuildWord(Integrity(f, block), WindowRows(f, Selected(f, o)) # <<>>, ChecksOf(f, block, o))
WinOf(f, o) == [agent |-> o.agent, from |-> o.from, to |-> o.to,
                lines |-> Selected(f, o), unplaced |-> Unplaced(f, o)]
PageOf(f, block, o) ==
  Tagged(Sentences(WordOfBuild(f, block, o), WinOf(f, o), Selected(f, o), Unplaced(f, o),
                   SectionOf(f, o)))

FilesOf(p, f, block, o) ==
  /\ DOMAIN p = FolderNames
  /\ p.records = f /\ p.integrity = Integrity(f, block)
  /\ p.witness = IF o.ns = Null THEN Null ELSE block
  /\ p.window = WindowRows(f, Selected(f, o))
  /\ p.aat = IF o.aat THEN Aat(f) ELSE Null
  /\ p.gaps = IF o.aat THEN Gaps(f) ELSE Null
  /\ p.mandate = SectionOf(f, o) /\ p.copy = o.copy
  /\ p.cnl = Missed(ChecksOf(f, block, o))
  /\ p.page = PageOf(f, block, o) /\ p.twin = PageOf(f, block, o)
  /\ p.summary = Summary(f, Integrity(f, block))

FieldsOf(m, f, block, o, now) ==
  /\ DOMAIN m = ManifestNames
  /\ m.schema = 2 /\ m.built = now /\ m.operator = "UNKNOWN" /\ m.complete = TRUE
  /\ m.win = WinOf(f, o)
  /\ m.verdict = WordOfBuild(f, block, o)
  /\ m.checks = ChecksOf(f, block, o) /\ m.counts = Counts(ChecksOf(f, block, o))
  /\ m.head = [chain |-> LastChain(f), rows |-> RowCount(f)]
  /\ m.pins = PinsOf(block) /\ m.mandate = SectionOf(f, o)
  /\ m.independence = Independence(block.kind)
  /\ m.aat = IF o.aat THEN BodiesOf(f) ELSE Null

IsBuilt(p, f, block, o, now) ==
  /\ FilesOf(p, f, block, o) /\ FieldsOf(p.manifest, f, block, o, now)
  /\ p.manifest # Null /\ p.sum = p.manifest
  /\ p.manifest.files = [n \in Present(p) \ Loose |-> p[n]]

\* What build_pack wrote, file by file.
LEMMA BuiltIsBuilt ==
  ASSUME NullIsNoFile, NEW f, NEW P, NEW whole, NEW o, NEW now
  PROVE  IsBuilt(Built(f, P, whole, o, now), f, WitnessBlock(f, P, whole, o.ns), o, now)
<1> DEFINE block == WitnessBlock(f, P, whole, o.ns)
           t == Integrity(f, block)
           lines == Selected(f, o)
           window == WindowRows(f, lines)
           section == SectionOf(f, o)
           checks == ChecksOf(f, block, o)
           word == WordOfBuild(f, block, o)
           page == PageOf(f, block, o)
           witness == IF o.ns = Null THEN Null ELSE block
           aat == IF o.aat THEN Aat(f) ELSE Null
           gaps == IF o.aat THEN Gaps(f) ELSE Null
           m == [schema |-> 2, built |-> now, operator |-> "UNKNOWN", win |-> WinOf(f, o),
                 complete |-> TRUE, files |-> Null, verdict |-> Null, checks |-> Null,
                 counts |-> Null, head |-> Null, pins |-> Null, mandate |-> Null,
                 independence |-> Null, aat |-> Null]
           p == [records |-> f, integrity |-> t, witness |-> witness, window |-> window,
                 aat |-> aat, gaps |-> gaps, mandate |-> section, copy |-> o.copy,
                 cnl |-> Null, page |-> Null, twin |-> Null, summary |-> Null,
                 stray |-> Null, sum |-> Null, manifest |-> m]
           head == [chain |-> LastChain(f), rows |-> RowCount(f)]
           listing == IF aat = Null THEN Null ELSE aat.head
           sealed == [m EXCEPT !.verdict = word, !.checks = checks, !.counts = Counts(checks),
                               !.head = head, !.pins = PinsOf(block), !.mandate = section,
                               !.independence = Independence(block.kind), !.aat = listing]
           q == [p EXCEPT !.cnl = Missed(checks), !.page = page, !.twin = page,
                          !.summary = Summary(f, t), !.manifest = sealed]
           stamp == [sealed EXCEPT !.files = HashTable(q)]
           r == [q EXCEPT !.manifest = stamp, !.sum = stamp]
<1>1. t.witness = block
  BY DEF Integrity
<1>2. Built(f, P, whole, o, now) = Seal(p)
  BY <1>1 DEF Built, SectionOf, WinOf
<1>3. Seal(p) = Rehashed(q)
  <2>1. /\ p.manifest = m /\ p.integrity = t /\ p.window = window /\ p.mandate = section
        /\ p.records = f /\ p.aat = aat
    OBVIOUS
  <2>2. m.win = WinOf(f, o)
    OBVIOUS
  <2> HIDE DEF p, m, aat
  <2>3. m.win.unplaced = Unplaced(f, o) /\ m.win.lines = lines
    BY <2>2 DEF WinOf
  <2> DEFINE checks0 == BaseChecks(p.integrity, p.window, m.win.unplaced)
                        \o (IF p.mandate = Null THEN <<>> ELSE MandateChecks(p.mandate))
             word0 == BuildWord(p.integrity, p.window # <<>>, checks0)
             texts0 == Sentences(word0, m.win, m.win.lines, m.win.unplaced, p.mandate)
  <2>4. checks0 = checks
    BY <2>1, <2>3 DEF ChecksOf
  <2>5. word0 = word
    <3> HIDE DEF checks0, checks
    <3> QED
      BY <2>1, <2>4 DEF WordOfBuild, checks
  <2>6. Tagged(texts0) = page
    <3> HIDE DEF word0
    <3> QED
      BY <2>1, <2>2, <2>3, <2>5 DEF PageOf
  <2>7. Seal(p) = Rehashed([p EXCEPT
          !.cnl = Missed(checks0), !.page = Tagged(texts0), !.twin = Tagged(texts0),
          !.summary = Summary(p.records, p.integrity),
          !.manifest = [p.manifest EXCEPT
            !.verdict = word0, !.checks = checks0, !.counts = Counts(checks0),
            !.head = [chain |-> LastChain(p.records), rows |-> RowCount(p.records)],
            !.pins = PinsOf(p.integrity.witness), !.mandate = p.mandate,
            !.independence = Independence(p.integrity.witness.kind),
            !.aat = IF p.aat = Null THEN Null ELSE p.aat.head]])
    BY <2>1 DEF Seal
  <2> HIDE DEF checks0, word0, texts0, checks, word, page, t, block, window, section
  <2> QED
    BY <1>1, <2>1, <2>4, <2>5, <2>6, <2>7
<1>4. listing = IF o.aat THEN BodiesOf(f) ELSE Null
  <2>1. Aat(f) # Null
    BY DEF Aat, NullIsNoFile
  <2> QED
    BY <2>1 DEF Aat
<1>5. sealed # Null /\ stamp # Null
  <2> HIDE DEF word, checks, head, section, listing, q
  <2>1. sealed = [x \in DOMAIN sealed |-> sealed[x]]
    <3> HIDE DEF m
    <3> QED
      OBVIOUS
  <2>2. stamp = [x \in DOMAIN stamp |-> stamp[x]]
    <3> HIDE DEF sealed
    <3> QED
      OBVIOUS
  <2> HIDE DEF sealed, stamp
  <2> QED
    BY <2>1, <2>2 DEF NullIsNoFile
<1>6. Rehashed(q) = r
  <2>1. q.manifest = sealed
    OBVIOUS
  <2> HIDE DEF q, sealed
  <2> QED
    BY <1>5, <2>1 DEF Rehashed, Stamped
<1>7. FieldsOf(stamp, f, block, o, now)
  <2> HIDE DEF block, word, checks, head, section, listing, q
  <2>1. /\ DOMAIN stamp = ManifestNames
        /\ stamp.schema = 2 /\ stamp.built = now /\ stamp.operator = "UNKNOWN"
        /\ stamp.complete = TRUE /\ stamp.win = WinOf(f, o) /\ stamp.verdict = word
        /\ stamp.checks = checks /\ stamp.counts = Counts(checks) /\ stamp.head = head
        /\ stamp.pins = PinsOf(block) /\ stamp.mandate = section
        /\ stamp.independence = Independence(block.kind) /\ stamp.aat = listing
    BY DEF ManifestNames
  <2> HIDE DEF stamp
  <2> QED
    BY <1>4, <2>1 DEF FieldsOf, word, checks, head, section
<1>8. /\ DOMAIN q = FolderNames /\ DOMAIN r = FolderNames
      /\ \A n \in FolderNames \ Loose : r[n] = q[n]
      /\ r.manifest = stamp /\ r.sum = stamp
  <2>1. DOMAIN q = FolderNames
    <3> HIDE DEF block, t, window, section, checks, page, witness, aat, gaps, sealed
    <3> QED
      BY DEF FolderNames
  <2> HIDE DEF q, stamp
  <2> QED
    BY <2>1 DEF FolderNames, Loose
<1>9. FilesOf(r, f, block, o)
  <2> HIDE DEF block, t, window, section, checks, page, witness, aat, gaps, sealed, stamp
  <2>1. /\ q.records = f /\ q.integrity = t /\ q.witness = witness /\ q.window = window
        /\ q.aat = aat /\ q.gaps = gaps /\ q.mandate = section /\ q.copy = o.copy
        /\ q.cnl = Missed(checks) /\ q.page = page /\ q.twin = page
        /\ q.summary = Summary(f, t)
    OBVIOUS
  <2> HIDE DEF q, r
  <2>2. /\ r.records = f /\ r.integrity = t /\ r.witness = witness /\ r.window = window
        /\ r.aat = aat /\ r.gaps = gaps /\ r.mandate = section /\ r.copy = o.copy
        /\ r.cnl = Missed(checks) /\ r.page = page /\ r.twin = page
        /\ r.summary = Summary(f, t)
    BY <1>8, <2>1 DEF FolderNames, Loose
  <2> QED
    BY <1>8, <2>2 DEF FilesOf, t, window, section, checks, page, witness, aat, gaps
<1>10. r.manifest.files = [n \in Present(r) \ Loose |-> r[n]]
  <2>1. stamp.files = HashTable(q)
    <3>1. "files" \in DOMAIN sealed
      OBVIOUS
    <3> HIDE DEF sealed, q
    <3> QED
      BY <3>1
  <2> HIDE DEF q, r, stamp
  <2>2. Present(q) \ Loose = Present(r) \ Loose
    BY <1>8 DEF Present, Loose
  <2>3. \A n \in Present(r) \ Loose : r[n] = q[n]
    BY <1>8 DEF Present
  <2> QED
    BY <1>8, <2>1, <2>2, <2>3 DEF HashTable
<1> HIDE DEF r, stamp
<1>11. IsBuilt(r, f, block, o, now)
  BY <1>5, <1>7, <1>8, <1>9, <1>10 DEF IsBuilt
<1> QED
  BY <1>2, <1>3, <1>6, <1>11

(***************************************************************************)
(* verify_pack of a folder as the build left it, step by step.             *)
(***************************************************************************)
\* A list of lines is not the absence of a file.
LEMMA FileIsThere ==
  ASSUME NullIsNoFile, NEW f, f = [x \in DOMAIN f |-> f[x]]
  PROVE  f # Null
BY DEF NullIsNoFile

\* The files of an untouched folder that are never missing.
LEMMA BuiltHas ==
  ASSUME NullIsNoFile, NEW p, NEW f \in LogFiles, NEW block, NEW o, NEW now,
         IsBuilt(p, f, block, o, now)
  PROVE  {"records", "integrity", "window", "cnl", "page", "twin", "summary", "sum", "manifest"}
           \subseteq Present(p)
<1>1. f # Null
  <2>1. f = [x \in DOMAIN f |-> f[x]]
    BY DEF LogFiles
  <2> QED
    BY <2>1, FileIsThere
<1>2. Integrity(f, block) # Null
  BY FileIsThere DEF Integrity
<1>3. WindowRows(f, Selected(f, o)) # Null
  BY FileIsThere DEF WindowRows
<1>4. Missed(ChecksOf(f, block, o)) # Null
  <2> DEFINE s == Picked(ChecksOf(f, block, o), Saying(ChecksOf(f, block, o), C))
  <2>1. s = [x \in DOMAIN s |-> s[x]]
    BY DEF Picked
  <2> QED
    BY <2>1, FileIsThere DEF Missed
<1>5. PageOf(f, block, o) # Null
  BY FileIsThere DEF PageOf, Tagged
<1>6. Summary(f, Integrity(f, block)) # Null
  BY FileIsThere DEF Summary
<1>7. /\ p.records = f /\ p.integrity = Integrity(f, block)
      /\ p.window = WindowRows(f, Selected(f, o)) /\ p.cnl = Missed(ChecksOf(f, block, o))
      /\ p.page = PageOf(f, block, o) /\ p.twin = PageOf(f, block, o)
      /\ p.summary = Summary(f, Integrity(f, block)) /\ p.manifest # Null /\ p.sum # Null
      /\ DOMAIN p = FolderNames
  BY DEF IsBuilt, FilesOf
<1> QED
  BY <1>1, <1>2, <1>3, <1>4, <1>5, <1>6, <1>7 DEF Present, FolderNames

\* The steps that find nothing in a folder nobody touched.
LEMMA HashesHold ==
  ASSUME NEW p, NEW f, NEW block, NEW o, NEW now, IsBuilt(p, f, block, o, now)
  PROVE  StepHashes(p) = V
<1> DEFINE t == p.manifest.files
           there == Present(p) \ Loose
<1>1. t = [n \in there |-> p[n]]
  BY DEF IsBuilt
<1> HIDE DEF t, there
<1>2. there = DOMAIN t /\ \A n \in there \cap DOMAIN t : p[n] = t[n]
  BY <1>1
<1> QED
  BY <1>2 DEF StepHashes, t, there

\* verify_pack finds every hash of the manifest true of the pack as built,
LEMMA ManifestHashHolds ==
  ASSUME NullIsNoFile, NEW p, NEW f \in LogFiles, NEW block, NEW o, NEW now,
         IsBuilt(p, f, block, o, now)
  PROVE  StepManifestHash(p) = V
<1>1. "sum" \in Present(p)
  BY BuiltHas
<1> QED
  BY <1>1 DEF StepManifestHash, Judge, Lacks, IsBuilt

\* says of its chain what verify_file says of the log,
LEMMA ChainSays ==
  ASSUME NullIsNoFile, NEW p, NEW f \in LogFiles, NEW block, NEW o, NEW now,
         IsBuilt(p, f, block, o, now)
  PROVE  StepChain(p) = CASE Ok(f, FALSE) = "False" -> B
                          [] Ok(f, FALSE) = "None" -> C
                          [] OTHER -> V
<1>1. "records" \in Present(p)
  BY BuiltHas
<1>2. p.records = f /\ p.manifest.head = [chain |-> LastChain(f), rows |-> RowCount(f)]
  BY DEF IsBuilt, FilesOf, FieldsOf
<1> QED
  BY <1>1, <1>2 DEF StepChain, Judge, Lacks

\* The lines a window takes are lines of the log.
LEMMA SelectedIs ==
  ASSUME NEW f \in LogFiles, NEW o
  PROVE  /\ \A k \in DOMAIN Selected(f, o) : Selected(f, o)[k] \in 1..FileLines(f)
         /\ \E n \in Nat : DOMAIN Selected(f, o) = 1..n
         /\ Selected(f, o) = [k \in DOMAIN Selected(f, o) |-> Selected(f, o)[k]]
<1>1. FileLines(f) \in Nat
  BY DEF LogFiles, FileLines
<1> DEFINE S == {i \in 1..FileLines(f) :
                   /\ OfAgent(f, o, i)
                   /\ Bounds(o) => Body(f, i).ts # Null /\ InBounds(f, o, i)}
<1>2. S \in SUBSET (1..FileLines(f)) /\ Selected(f, o) = InOrder(S)
  BY DEF Selected
<1> HIDE DEF S
<1>3. /\ Cardinality(S) \in Nat /\ DOMAIN InOrder(S) = 1..Cardinality(S)
      /\ \A k \in 1..Cardinality(S) : InOrder(S)[k] \in S
  BY <1>1, <1>2, InOrderIs
<1>4. InOrder(S) = [k \in DOMAIN InOrder(S) |-> InOrder(S)[k]]
  <2> DEFINE At(k) == CHOOSE n \in S : Cardinality({m \in S : m < n}) = k - 1
  <2>1. InOrder(S) = [k \in 1..Cardinality(S) |-> At(k)]
    BY DEF InOrder
  <2> HIDE DEF At
  <2> QED
    BY <2>1
<1> QED
  BY <1>2, <1>3, <1>4

\* The manifest's fields select what the options of the build did.
LEMMA WinSelects ==
  ASSUME NEW f, NEW o
  PROVE  Selected(f, WinOf(f, o)) = Selected(f, o) /\ Unplaced(f, WinOf(f, o)) = Unplaced(f, o)
<1> DEFINE w == WinOf(f, o)
<1>1. w.agent = o.agent /\ w.from = o.from /\ w.to = o.to
  BY DEF WinOf
<1> HIDE DEF w
<1>2. (Bounds(w) <=> Bounds(o)) /\ \A i : OfAgent(f, w, i) <=> OfAgent(f, o, i)
  BY <1>1 DEF Bounds, OfAgent
<1>3. \A i : InBounds(f, w, i) <=> InBounds(f, o, i)
  BY <1>1 DEF InBounds
<1>4. {i \in 1..FileLines(f) : /\ OfAgent(f, w, i)
                               /\ Bounds(w) => Body(f, i).ts # Null /\ InBounds(f, w, i)}
      = {i \in 1..FileLines(f) : /\ OfAgent(f, o, i)
                                 /\ Bounds(o) => Body(f, i).ts # Null /\ InBounds(f, o, i)}
  BY <1>2, <1>3
<1>5. {i \in 1..FileLines(f) : OfAgent(f, w, i) /\ Bounds(w) /\ Body(f, i).ts = Null}
      = {i \in 1..FileLines(f) : OfAgent(f, o, i) /\ Bounds(o) /\ Body(f, i).ts = Null}
  BY <1>2
<1> QED
  BY <1>4, <1>5 DEF Selected, Unplaced, w

\* The window rows name the lines the window selected.
LEMMA LinesOfWindow ==
  ASSUME NEW f \in LogFiles, NEW o
  PROVE  LinesOf(WindowRows(f, Selected(f, o))) = Selected(f, o)
<1> DEFINE s == Selected(f, o)
<1>1. s = [k \in DOMAIN s |-> s[k]]
  BY SelectedIs
<1> HIDE DEF s
<1>2. LinesOf(WindowRows(f, s)) = [k \in DOMAIN s |-> s[k]]
  BY DEF LinesOf, WindowRows
<1> QED
  BY <1>1, <1>2 DEF s

\* finds in the window file the rows that the window selects,
LEMMA WindowHolds ==
  ASSUME NullIsNoFile, NEW p, NEW f \in LogFiles, NEW block, NEW o, NEW now,
         IsBuilt(p, f, block, o, now)
  PROVE  StepWindow(p) = V
<1> DEFINE s == Selected(f, o)
<1>1. {"window", "records"} \subseteq Present(p)
  BY BuiltHas
<1>2. p.records = f /\ p.window = WindowRows(f, s) /\ p.manifest.win.lines = s
  BY DEF IsBuilt, FilesOf, FieldsOf, WinOf
<1>3. LinesOf(p.window) = s
  BY <1>2, LinesOfWindow
<1>4. \A k \in DOMAIN s : s[k] \in 1..FileLines(f)
  BY SelectedIs
<1> HIDE DEF s
<1>5. \A k \in DOMAIN p.window :
        p.window[k].line \in 1..FileLines(p.records)
        /\ p.window[k].raw = p.records[p.window[k].line]
  BY <1>2, <1>4 DEF WindowRows
<1> QED
  BY <1>1, <1>2, <1>3, <1>5 DEF StepWindow, Judge, Lacks

\* and in the export and the gap list what the records give,
LEMMA AatHolds ==
  ASSUME NullIsNoFile, NEW p, NEW f \in LogFiles, NEW block, NEW o, NEW now,
         IsBuilt(p, f, block, o, now)
  PROVE  StepAat(p) = V
<1>1. /\ p.records = f /\ p.aat = IF o.aat THEN Aat(f) ELSE Null
      /\ p.gaps = IF o.aat THEN Gaps(f) ELSE Null
      /\ p.manifest.aat = IF o.aat THEN BodiesOf(f) ELSE Null
      /\ DOMAIN p = FolderNames
  BY DEF IsBuilt, FilesOf, FieldsOf
<1>2. CASE ~o.aat
  BY <1>1, <1>2 DEF StepAat
<1>3. CASE o.aat
  <2>1. Aat(f) # Null /\ Gaps(f) # Null
    <3>1. Aat(f) = [x \in DOMAIN Aat(f) |-> Aat(f)[x]]
      BY DEF Aat
    <3>2. Gaps(f) = [x \in DOMAIN Gaps(f) |-> Gaps(f)[x]]
      BY DEF Gaps
    <3> QED
      BY <3>1, <3>2, FileIsThere
  <2>2. "records" \in Present(p)
    BY BuiltHas
  <2>3. {"aat", "gaps", "records"} \subseteq Present(p)
    BY <1>1, <1>3, <2>1, <2>2 DEF Present, FolderNames
  <2>4. Aat(f).head = BodiesOf(f)
    BY DEF Aat
  <2> QED
    BY <1>1, <1>3, <2>3, <2>4 DEF StepAat, Judge, Lacks
<1> QED
  BY <1>2, <1>3

\* and on page one every sentence with the bearer it has to have,
LEMMA BearersHold ==
  ASSUME NullIsNoFile, NEW p, NEW f \in LogFiles, NEW block, NEW o, NEW now,
         IsBuilt(p, f, block, o, now)
  PROVE  ~PreBearer(p) /\ StepBearer(p) = V
<1>1. {"page", "twin", "cnl"} \subseteq Present(p)
  BY BuiltHas
<1> DEFINE page == PageOf(f, block, o)
<1>2. p.page = page /\ p.twin = page /\ p.manifest.schema = 2
  BY DEF IsBuilt, FilesOf, FieldsOf
<1>3. ~PreBearer(p)
  BY <1>2 DEF PreBearer
<1>4. \A id \in DOMAIN page : page[id].bearer = Bearer(id)
  BY DEF PageOf, Tagged
<1> HIDE DEF page
<1>5. \A id : Bearer(id).file \in {Null, "cnl", "twin"}
  BY DEF Bearer
<1>6. \A id \in DOMAIN p.page : Bearer(id).file # Null => ~Lacks(p, {Bearer(id).file})
  BY <1>1, <1>5 DEF Lacks
<1> QED
  BY <1>1, <1>2, <1>3, <1>4, <1>6 DEF StepBearer, Judge, Lacks

\* c holds what a and b hold and nothing else.
Joins(c, a, b) ==
  /\ \A k \in DOMAIN c : (\E j \in DOMAIN a : c[k] = a[j]) \/ \E j \in DOMAIN b : c[k] = b[j]
  /\ \A j \in DOMAIN a : \E k \in DOMAIN c : c[k] = a[j]
  /\ \A j \in DOMAIN b : \E k \in DOMAIN c : c[k] = b[j]

\* A concatenation does.
LEMMA ConcatJoins ==
  ASSUME NEW a, NEW b, Listed(a), Listed(b)
  PROVE  Joins(a \o b, a, b)
<1> DEFINE c == a \o b
<1>1. /\ Len(a) \in Nat /\ Len(b) \in Nat /\ DOMAIN c = 1..(Len(a) + Len(b))
      /\ \A k \in 1..Len(a) : c[k] = a[k]
      /\ \A k \in 1..Len(b) : c[Len(a) + k] = b[k]
  BY ConcatIsListed
<1>2. DOMAIN a = 1..Len(a) /\ DOMAIN b = 1..Len(b)
  BY DEF Listed
<1> HIDE DEF c
<1>3. ASSUME NEW k \in DOMAIN c
      PROVE  (\E j \in DOMAIN a : c[k] = a[j]) \/ \E j \in DOMAIN b : c[k] = b[j]
  <2>1. CASE k \in 1..Len(a)
    BY <1>1, <1>2, <2>1
  <2>2. CASE k \notin 1..Len(a)
    <3>1. k - Len(a) \in 1..Len(b) /\ Len(a) + (k - Len(a)) = k
      BY <1>1, <2>2
    <3> QED
      BY <1>1, <1>2, <3>1
  <2> QED
    BY <2>1, <2>2
<1>4. \A j \in DOMAIN a : j \in DOMAIN c /\ c[j] = a[j]
  BY <1>1, <1>2
<1>5. \A j \in DOMAIN b : Len(a) + j \in DOMAIN c /\ c[Len(a) + j] = b[j]
  BY <1>1, <1>2
<1>6. Joins(c, a, b)
  BY <1>3, <1>4, <1>5 DEF Joins
<1> QED
  BY <1>6 DEF c

\* Short lists.
LEMMA ShortLists ==
  ASSUME NEW a, NEW b
  PROVE  /\ Listed(<<>>) /\ Listed(<<a>>) /\ Listed(<<a, b>>)
         /\ DOMAIN <<a>> = {1} /\ DOMAIN <<a, b>> = {1, 2}
<1>1. <<>> \in Seq({a}) /\ <<a>> \in Seq({a}) /\ <<a, b>> \in Seq({a, b})
  OBVIOUS
<1>2. DOMAIN <<a>> = {1} /\ DOMAIN <<a, b>> = {1, 2}
  OBVIOUS
<1> QED
  BY <1>1, <1>2 DEF Listed

\* Some check of the list could not look, for the reason.
Reasoned(checks, reason) == \E k \in DOMAIN checks : /\ checks[k].verdict = C
                                                     /\ checks[k].reason = reason

\* The names and words of the checks of a build.
LEMMA BaseChecksSay ==
  ASSUME NEW t, NEW window, NEW unplaced
  PROVE  LET base == BaseChecks(t, window, unplaced)
         IN  /\ \A k \in DOMAIN base : /\ base[k].check \in BaseNames
                                       /\ base[k].verdict \in {t.verdict, V, C}
             /\ window = <<>> => Reasoned(base, "empty")
             /\ unplaced # <<>> => Reasoned(base, "unreadable")
<1> DEFINE r == IF t.verdict = C THEN ReasonOf(t.finding, t.witness.verdict) ELSE Null
           one == Check("records chain and witness cross-check", t.verdict, r)
           two == IF window = <<>> THEN Check("window has rows", C, "empty")
                  ELSE Check("window has rows", V, Null)
           three == Check("every agent row placed in or out of the window", C, "unreadable")
<1>1. /\ one.verdict = t.verdict /\ one.check \in BaseNames
      /\ two.verdict \in {V, C} /\ two.check \in BaseNames
      /\ window = <<>> => two.verdict = C /\ two.reason = "empty"
      /\ three.verdict = C /\ three.check \in BaseNames /\ three.reason = "unreadable"
  BY DEF Check, BaseNames
<1>2. BaseChecks(t, window, unplaced) = <<one, two>> \o (IF unplaced = <<>> THEN <<>> ELSE <<three>>)
  BY DEF BaseChecks
<1> HIDE DEF one, two, three
<1> DEFINE a == <<one, two>>
           b == IF unplaced = <<>> THEN <<>> ELSE <<three>>
           base == a \o b
<1>3. Listed(a) /\ Listed(b) /\ DOMAIN a = {1, 2} /\ a[1] = one /\ a[2] = two
  BY ShortLists
<1>4. \A j \in DOMAIN b : unplaced # <<>> /\ b[j] = three
  OBVIOUS
<1>5. unplaced # <<>> => \E j \in DOMAIN b : b[j] = three
  OBVIOUS
<1>6. BaseChecks(t, window, unplaced) = base
  BY <1>2
<1> HIDE DEF a, b
<1>7. Joins(base, a, b)
  BY <1>3, ConcatJoins
<1> HIDE DEF base
<1>8. \A k \in DOMAIN base : base[k] \in {one, two, three}
  BY <1>3, <1>4, <1>7 DEF Joins
<1>9. \E k \in DOMAIN base : base[k] = two
  BY <1>3, <1>7 DEF Joins
<1>10. unplaced # <<>> => \E k \in DOMAIN base : base[k] = three
  BY <1>5, <1>7 DEF Joins
<1>11. window = <<>> => Reasoned(base, "empty")
  BY <1>1, <1>9 DEF Reasoned
<1>12. unplaced # <<>> => Reasoned(base, "unreadable")
  BY <1>1, <1>10 DEF Reasoned
<1> QED
  BY <1>1, <1>6, <1>8, <1>11, <1>12

\* A check of the mandate is VERIFIED or COULD-NOT-CHECK.
LEMMA MandateChecksSay ==
  ASSUME NEW s
  PROVE  \A k \in DOMAIN MandateChecks(s) : /\ MandateChecks(s)[k].check \in MandateNames
                                            /\ MandateChecks(s)[k].verdict \in {V, C}
<1> DEFINE a == Check("mandate file read", C, "missing")
           b == Check("mandate file is the one the gate loaded", C, "missing")
           c == Check("mandate file is the one the gate loaded", C, "name_not_found")
           d == Check("mandate file is the one the gate loaded", V, Null)
           e == Check("mandate inside count", C, "bounded")
           x == IF s.named = {} THEN b ELSE IF s.sha \notin s.named THEN c ELSE d
           Good(y) == y.check \in MandateNames /\ y.verdict \in {V, C}
<1>1. Good(a) /\ Good(b) /\ Good(c) /\ Good(d) /\ Good(e)
  BY DEF Check, MandateNames
<1>2. Good(x)
  <2> HIDE DEF b, c, d, Good
  <2> QED
    BY <1>1
<1>3. MandateChecks(s) = IF s.sha = Null THEN <<a>> ELSE <<x>> \o (IF s.open THEN <<e>> ELSE <<>>)
  BY DEF MandateChecks
<1> HIDE DEF a, x, e, Good
<1> DEFINE checks == MandateChecks(s)
           z == IF s.open THEN <<e>> ELSE <<>>
<1>4. Listed(<<x>>) /\ Listed(z) /\ \A j \in DOMAIN z : z[j] = e
  <2>1. Listed(<<x>>) /\ Listed(<<e>>) /\ Listed(<<>>)
    BY ShortLists
  <2>2. Listed(z)
    BY <2>1
  <2>3. \A j \in DOMAIN z : z[j] = e
    OBVIOUS
  <2> QED
    BY <2>1, <2>2, <2>3
<1>5. \A k \in DOMAIN checks : checks[k] \in {a, x, e}
  <2>1. CASE checks = <<a>>
    <3> HIDE DEF checks
    <3> QED
      BY <2>1
  <2>2. CASE checks = <<x>> \o z
    <3> HIDE DEF z, checks
    <3>1. Joins(<<x>> \o z, <<x>>, z)
      BY <1>4, ConcatJoins
    <3> QED
      BY <1>4, <2>2, <3>1 DEF Joins
  <2> QED
    BY <1>3, <2>1, <2>2
<1>6. \A y \in {a, x, e} : y.check \in MandateNames /\ y.verdict \in {V, C}
  BY <1>1, <1>2 DEF Good
<1> QED
  BY <1>5, <1>6 DEF checks

\* The checks of a build, one after the other.
LEMMA ChecksSay ==
  ASSUME NEW f, NEW block, NEW o
  PROVE  LET t == Integrity(f, block)
             base == BaseChecks(t, WindowRows(f, Selected(f, o)), Unplaced(f, o))
             more == IF SectionOf(f, o) = Null THEN <<>> ELSE MandateChecks(SectionOf(f, o))
             checks == ChecksOf(f, block, o)
         IN  /\ checks = base \o more /\ Listed(base) /\ Listed(more) /\ Listed(checks)
             /\ DOMAIN checks = 1..(Len(base) + Len(more)) /\ Len(base) \in Nat /\ Len(more) \in Nat
             /\ \A k \in 1..Len(base) : checks[k] = base[k] /\ checks[k].check \in BaseNames
             /\ \A k \in Len(base)+1..Len(base)+Len(more) :
                  checks[k].check \in MandateNames
             /\ \A k \in DOMAIN checks : checks[k].verdict \in {t.verdict, V, C}
             /\ checks[1].verdict = t.verdict /\ 1 \in DOMAIN checks
<1> DEFINE t == Integrity(f, block)
           window == WindowRows(f, Selected(f, o))
           unplaced == Unplaced(f, o)
           base == BaseChecks(t, window, unplaced)
           more == IF SectionOf(f, o) = Null THEN <<>> ELSE MandateChecks(SectionOf(f, o))
           checks == ChecksOf(f, block, o)
<1>1. checks = base \o more
  BY DEF ChecksOf
<1>2. Listed(base) /\ 1 \in DOMAIN base /\ base[1].verdict = t.verdict
  BY BaseChecksAre
<1>3. Listed(more)
  <2>1. Listed(<<>>)
    BY DEF Listed
  <2> QED
    BY <2>1, MandateChecksAreListed
<1>4. \A k \in DOMAIN base : base[k].check \in BaseNames /\ base[k].verdict \in {t.verdict, V, C}
  BY BaseChecksSay
<1>5. \A k \in DOMAIN more : more[k].check \in MandateNames /\ more[k].verdict \in {V, C}
  BY MandateChecksSay
<1>6. DOMAIN base = 1..Len(base) /\ DOMAIN more = 1..Len(more)
  BY <1>2, <1>3 DEF Listed
<1> HIDE DEF t, base, more, checks
<1>7. /\ Listed(checks) /\ Len(base) \in Nat /\ Len(more) \in Nat
      /\ DOMAIN checks = 1..(Len(base) + Len(more))
      /\ \A k \in 1..Len(base) : checks[k] = base[k]
      /\ \A k \in 1..Len(more) : checks[Len(base) + k] = more[k]
  BY <1>1, <1>2, <1>3, ConcatIsListed
<1>8. ASSUME NEW k \in Len(base)+1..Len(base)+Len(more)
      PROVE  \E j \in 1..Len(more) : checks[k] = more[j]
  <2>1. k - Len(base) \in 1..Len(more) /\ Len(base) + (k - Len(base)) = k
    BY <1>7
  <2> QED
    BY <1>7, <2>1
<1>9. \A k \in DOMAIN checks : k \in 1..Len(base) \/ k \in Len(base)+1..Len(base)+Len(more)
  BY <1>7
<1>10. \A k \in DOMAIN checks : checks[k].verdict \in {t.verdict, V, C}
  <2>1. \A k \in 1..Len(base) : checks[k].verdict \in {t.verdict, V, C}
    BY <1>4, <1>6, <1>7
  <2>2. \A k \in Len(base)+1..Len(base)+Len(more) : checks[k].verdict \in {V, C}
    BY <1>5, <1>6, <1>8
  <2> QED
    BY <1>9, <2>1, <2>2
<1>11. \A k \in Len(base)+1..Len(base)+Len(more) : checks[k].check \in MandateNames
  BY <1>5, <1>6, <1>8
<1>12. \A k \in 1..Len(base) : checks[k] = base[k] /\ checks[k].check \in BaseNames
  BY <1>4, <1>6, <1>7
<1>13. checks[1].verdict = t.verdict /\ 1 \in DOMAIN checks
  BY <1>2, <1>6, <1>7
<1> QED
  BY <1>1, <1>2, <1>3, <1>7, <1>10, <1>11, <1>12, <1>13 DEF t, base, more, checks, window, unplaced

\* and in the mandate file the checks that the folder gives.
LEMMA MandateHolds ==
  ASSUME NullIsNoFile, NEW p, NEW f \in LogFiles, NEW block, NEW o, NEW now,
         IsBuilt(p, f, block, o, now)
  PROVE  StepMandate(p) = V
<1> DEFINE s == Section(f, Selected(f, o), o.copy)
<1>1. /\ p.records = f /\ p.mandate = SectionOf(f, o) /\ p.copy = o.copy
      /\ p.manifest.mandate = SectionOf(f, o) /\ p.manifest.win.lines = Selected(f, o)
      /\ p.manifest.checks = ChecksOf(f, block, o) /\ DOMAIN p = FolderNames
  BY DEF IsBuilt, FilesOf, FieldsOf, WinOf
<1>2. CASE ~o.mandate
  BY <1>1, <1>2 DEF StepMandate, SectionOf
<1>3. CASE o.mandate
  <2>1. SectionOf(f, o) = s /\ s.sha = o.copy
    BY <1>3 DEF SectionOf, Section
  <2>2. s # Null
    <3>1. s = [x \in DOMAIN s |-> s[x]]
      BY DEF Section
    <3> QED
      BY <3>1, FileIsThere
  <2>3. "records" \in Present(p)
    BY BuiltHas
  <2> HIDE DEF s
  <2>4. ~Lacks(p, {"mandate", "records"} \cup (IF p.manifest.mandate.sha = Null THEN {} ELSE {"copy"}))
    BY <1>1, <2>1, <2>2, <2>3 DEF Lacks, Present, FolderNames
  <2> DEFINE base == BaseChecks(Integrity(f, block), WindowRows(f, Selected(f, o)), Unplaced(f, o))
             more == MandateChecks(s)
             checks == ChecksOf(f, block, o)
  <2>5. (IF SectionOf(f, o) = Null THEN <<>> ELSE MandateChecks(SectionOf(f, o))) = more
    BY <2>1, <2>2
  <2>6. /\ checks = base \o more /\ Listed(base) /\ Listed(more)
        /\ DOMAIN checks = 1..(Len(base) + Len(more)) /\ Len(base) \in Nat /\ Len(more) \in Nat
        /\ \A k \in 1..Len(base) : checks[k].check \in BaseNames
        /\ \A k \in Len(base)+1..Len(base)+Len(more) : checks[k].check \in MandateNames
    <3> HIDE DEF more
    <3> QED
      BY <2>5, ChecksSay
  <2> HIDE DEF base, more, checks
  <2>7. {k \in DOMAIN checks : checks[k].check \in MandateNames} = Len(base)+1..Len(base)+Len(more)
    <3>1. BaseNames \cap MandateNames = {}
      BY DEF BaseNames, MandateNames
    <3>2. \A k \in DOMAIN checks : k \in 1..Len(base) \/ k \in Len(base)+1..Len(base)+Len(more)
      BY <2>6
    <3>3. Len(base)+1..Len(base)+Len(more) \subseteq DOMAIN checks
      BY <2>6
    <3> QED
      BY <2>6, <3>1, <3>2, <3>3
  <2>8. Picked(checks, Len(base)+1..Len(base)+Len(more)) = more
    BY <2>6, PickedTail
  <2>9. Picked(p.manifest.checks,
               {k \in DOMAIN p.manifest.checks : p.manifest.checks[k].check \in MandateNames})
        = MandateChecks(s)
    BY <1>1, <2>7, <2>8 DEF checks, more
  <2>10. Section(p.records, p.manifest.win.lines, p.copy) = s
    BY <1>1 DEF s
  <2>11. p.mandate = s /\ p.manifest.mandate = s
    BY <1>1, <2>1
  <2> QED
    BY <2>2, <2>4, <2>9, <2>10, <2>11 DEF StepMandate, Judge
<1> QED
  BY <1>2, <1>3

(***************************************************************************)
(* The word of such a build, and what its step says of it.                 *)
(***************************************************************************)
\* Lists with the same places have the same length.
LEMMA SameLength ==
  ASSUME NEW a \in Nat, NEW b \in Nat, 1..a = 1..b
  PROVE  a = b
<1>1. ~(a < b)
  <2>1. a < b => b \in 1..b /\ b \notin 1..a
    OBVIOUS
  <2> QED
    BY <2>1
<1>2. ~(b < a)
  <2>1. b < a => a \in 1..a /\ a \notin 1..b
    OBVIOUS
  <2> QED
    BY <2>1
<1> QED
  BY <1>1, <1>2

\* Every finding has one of the three words.
LEMMA WordsOfFindings ==
  ASSUME NEW finding
  PROVE  WordOf(finding) \in {V, B, C}
<1>1. CASE finding \in {"PASS", "VERIFIED_MODULO_TRUNCATION"}
  BY <1>1 DEF WordOf
<1>2. CASE finding \in {"FAIL", "TRUNCATION_DETECTED", "REWRITE_DETECTED"}
  BY <1>2 DEF WordOf
<1>3. CASE finding \notin {"PASS", "VERIFIED_MODULO_TRUNCATION", "FAIL",
                           "TRUNCATION_DETECTED", "REWRITE_DETECTED"}
  BY <1>3 DEF WordOf
<1> QED
  BY <1>1, <1>2, <1>3

\* What could not look is written down, and nothing else.
LEMMA MissedIs ==
  ASSUME NEW checks, Listed(checks)
  PROVE  /\ Len(Missed(checks)) = Cardinality(Saying(checks, C))
         /\ Missed(checks) # <<>> <=> Saying(checks, C) # {}
         /\ \A k \in Saying(checks, C) : \E j \in DOMAIN Missed(checks) : Missed(checks)[j] = checks[k]
<1> DEFINE S == Saying(checks, C)
           s == Missed(checks)
<1>1. PICK n \in Nat : DOMAIN checks = 1..n
  BY DEF Listed
<1>2. S \in SUBSET (1..n)
  BY <1>1 DEF Saying
<1>3. s = Picked(checks, S)
  BY DEF Missed
<1> HIDE DEF S, s
<1>4. Cardinality(S) \in Nat /\ Listed(s) /\ DOMAIN s = 1..Cardinality(S)
  BY <1>2, <1>3, PickedIs
<1>5. Len(s) = Cardinality(S)
  <2>1. Len(s) \in Nat /\ DOMAIN s = 1..Len(s)
    BY <1>4 DEF Listed
  <2> QED
    BY <1>4, <2>1, SameLength
<1>6. Cardinality(S) = 0 <=> S = {}
  BY <1>2, Counted
<1>7. s # <<>> <=> S # {}
  <2>1. s = <<>> => Cardinality(S) = 0
    BY <1>5
  <2>2. Len(s) = 0 => s = <<>>
    BY <1>4 DEF Listed
  <2> QED
    BY <1>5, <1>6, <2>1, <2>2
<1>8. ASSUME NEW k \in S
      PROVE  \E j \in DOMAIN s : s[j] = checks[k]
  <2>1. PICK j \in 1..Cardinality(S) : InOrder(S)[j] = k
    BY <1>2, InOrderIs
  <2>2. DOMAIN InOrder(S) = 1..Cardinality(S)
    BY <1>2, InOrderIs
  <2>3. s[j] = checks[InOrder(S)[j]]
    BY <1>3, <2>2 DEF Picked
  <2> QED
    BY <1>4, <2>1, <2>3
<1> QED
  BY <1>5, <1>7, <1>8 DEF S, s

\* The word of a build.
LEMMA BuildWordIs ==
  ASSUME NEW f, NEW block, NEW o
  PROVE  LET t == Integrity(f, block)
             word == WordOfBuild(f, block, o)
             checks == ChecksOf(f, block, o)
         IN  /\ t.verdict \in {V, B, C} /\ word \in {V, B, C}
             /\ word = B <=> t.verdict = B
             /\ word = C => Saying(checks, C) # {}
             /\ t.verdict # B => Saying(checks, B) = {}
             /\ t.verdict = C => Saying(checks, C) # {}
<1> DEFINE t == Integrity(f, block)
           window == WindowRows(f, Selected(f, o))
           more == IF SectionOf(f, o) = Null THEN <<>> ELSE MandateChecks(SectionOf(f, o))
           unplaced == Unplaced(f, o)
           checks == ChecksOf(f, block, o)
           word == WordOfBuild(f, block, o)
           first == IF ~(window # <<>>) /\ t.verdict # B THEN C ELSE t.verdict
           others == {c \in Range(checks) : c.check \notin BaseNames}
           words == {first} \cup {c.verdict : c \in others}
<1>1. t.verdict \in {V, B, C}
  BY WordsOfFindings DEF Integrity
<1>2. /\ Listed(more) /\ checks = BaseChecks(t, window, Unplaced(f, o)) \o more
      /\ \A k \in DOMAIN checks : checks[k].verdict \in {t.verdict, V, C}
      /\ checks[1].verdict = t.verdict /\ 1 \in DOMAIN checks
  BY ChecksSay
<1>3. word = BuildWord(t, window # <<>>, checks)
  BY DEF WordOfBuild
<1>4. word \in {V, B, C} /\ (word = C => Saying(checks, C) # {})
  <2>1. Listed(more) /\ checks = BaseChecks(t, window, unplaced) \o more
    BY <1>2
  <2>2. word = WindowWord(t, window, checks)
    BY <1>3 DEF WindowWord
  <2> HIDE DEF checks, more, window, t, unplaced, word
  <2>3. Told(WindowWord(t, window, checks), checks)
    BY <2>1, CouldNotLookIsListed
  <2> QED
    BY <2>2, <2>3 DEF Told
<1>5. word = Worst(words)
  BY <1>3 DEF BuildWord
<1>6. word = B <=> B \in words
  <2> HIDE DEF word, words
  <2> QED
    BY <1>5 DEF Worst, V, B, C
<1>7. B \in words <=> t.verdict = B
  <2>1. ASSUME NEW c \in others, c.verdict = B
        PROVE  t.verdict = B
    <3>1. PICK k \in DOMAIN checks : checks[k].verdict = B
      BY <2>1 DEF Range
    <3> HIDE DEF checks, t
    <3> QED
      BY <1>2, <3>1 DEF V, B, C
  <2>2. first = B <=> t.verdict = B
    BY DEF V, B, C
  <2> HIDE DEF others, first, t
  <2> QED
    BY <2>1, <2>2
<1>8. t.verdict # B => Saying(checks, B) = {}
  <2> HIDE DEF checks, t
  <2> QED
    BY <1>2 DEF Saying, V, B, C
<1>9. t.verdict = C => Saying(checks, C) # {}
  <2> HIDE DEF checks, t
  <2> QED
    BY <1>2 DEF Saying
<1> HIDE DEF t, checks, word, words
<1> QED
  BY <1>1, <1>4, <1>6, <1>7, <1>8, <1>9 DEF t, checks, word

\* The build step repeats what the build found out.
LEMMA BuildSays ==
  ASSUME NullIsNoFile, NEW p, NEW f \in LogFiles, NEW block, NEW o, NEW now,
         IsBuilt(p, f, block, o, now)
  PROVE  StepBuild(p) = IF Integrity(f, block).verdict = B THEN B
                        ELSE IF p.cnl # <<>> THEN C ELSE V
<1> DEFINE t == Integrity(f, block)
           window == WindowRows(f, Selected(f, o))
           checks == ChecksOf(f, block, o)
           word == WordOfBuild(f, block, o)
           base == BaseChecks(t, window, Unplaced(f, o))
           m == p.manifest
<1>1. /\ m.complete = TRUE /\ m.checks = checks /\ m.counts = Counts(checks)
      /\ m.verdict = word /\ m.win = WinOf(f, o)
      /\ p.cnl = Missed(checks) /\ p.window = window /\ p.records = f
  BY DEF IsBuilt, FilesOf, FieldsOf
<1>2. {"cnl", "records", "window"} \subseteq Present(p)
  BY BuiltHas
<1>3. Listed(checks) /\ Listed(base) /\ \A k \in 1..Len(base) : checks[k] = base[k]
                     /\ 1..Len(base) \subseteq DOMAIN checks
  BY ChecksSay
<1>4. /\ Len(Missed(checks)) = Cardinality(Saying(checks, C))
      /\ \A k \in Saying(checks, C) : \E j \in DOMAIN Missed(checks) : Missed(checks)[j] = checks[k]
  BY <1>3, MissedIs
<1>5. DOMAIN base = 1..Len(base)
  BY <1>3 DEF Listed
<1>6. ASSUME NEW k \in DOMAIN base, base[k].verdict = C
      PROVE  base[k].reason \in {p.cnl[j].reason : j \in DOMAIN p.cnl}
  <2> HIDE DEF base, checks
  <2>1. k \in Saying(checks, C) /\ checks[k] = base[k]
    BY <1>3, <1>5, <1>6 DEF Saying
  <2> QED
    BY <1>1, <1>4, <2>1
<1>7. ~Hidden(p)
  <2> DEFINE reasons == {p.cnl[j].reason : j \in DOMAIN p.cnl}
  <2>1. /\ window = <<>> => \E k \in DOMAIN base : base[k].verdict = C /\ base[k].reason = "empty"
        /\ Unplaced(f, o) # <<>> => \E k \in DOMAIN base : /\ base[k].verdict = C
                                                           /\ base[k].reason = "unreadable"
    <3> DEFINE unplaced == Unplaced(f, o)
    <3> HIDE DEF window, t, unplaced
    <3>1. /\ window = <<>> => Reasoned(BaseChecks(t, window, unplaced), "empty")
          /\ unplaced # <<>> => Reasoned(BaseChecks(t, window, unplaced), "unreadable")
      BY BaseChecksSay
    <3> QED
      BY <3>1 DEF unplaced, Reasoned
  <2>2. LinesOf(window) = Selected(f, o)
    BY LinesOfWindow
  <2>3. Selected(f, m.win) = Selected(f, o) /\ Unplaced(f, m.win) = Unplaced(f, o)
    BY <1>1, WinSelects
  <2> HIDE DEF base, window
  <2>4. window = <<>> => "empty" \in reasons
    BY <1>6, <2>1
  <2>5. Unplaced(f, o) # <<>> => "unreadable" \in reasons
    BY <1>6, <2>1
  <2> HIDE DEF reasons
  <2> QED
    BY <1>1, <2>2, <2>3, <2>4, <2>5 DEF Hidden, reasons
<1>8. m.counts[C] = Cardinality(Saying(checks, C)) /\ m.counts[B] = Cardinality(Saying(checks, B))
  BY <1>1 DEF Counts
<1>9. /\ word = B <=> t.verdict = B
      /\ t.verdict # B => Saying(checks, B) = {}
  BY BuildWordIs
<1> HIDE DEF t, window, checks, word, base
<1>10. t.verdict # B => ~(m.counts[B] > 0)
  BY <1>8, <1>9, FS_EmptySet
<1>11. ~Lacks(p, {"cnl"})
  BY <1>2 DEF Lacks
<1>12. StepBuild(p) = IF m.counts[B] > 0 \/ m.verdict = B THEN B ELSE IF p.cnl # <<>> THEN C ELSE V
  BY <1>1, <1>4, <1>7, <1>8, <1>11 DEF StepBuild
<1> QED
  BY <1>1, <1>9, <1>10, <1>12 DEF t

(***************************************************************************)
(* The witness such a build asked, and the pin it wrote down.              *)
(***************************************************************************)
\* A set of numbers up to a bound has a greatest one.
LEMMA MaxIs ==
  ASSUME NEW n \in Nat, NEW S \in SUBSET (0..n), S # {}
  PROVE  Max(S) \in S /\ \A y \in S : y <= Max(S)
<1> DEFINE T == {n - x : x \in S}
<1>1. T \in SUBSET Nat /\ T # {}
  <2>1. \A x \in S : n - x \in Nat
    OBVIOUS
  <2>2. T \in SUBSET Nat
    BY <2>1
  <2>3. \E x \in S : n - x \in T
    OBVIOUS
  <2> QED
    BY <2>2, <2>3
<1>2. PICK t \in T : \A y \in T : t <= y
  BY <1>1, Smallest
<1>3. PICK x \in S : t = n - x
  BY <1>2
<1>4. \A y \in S : n - y \in T
  OBVIOUS
<1>5. \A y \in S : n - x <= n - y
  BY <1>2, <1>3, <1>4
<1>6. \A y \in S : x >= y
  BY <1>5
<1>7. \E z \in S : \A y \in S : z >= y
  BY <1>6
<1>8. Max(S) \in S /\ \A y \in S : Max(S) >= y
  <2>1. Max(S) = CHOOSE z \in S : \A y \in S : z >= y
    BY DEF Max
  <2> QED
    BY <1>7, <2>1
<1> QED
  BY <1>8

\* What an audit names: the pin it compared with and agreed, and with none
\* when it says neither that nor what the log has lost.
AgreedPin(f, P, a, ns) ==
  \E i \in DOMAIN P : /\ P[i].ns = ns /\ ~Disagrees(f, P[i])
                      /\ a.rows = P[i].rows /\ a.chain = P[i].chain /\ a.at = P[i].at

\* A consistent audit names a pin the log agrees with; a broken one, and one with no
\* pin to ask, names no rows.
LEMMA AuditIs ==
  ASSUME NEW f, NEW P \in Seq(PinsOfLogs), NEW whole, NEW ns,
         NEW a, a = Audit(f, P, DOMAIN P, whole, ns)
  PROVE  /\ a.verdict \in Verdicts
         /\ a.verdict = "consistent" => AgreedPin(f, P, a, ns)
         /\ a.verdict \in {"witness_broken", "local_broken", "no_record"} => a.rows = Null
<1> DEFINE J == DOMAIN P
           H == OfNs(P, J, ns)
           Say(v, p) == [verdict |-> v, rows |-> p.rows, chain |-> p.chain, at |-> p.at]
           None(v) == [verdict |-> v, rows |-> Null, chain |-> Null, at |-> Null]
           bad == {i \in H : Disagrees(f, P[i])}
           first == P[IF Max(H) \in bad THEN Max(H) ELSE Min(bad)]
           last == P[Max(H)]
           x == IF first.rows > RowCount(f) THEN "truncated" ELSE "rewritten"
<1>1. H \in SUBSET (0..Len(P))
  BY DEF OfNs
<1>2. H # {} => Max(H) \in H
  <2>1. Len(P) \in Nat
    OBVIOUS
  <2> HIDE DEF H
  <2> QED
    BY <1>1, <2>1, MaxIs
<1>3. a = CASE ~whole /\ J # {} -> None("witness_broken")
            [] (whole \/ J = {}) /\ Ok(f, FALSE) = "False" -> None("local_broken")
            [] (whole \/ J = {}) /\ Ok(f, FALSE) # "False" /\ H = {} -> None("no_record")
            [] (whole \/ J = {}) /\ Ok(f, FALSE) # "False" /\ H # {} /\ bad = {} ->
                 Say("consistent", last)
            [] OTHER -> Say(x, first)
  BY DEF Audit
<1> DEFINE y == Say("consistent", last)
           z == Say(x, first)
<1>4. \/ a \in {None("witness_broken"), None("local_broken"), None("no_record")}
      \/ H # {} /\ bad = {} /\ a = y
      \/ a = z
  <2> HIDE DEF None, y, z, H, bad, J
  <2>1. a = CASE ~whole /\ J # {} -> None("witness_broken")
              [] (whole \/ J = {}) /\ Ok(f, FALSE) = "False" -> None("local_broken")
              [] (whole \/ J = {}) /\ Ok(f, FALSE) # "False" /\ H = {} -> None("no_record")
              [] (whole \/ J = {}) /\ Ok(f, FALSE) # "False" /\ H # {} /\ bad = {} -> y
              [] OTHER -> z
    BY <1>3 DEF y, z
  <2> QED
    BY <2>1
<1>5. z.verdict \in {"truncated", "rewritten"} /\ y.verdict = "consistent"
  OBVIOUS
<1>6. H # {} /\ bad = {} /\ a = y => AgreedPin(f, P, a, ns)
  <2> SUFFICES ASSUME H # {}, bad = {}, a = y
               PROVE  AgreedPin(f, P, a, ns)
    OBVIOUS
  <2>1. Max(H) \in H
    BY <1>2
  <2>2. Max(H) \in DOMAIN P /\ last.ns = ns /\ ~Disagrees(f, last)
    BY <2>1 DEF OfNs
  <2>3. a.rows = last.rows /\ a.chain = last.chain /\ a.at = last.at
    OBVIOUS
  <2> QED
    BY <2>2, <2>3 DEF AgreedPin
<1> HIDE DEF y, z, H, bad
<1>7. CASE a \in {None("witness_broken"), None("local_broken"), None("no_record")}
  BY <1>7 DEF Verdicts
<1>8. CASE H # {} /\ bad = {} /\ a = y
  BY <1>5, <1>6, <1>8 DEF Verdicts
<1>9. CASE a = z
  BY <1>5, <1>9 DEF Verdicts
<1> QED
  BY <1>4, <1>7, <1>8, <1>9

\* The witness block of an export: what an audit of the pins said, or nothing.
LEMMA BlockSays ==
  ASSUME NEW f, NEW P \in Seq(PinsOfLogs), NEW whole, NEW ns,
         NEW block, block = WitnessBlock(f, P, whole, ns)
  PROVE  /\ block.ns = ns /\ block.independence = Independence(block.kind)
         /\ ns = Null => block = NoWitness /\ block.verdict = Null /\ block.rows = Null
         /\ ns # Null => block.verdict \in Verdicts
         /\ block.verdict = "consistent" => AgreedPin(f, P, block, ns)
         /\ block.verdict \in {"witness_broken", "local_broken", "no_record"} => block.rows = Null
<1>1. CASE ns = Null
  <2>1. block = NoWitness
    BY <1>1 DEF WitnessBlock
  <2>2. block.verdict = Null /\ Null \notin Verdicts
    BY <2>1, NullIsApart DEF NoWitness
  <2> QED
    BY <1>1, <2>1, <2>2 DEF NoWitness, Independence, Verdicts
<1>2. CASE ns # Null
  <2> DEFINE a == Audit(f, P, DOMAIN P, whole, ns)
  <2>1. /\ a.verdict \in Verdicts
        /\ a.verdict = "consistent" => AgreedPin(f, P, a, ns)
        /\ a.verdict \in {"witness_broken", "local_broken", "no_record"} => a.rows = Null
    <3> HIDE DEF a
    <3>1. a = Audit(f, P, DOMAIN P, whole, ns)
      BY DEF a
    <3> QED
      BY <3>1, AuditIs
  <2>2. block = [kind |-> "local_file", independence |-> "self_asserted", ns |-> ns,
                 verdict |-> a.verdict, rows |-> a.rows, chain |-> a.chain, at |-> a.at]
    BY <1>2 DEF WitnessBlock
  <2> HIDE DEF a
  <2>3. /\ block.kind = "local_file" /\ block.independence = "self_asserted" /\ block.ns = ns
        /\ block.verdict = a.verdict /\ block.rows = a.rows /\ block.chain = a.chain
        /\ block.at = a.at
    BY <2>2
  <2>4. Independence("local_file") = "self_asserted"
    BY DEF Independence
  <2>5. AgreedPin(f, P, a, ns) => AgreedPin(f, P, block, ns)
    BY <2>3 DEF AgreedPin
  <2> QED
    BY <1>2, <2>1, <2>3, <2>4, <2>5
<1> QED
  BY <1>1, <1>2

\* The word of the export: broken when the log fails its own chain or the
\* witness saw another log, and never green over a log that is not.
LEMMA WordOfExport ==
  ASSUME NEW f, NEW verdict \in Verdicts \cup {Null}
  PROVE  LET word == WordOf(Finding(f, verdict))
         IN  /\ verdict \in {"rewritten", "truncated"} => word = B
             /\ Ok(f, FALSE) = "None" /\ verdict \notin {"rewritten", "truncated"} => word = C
             /\ Ok(f, FALSE) = "True" /\ verdict \notin {"rewritten", "truncated"} => word # B
<1>0. Null \notin Verdicts /\ Ok(f, FALSE) \in {"True", "None", "False"}
  BY NullIsApart DEF Ok
<1>1. CASE verdict \in {"rewritten", "truncated"}
  BY <1>0, <1>1 DEF Finding, FindingOf, WordOf, Verdicts, B, C, V
<1>2. CASE verdict \in {"witness_broken", "local_broken", "no_record"}
  BY <1>0, <1>2 DEF Finding, FindingOf, WordOf, Verdicts, B, C, V
<1>3. CASE verdict \in {Null, "consistent"}
  <2>1. Ok(f, FALSE) = "None" => Finding(f, verdict) \in {"EMPTY_LOG", "UNVERIFIED_SCOPE"}
    BY <1>0, <1>3 DEF Finding, FindingOf, Verdicts
  <2>2. Ok(f, FALSE) = "True" => Finding(f, verdict) \in {"VERIFIED_MODULO_TRUNCATION", "PASS"}
    BY <1>0, <1>3 DEF Finding, FindingOf, Verdicts
  <2>3. verdict \notin {"rewritten", "truncated"}
    BY <1>0, <1>3 DEF Verdicts
  <2> QED
    BY <2>1, <2>2, <2>3 DEF WordOf, B, C, V
<1>4. verdict \in {"rewritten", "truncated", "witness_broken", "local_broken", "no_record", Null,
                   "consistent"}
  BY DEF Verdicts
<1> QED
  BY <1>1, <1>2, <1>3, <1>4

(***************************************************************************)
(* An untouched pack is re-derived as it was built.                        *)
(***************************************************************************)
\* The first of three.
LEMMA FirstOfThree ==
  ASSUME NEW S, NEW s \in Seq(S), Len(s) = 3
  PROVE  s[1] \in S
OBVIOUS

\* What chain_at says of a row there is.
LEMMA ChainAtRow ==
  ASSUME NEW f, Len(f) \in Nat, RowCount(f) \in Nat, NEW n \in 1..RowCount(f),
         NEW i \in 1..Len(f), IsRow(f, i), RowNumber(f, i) = n
  PROVE  ChainAt(f, n) = IF Kind(f[i]) = "bare" THEN NoChain ELSE Claimed(f, i)
<1>1. (CHOOSE k \in 1..Len(f) : IsRow(f, k) /\ RowNumber(f, k) = n) = i
  BY RowAt
<1>2. ~(n <= 0) /\ ~(n > RowCount(f))
  OBVIOUS
<1>3. Kind(f[i]) = "bare" => ChainAt(f, n) = NoChain
  BY <1>1, <1>2 DEF ChainAt
<1>4. Kind(f[i]) # "bare" => ChainAt(f, n) = Claimed(f, i)
  BY <1>1, <1>2 DEF ChainAt
<1> QED
  BY <1>3, <1>4

\* A pin the log agrees with at its last row pins its head.
LEMMA AgreedAtHead ==
  ASSUME NEW f \in LogFiles, NEW p, p \in PinsOfLogs, ~Disagrees(f, p), p.rows = RowCount(f)
  PROVE  p.chain = LastChain(f)
<1>1. Len(f) \in Nat /\ RowCount(f) \in Nat
  BY BodiesOfIs DEF LogFiles
<1>2. RowCount(f) = RowNumber(f, Len(f))
  BY <1>1, CountIsLastNumber
<1>3. ChainAt(f, RowCount(f)) = p.chain
  BY <1>1 DEF Disagrees
<1>4. CASE RowCount(f) = 0
  <2>1. ChainAt(f, RowCount(f)) = Genesis
    BY <1>4 DEF ChainAt
  <2>2. \A i \in 1..Len(f) : ~IsRow(f, i)
    <3>1. ASSUME NEW i \in 1..Len(f), IsRow(f, i)
          PROVE  FALSE
      <4>1. i \in 0..Len(f) /\ i-1 \in Nat /\ i-1+1 = i
        BY <1>1
      <4>2. RowNumber(f, i) <= 0
        BY <1>1, <1>2, <1>4, <4>1, RowNumberGrows
      <4>3. RowNumber(f, i) = RowNumber(f, i-1) + 1 /\ RowNumber(f, i-1) \in Nat
        BY <3>1, <4>1, RowNumberSteps
      <4> QED
        BY <4>2, <4>3
    <3> QED
      BY <3>1
  <2>3. LastChain(f) = Genesis
    BY <2>2 DEF LastChain, TailChain, LastRowIs
  <2> QED
    BY <1>3, <2>1, <2>3
<1>5. CASE RowCount(f) # 0
  <2>1. RowCount(f) \in 1..RowNumber(f, Len(f))
    BY <1>1, <1>2, <1>5
  <2>2. PICK i \in 1..Len(f) : IsRow(f, i) /\ RowNumber(f, i) = RowCount(f)
    BY <1>1, <2>1, RowNumbersAreUsed
  <2>3. LastRowIs(f, i, Len(f))
    <3>1. ASSUME NEW j \in i+1..Len(f), IsRow(f, j)
          PROVE  FALSE
      <4>1. RowNumber(f, i) < RowNumber(f, j)
        BY <1>1, <3>1, RowNumbersDiffer
      <4>2. RowNumber(f, j) <= RowNumber(f, Len(f))
        BY <1>1, RowNumberGrows
      <4>3. RowNumber(f, j) \in Nat
        BY <1>1, RowNumberSteps
      <4> QED
        BY <1>1, <1>2, <2>2, <4>1, <4>2, <4>3
    <3> QED
      BY <2>2, <3>1 DEF LastRowIs
  <2>4. LastChain(f) = Claimed(f, i)
    BY <1>1, <2>3, TailChainIs DEF LastChain

  <2>6. ChainAt(f, RowCount(f)) = IF Kind(f[i]) = "bare" THEN NoChain ELSE Claimed(f, i)
    <3>1. RowCount(f) \in 1..RowCount(f)
      BY <1>1, <1>5
    <3> QED
      BY <1>1, <2>2, <3>1, ChainAtRow
  <2>7. p.chain # NoChain
    <3>1. p.chain \in Seq(Content)
      BY DEF PinsOfLogs, LogChains
    <3>2. NoChain[1] = Void /\ Len(NoChain) = 3
      BY DEF NoChain
    <3>3. p.chain = NoChain => Len(p.chain) = 3
      BY <3>2
    <3> QED
      BY <3>1, <3>2, <3>3, FirstOfThree, VoidIsNoBody
  <2> QED
    BY <1>3, <2>4, <2>6, <2>7
<1> QED
  BY <1>4, <1>5

\* The pins a pack lists: at most the one its export agreed with.
LEMMA PinsAreAgreed ==
  ASSUME NEW f, NEW P \in Seq(PinsOfLogs), NEW whole, NEW ns,
         NEW block, block = WitnessBlock(f, P, whole, ns),
         block.verdict \notin {"rewritten", "truncated"}, NEW k \in DOMAIN PinsOf(block)
  PROVE  /\ PinsOf(block) = <<PinsOf(block)[k]>>
         /\ \E i \in DOMAIN P : /\ PinsOf(block)[k] = P[i] /\ P[i].ns = ns
                                /\ ~Disagrees(f, P[i])
<1> DEFINE mark == [ns |-> block.ns, rows |-> block.rows, chain |-> block.chain, at |-> block.at]
<1>1. block.rows # Null /\ PinsOf(block) = <<mark>>
  BY DEF PinsOf
<1>2. block.ns = ns /\ AgreedPin(f, P, block, ns)
  BY <1>1, BlockSays, NullIsApart DEF Verdicts
<1>3. PICK i \in DOMAIN P : /\ P[i].ns = ns /\ ~Disagrees(f, P[i])
                            /\ block.rows = P[i].rows /\ block.chain = P[i].chain
                            /\ block.at = P[i].at
  BY <1>2 DEF AgreedPin
<1>4. mark = P[i]
  <2>1. P[i] \in PinsOfLogs
    OBVIOUS
  <2>2. P[i] = [ns |-> P[i].ns, rows |-> P[i].rows, chain |-> P[i].chain, at |-> P[i].at]
    BY <2>1 DEF PinsOfLogs
  <2> QED
    BY <1>2, <1>3, <2>2
<1> HIDE DEF mark
<1>5. k = 1 /\ PinsOf(block)[k] = mark
  BY <1>1
<1> QED
  BY <1>1, <1>3, <1>4, <1>5

\* A window has rows as its selection has lines.
LEMMA WindowHasRows ==
  ASSUME NEW f \in LogFiles, NEW o
  PROVE  (WindowRows(f, Selected(f, o)) # <<>>) = (Selected(f, o) # <<>>)
<1> DEFINE lines == Selected(f, o)
           window == WindowRows(f, lines)
<1>1. LinesOf(window) = lines
  BY LinesOfWindow
<1>2. window = <<>> => lines = <<>>
  <2>1. LinesOf(<<>>) = <<>>
    BY DEF LinesOf
  <2> HIDE DEF window, lines
  <2> QED
    BY <1>1, <2>1
<1>3. lines = <<>> => window = <<>>
  <2>1. WindowRows(f, <<>>) = <<>>
    BY DEF WindowRows
  <2> HIDE DEF lines
  <2> QED
    BY <2>1
<1> HIDE DEF window, lines
<1> QED
  BY <1>2, <1>3 DEF window, lines

\* Nothing a build derived from the records reads otherwise when it is derived
\* again.
LEMMA NothingDrifts ==
  ASSUME NullIsNoFile, NEW p, NEW f \in LogFiles, NEW block, NEW o, NEW now,
         IsBuilt(p, f, block, o, now), block.ns = Null => block = NoWitness
  PROVE  ~Drift(p)
<1> DEFINE m == p.manifest
           t == Integrity(f, block)
           asked == IF block.ns = Null THEN [block EXCEPT !.verdict = Null] ELSE block
           want == Integrity(f, asked)
           word == WordOfBuild(f, block, o)
           again == BuildWord(t, Selected(f, WinOf(f, o)) # <<>>, ChecksOf(f, block, o))
<1>1. /\ p.records = f /\ p.integrity = t /\ p.summary = Summary(f, t)
      /\ p.page = PageOf(f, block, o) /\ p.twin = PageOf(f, block, o)
      /\ m.win = WinOf(f, o) /\ m.verdict = word /\ m.mandate = SectionOf(f, o)
      /\ m.checks = ChecksOf(f, block, o)
  BY DEF IsBuilt, FilesOf, FieldsOf
<1>2. Selected(f, WinOf(f, o)) = Selected(f, o) /\ Unplaced(f, WinOf(f, o)) = Unplaced(f, o)
  BY WinSelects
<1>3. t.witness = block
  BY DEF Integrity
<1>4. asked = block
  BY DEF NoWitness
<1>5. want = t
  BY <1>4
<1>6. [t EXCEPT !.witness = block] = t
  <2> DEFINE a == Finding(f, block.verdict)
             b == WordOf(a)
             n == RowCount(f)
             k == Ok(f, FALSE)
  <2>1. t = [finding |-> a, verdict |-> b, rows |-> n, ok |-> k, sha |-> f, witness |-> block]
    BY DEF Integrity
  <2> HIDE DEF a, b, n, k, t
  <2> QED
    BY <2>1
<1>7. again = word
  <2>1. (WindowRows(f, Selected(f, o)) # <<>>) = (Selected(f, o) # <<>>)
    BY WindowHasRows
  <2> QED
    BY <1>2, <2>1 DEF WordOfBuild
<1>8. ~PreBearer(p)
  BY BearersHold
<1>9. ~PageDrift(p, word)
  <2>1. Tagged(Sentences(word, m.win, Selected(p.records, m.win), Unplaced(p.records, m.win),
                         m.mandate)) = PageOf(f, block, o)
    BY <1>1, <1>2 DEF PageOf
  <2> HIDE DEF word, m
  <2> QED
    BY <1>1, <1>8, <2>1 DEF PageDrift, m
<1> HIDE DEF asked, want, word, t, again
<1>10. /\ [p.integrity EXCEPT !.witness = block] = [want EXCEPT !.witness = block]
       /\ p.summary = Summary(p.records, [want EXCEPT !.witness = block])
  BY <1>1, <1>5, <1>6
<1>11. BuildWord(p.integrity, Selected(p.records, m.win) # <<>>, m.checks) = word
  BY <1>1, <1>7 DEF again
<1>12. p.integrity.witness = block
  BY <1>1, <1>3
<1> QED
  BY <1>1, <1>9, <1>10, <1>11, <1>12 DEF Drift, want, asked

\* The records of an untouched pack are as its hash table has them.
LEMMA RecordsAreWhole ==
  ASSUME NullIsNoFile, NEW p, NEW f \in LogFiles, NEW block, NEW o, NEW now,
         IsBuilt(p, f, block, o, now), Ok(f, FALSE) # "False"
  PROVE  ~RecordsBad(p)
<1>1. "records" \in Present(p) \ Loose
  BY BuiltHas DEF Loose
<1>2. p.manifest.files = [n \in Present(p) \ Loose |-> p[n]] /\ p.records = f
  BY DEF IsBuilt, FilesOf
<1>3. "records" \in DOMAIN p.manifest.files /\ p.manifest.files["records"] = p.records
  BY <1>1, <1>2
<1> QED
  BY <1>2, <1>3 DEF RecordsBad

(***************************************************************************)
(* The seconds such a build was made in, and the pins it lists.            *)
(***************************************************************************)
\* Bodies of the time up to a second, and a log of them.
Dated(t) == {b \in Content : b.ts \in {Null} \cup 0..t}

\* No row of such a log is younger.
LEMMA NewestIsDated ==
  ASSUME NEW t \in Nat, NEW f \in LogsOver(Dated(t))
  PROVE  NewestTs(f) \in 0..t
<1> DEFINE times == {BodiesOf(f)[k].ts : k \in DOMAIN BodiesOf(f)} \ {Null}
<1>1. BodiesOf(f) \in Seq(Dated(t))
  BY BodiesAreOver
<1>2. ASSUME NEW k \in DOMAIN BodiesOf(f), BodiesOf(f)[k].ts # Null
      PROVE  BodiesOf(f)[k].ts \in 0..t
  <2>1. BodiesOf(f)[k] \in Dated(t)
    BY <1>1
  <2> QED
    BY <1>2, <2>1 DEF Dated
<1>3. times \in SUBSET (0..t)
  BY <1>2
<1>4. NewestTs(f) = IF times = {} THEN 0 ELSE Max(times)
  BY DEF NewestTs
<1> HIDE DEF times
<1>5. times # {} => Max(times) \in times
  BY <1>3, MaxIs
<1>6. CASE times = {}
  BY <1>4, <1>6
<1>7. CASE times # {}
  BY <1>3, <1>4, <1>5, <1>7
<1> QED
  BY <1>6, <1>7

\* The witness did not say that the log is another one.
AgreedBlock(block, f, P, whole, o) == /\ block = WitnessBlock(f, P, whole, o.ns)
                                      /\ block.verdict \notin {"rewritten", "truncated"}

\* Pins a pack lists: one of the pin file that the log agrees with, or none.
AgreedPins(listed, f, P, o) ==
  \A k \in DOMAIN listed : /\ listed = <<listed[k]>>
                           /\ \E i \in DOMAIN P : /\ listed[k] = P[i] /\ P[i].ns = o.ns
                                                  /\ ~Disagrees(f, P[i])

\* What a pack lists is the pin its export was compared with, and its own files
\* agree on it.
LEMMA ListedPinsHold ==
  ASSUME NullIsNoFile, NEW p, NEW f \in LogFiles, NEW P \in Seq(PinsOfLogs), NEW whole, NEW o,
         NEW now, NEW block, AgreedBlock(block, f, P, whole, o), IsBuilt(p, f, block, o, now)
  PROVE  /\ ~InPackPins(p) /\ ~HeadShort(p.manifest)
         /\ AgreedPins(p.manifest.pins, f, P, o)
<1> DEFINE m == p.manifest
           listed == PinsOf(block)
<1>1. /\ p.records = f /\ m.pins = listed /\ p.integrity = Integrity(f, block)
      /\ m.head = [chain |-> LastChain(f), rows |-> RowCount(f)]
      /\ p.witness = IF o.ns = Null THEN Null ELSE block
  BY DEF IsBuilt, FilesOf, FieldsOf
<1>2. p.integrity.witness = block /\ p.integrity.rows = RowCount(f)
  BY <1>1 DEF Integrity
<1>3. RowCount(f) \in Nat
  BY BodiesOfIs
<1>4. ASSUME NEW k \in DOMAIN listed
      PROVE  /\ listed = <<listed[k]>>
             /\ \E i \in DOMAIN P : /\ listed[k] = P[i] /\ P[i].ns = o.ns
                                    /\ ~Disagrees(f, P[i])
  BY PinsAreAgreed DEF AgreedBlock
<1> HIDE DEF listed
<1>5. ASSUME NEW k \in DOMAIN listed
      PROVE  /\ listed[k].rows <= RowCount(f) /\ ChainAt(f, listed[k].rows) = listed[k].chain
             /\ listed[k].rows = RowCount(f) => listed[k].chain = LastChain(f)
             /\ listed[k].rows \in Nat
  <2>1. PICK i \in DOMAIN P : listed[k] = P[i] /\ ~Disagrees(f, P[i])
    BY <1>4
  <2>2. P[i] \in PinsOfLogs
    OBVIOUS
  <2> DEFINE mark == P[i]
  <2> HIDE DEF mark
  <2>3. mark \in PinsOfLogs /\ ~Disagrees(f, mark) /\ listed[k] = mark
    BY <2>1, <2>2 DEF mark
  <2>4. mark.rows \in Nat
    BY <2>3 DEF PinsOfLogs
  <2>5. mark.rows <= RowCount(f) /\ ChainAt(f, mark.rows) = mark.chain
    BY <1>3, <2>3, <2>4 DEF Disagrees
  <2>6. mark.rows = RowCount(f) => mark.chain = LastChain(f)
    BY <2>3, AgreedAtHead
  <2> QED
    BY <2>3, <2>4, <2>5, <2>6
<1>6. {m.pins[k] : k \in DOMAIN m.pins} = Range(PinsOf(block))
  BY <1>1 DEF Range, listed
<1>7. ~InPackPins(p)
  <2> HIDE DEF m
  <2>1. m.head.rows = RowCount(f)
    BY <1>1
  <2>2. \A k \in DOMAIN m.pins : ChainAt(p.records, m.pins[k].rows) = m.pins[k].chain
    BY <1>1, <1>5
  <2>3. p.witness # Null => p.witness = block
    BY <1>1
  <2> QED
    BY <1>2, <1>6, <2>1, <2>2, <2>3 DEF InPackPins, m
<1>8. ~HeadShort(m)
  <2> HIDE DEF m
  <2>1. m.head.rows = RowCount(f) /\ m.head.chain = LastChain(f)
    BY <1>1
  <2>2. \A k \in DOMAIN m.pins : /\ ~(RowCount(f) < m.pins[k].rows)
                                 /\ RowCount(f) = m.pins[k].rows => m.pins[k].chain = LastChain(f)
    BY <1>1, <1>3, <1>5
  <2> QED
    BY <2>1, <2>2 DEF HeadShort
<1> QED
  BY <1>1, <1>4, <1>7, <1>8 DEF AgreedPins

\* What an untouched pack derives again is what it says.
LEMMA RederivedHolds ==
  ASSUME NullIsNoFile, NEW p, NEW f \in LogFiles, NEW P \in Seq(PinsOfLogs), NEW whole, NEW o,
         NEW now \in Nat, f \in LogsOver(Dated(now)), \A i \in DOMAIN P : P[i].at <= now,
         NEW block, AgreedBlock(block, f, P, whole, o), IsBuilt(p, f, block, o, now),
         Ok(f, FALSE) # "False"
  PROVE  StepRederived(p) = V
<1> DEFINE m == p.manifest
<1>1. /\ p.records = f /\ p.integrity = Integrity(f, block)
      /\ m.independence = Independence(block.kind) /\ m.operator = "UNKNOWN" /\ m.built = now
      /\ p.witness = IF o.ns = Null THEN Null ELSE block
  BY DEF IsBuilt, FilesOf, FieldsOf
<1>2. p.integrity.witness = block
  BY <1>1 DEF Integrity
<1>3. ~Lacks(p, {"records", "integrity"})
  BY BuiltHas DEF Lacks
<1>4. block.independence = Independence(block.kind) /\ block.ns = o.ns
      /\ (o.ns = Null => block = NoWitness)
  BY BlockSays DEF AgreedBlock
<1>5. p.witness # Null => p.witness = block
  BY <1>1
<1>6. ~(m.built < NewestTs(p.records))
  BY <1>1, NewestIsDated
<1>7. ~HeadShort(m) /\ \A k \in DOMAIN m.pins : ~(m.built < m.pins[k].at)
  <2>1. ~HeadShort(m) /\ AgreedPins(m.pins, f, P, o)
    BY ListedPinsHold
  <2>2. \A i \in DOMAIN P : P[i].at \in Nat
    <3>1. \A i \in DOMAIN P : P[i] \in PinsOfLogs
      OBVIOUS
    <3> QED
      BY <3>1 DEF PinsOfLogs
  <2> HIDE DEF m
  <2>3. \A k \in DOMAIN m.pins : \E i \in DOMAIN P : m.pins[k] = P[i]
    BY <2>1 DEF AgreedPins
  <2> QED
    BY <1>1, <2>1, <2>2, <2>3
<1>8. ~Drift(p) /\ ~RecordsBad(p)
  BY <1>4, NothingDrifts, RecordsAreWhole
<1> HIDE DEF m
<1> QED
  BY <1>1, <1>2, <1>3, <1>4, <1>5, <1>6, <1>7, <1>8 DEF StepRederived, m

\* Without the pin file the pins a pack lists are looked at by nobody.
LEMMA PinsUnseen ==
  ASSUME NullIsNoFile, NEW p, NEW f \in LogFiles, NEW P \in Seq(PinsOfLogs), NEW whole, NEW o,
         NEW now, NEW block, AgreedBlock(block, f, P, whole, o), IsBuilt(p, f, block, o, now)
  PROVE  StepPins(p, FALSE, Null) = IF p.manifest.pins = <<>> THEN V ELSE C
<1> DEFINE listed == p.manifest.pins
           words == {CheckLocal(f, listed[k], FALSE, Null) : k \in DOMAIN listed}
<1>0. ~InPackPins(p)
  BY ListedPinsHold
<1>1. ~InPackPins(p) /\ p.records = f
  BY <1>0 DEF IsBuilt, FilesOf
<1>2. ~Lacks(p, {"integrity"}) /\ p.records # Null
  BY BuiltHas DEF Lacks, Present
<1>3. StepPins(p, FALSE, Null) = IF listed = <<>> THEN V ELSE Worst(words)
  BY <1>1, <1>2 DEF StepPins
<1>4. \A k \in DOMAIN listed : CheckLocal(f, listed[k], FALSE, Null) = C
  BY DEF CheckLocal
<1>5. listed # <<>> => words = {C}
  <2>1. listed = PinsOf(block)
    BY DEF IsBuilt, FieldsOf
  <2>2. listed # <<>> => 1 \in DOMAIN listed
    BY <2>1 DEF PinsOf
  <2> HIDE DEF listed
  <2> QED
    BY <1>4, <2>2
<1>6. Worst({C}) = C
  BY DEF Worst, V, B, C
<1> HIDE DEF listed, words
<1> QED
  BY <1>3, <1>5, <1>6 DEF listed

\* A folder as the build left it, of a log and pins no younger than it.
Untouched(p, f, P, whole, o, now) ==
  /\ f \in LogFiles /\ P \in Seq(PinsOfLogs) /\ now \in Nat
  /\ f \in LogsOver(Dated(now)) /\ \A i \in DOMAIN P : P[i].at <= now
  /\ IsBuilt(p, f, WitnessBlock(f, P, whole, o.ns), o, now)

\* What the steps but the one of the pins say of it when its records are whole.
LEMMA OtherStepsSay ==
  ASSUME NullIsNoFile, NEW p, NEW f, NEW P, NEW whole, NEW o, NEW now,
         Untouched(p, f, P, whole, o, now), Ok(f, FALSE) # "False",
         NEW block, AgreedBlock(block, f, P, whole, o)
  PROVE  OtherSteps(p) = {V} \cup (IF p.cnl # <<>> THEN {C} ELSE {})
<1> DEFINE t == Integrity(f, block)
<1>1. /\ f \in LogFiles /\ P \in Seq(PinsOfLogs) /\ now \in Nat
      /\ f \in LogsOver(Dated(now)) /\ \A i \in DOMAIN P : P[i].at <= now
      /\ IsBuilt(p, f, block, o, now)
  BY DEF Untouched, AgreedBlock
<1>2. /\ StepHashes(p) = V /\ StepManifestHash(p) = V /\ StepWindow(p) = V
      /\ StepAat(p) = V /\ StepMandate(p) = V /\ StepBearer(p) = V
  BY <1>1, HashesHold, ManifestHashHolds, WindowHolds, AatHolds, MandateHolds, BearersHold
<1>3. StepRederived(p) = V
  BY <1>1, RederivedHolds
<1>4. block.verdict \in Verdicts \cup {Null} /\ block.verdict \notin {"rewritten", "truncated"}
  BY <1>1, BlockSays DEF AgreedBlock
<1>5. t.verdict = WordOf(Finding(f, block.verdict))
  BY DEF Integrity
<1>6. Ok(f, FALSE) \in {"True", "None"}
  BY DEF Ok
<1>7. t.verdict # B /\ (Ok(f, FALSE) = "None" => t.verdict = C)
  <2>1. C # B
    BY DEF B, C
  <2> DEFINE verdict == block.verdict
  <2> HIDE DEF t, verdict
  <2>2. verdict \in Verdicts \cup {Null} /\ verdict \notin {"rewritten", "truncated"}
    BY <1>4 DEF verdict
  <2>3. /\ Ok(f, FALSE) = "None" => WordOf(Finding(f, verdict)) = C
        /\ Ok(f, FALSE) = "True" => WordOf(Finding(f, verdict)) # B
    BY <2>2, WordOfExport
  <2> QED
    BY <1>5, <1>6, <2>1, <2>3 DEF verdict
<1>8. StepBuild(p) = IF p.cnl # <<>> THEN C ELSE V
  BY <1>1, <1>7, BuildSays
<1>9. StepChain(p) = IF Ok(f, FALSE) = "None" THEN C ELSE V
  BY <1>1, <1>6, ChainSays
<1>10. Ok(f, FALSE) = "None" => p.cnl # <<>>
  <2> DEFINE checks == ChecksOf(f, block, o)
  <2>1. Ok(f, FALSE) = "None" => Saying(checks, C) # {}
    BY <1>7, BuildWordIs
  <2>2. Listed(checks)
    BY ChecksSay
  <2>3. p.cnl = Missed(checks)
    BY <1>1 DEF IsBuilt, FilesOf
  <2> HIDE DEF checks
  <2> QED
    BY <2>1, <2>2, <2>3, MissedIs
<1>11. OtherSteps(p) = {V, StepChain(p), StepBuild(p)}
  BY <1>2, <1>3 DEF OtherSteps
<1> QED
  BY <1>8, <1>9, <1>10, <1>11

\* What verify says of it without the pin file.
LEMMA UntouchedSays ==
  ASSUME NullIsNoFile, NEW p, NEW f, NEW P, NEW whole, NEW o, NEW now,
         Untouched(p, f, P, whole, o, now)
  PROVE  Verify(p, FALSE, Null) =
           IF Ok(p.records, FALSE) = "False" THEN B
           ELSE Worst({p.manifest.verdict}
                      \cup (IF p.cnl # <<>> \/ p.manifest.pins # <<>> THEN {C} ELSE {}))
<1> DEFINE block == WitnessBlock(f, P, whole, o.ns)
           t == Integrity(f, block)
           m == p.manifest
           unseen == IF p.cnl # <<>> \/ m.pins # <<>> THEN {C} ELSE {}
           checks == ChecksOf(f, block, o)
           said == OtherSteps(p) \cup {StepPins(p, FALSE, Null)}
<1>1. f \in LogFiles /\ P \in Seq(PinsOfLogs) /\ IsBuilt(p, f, block, o, now)
  BY DEF Untouched
<1>2. p.records = f /\ m # Null /\ m.verdict = WordOfBuild(f, block, o) /\ p.cnl = Missed(checks)
  BY <1>1 DEF IsBuilt, FilesOf, FieldsOf
<1>3. /\ m.verdict \in {V, B, C} /\ (m.verdict = B <=> t.verdict = B)
      /\ m.verdict = C => Saying(checks, C) # {}
  <2>1. LET word == WordOfBuild(f, block, o)
        IN  /\ word \in {V, B, C} /\ (word = B <=> t.verdict = B)
            /\ word = C => Saying(checks, C) # {}
    BY BuildWordIs
  <2> QED
    BY <1>2, <2>1
<1>4. Saying(checks, C) # {} => p.cnl # <<>>
  <2>1. Listed(checks)
    BY ChecksSay
  <2> HIDE DEF checks
  <2> QED
    BY <1>2, <2>1, MissedIs
<1>5. Verify(p, FALSE, Null) = Worst(said)
  BY <1>2 DEF Verify
<1>6. \A words : B \in words => Worst(words) = B
  BY DEF Worst
<1> HIDE DEF checks, m, said
<1>7. CASE Ok(f, FALSE) = "False"
  <2>1. StepChain(p) = B
    BY <1>1, <1>7, ChainSays
  <2>2. B \in said
    BY <2>1 DEF OtherSteps, said
  <2> QED
    BY <1>2, <1>5, <1>6, <1>7, <2>2
<1>8. CASE Ok(f, FALSE) # "False" /\ t.verdict = B
  <2>1. StepBuild(p) = B
    BY <1>1, <1>8, BuildSays
  <2>2. B \in said
    BY <2>1 DEF OtherSteps, said
  <2>3. B \in {m.verdict} \cup unseen
    BY <1>3, <1>8
  <2> HIDE DEF unseen
  <2> QED
    BY <1>2, <1>5, <1>6, <1>8, <2>2, <2>3 DEF unseen, m
<1>9. CASE Ok(f, FALSE) # "False" /\ t.verdict # B
  <2>1. AgreedBlock(block, f, P, whole, o)
    <3>1. block.verdict \in Verdicts \cup {Null}
      BY <1>1, BlockSays
    <3>2. t.verdict = WordOf(Finding(f, block.verdict))
      BY DEF Integrity
    <3> HIDE DEF block, t
    <3>3. block.verdict \notin {"rewritten", "truncated"}
      BY <1>9, <3>1, <3>2, WordOfExport
    <3> QED
      BY <3>3 DEF AgreedBlock, block
  <2>2. OtherSteps(p) = {V} \cup (IF p.cnl # <<>> THEN {C} ELSE {})
    BY <1>9, <2>1, OtherStepsSay
  <2>3. StepPins(p, FALSE, Null) = IF m.pins = <<>> THEN V ELSE C
    BY <1>1, <2>1, PinsUnseen DEF m
  <2>4. said = {V} \cup unseen
    BY <2>2, <2>3 DEF said
  <2>5. m.verdict \in {V, C} /\ (m.verdict = C => unseen = {C})
    BY <1>3, <1>4, <1>9
  <2>6. V # B /\ C # B /\ V # C
    BY DEF V, B, C
  <2>7. unseen = {C} \/ unseen = {}
    OBVIOUS
  <2> HIDE DEF unseen
  <2>8. Worst({V} \cup unseen) = Worst({m.verdict} \cup unseen)
    BY <2>5, <2>6, <2>7 DEF Worst
  <2> QED
    BY <1>2, <1>5, <1>9, <2>4, <2>8 DEF unseen, m
<1> QED
  BY <1>7, <1>8, <1>9

(***************************************************************************)
(* The invariant: rows and pins carry no time to come, and the folder is   *)
(* as the build left it until somebody changes it.                         *)
(***************************************************************************)
UntouchedInv == /\ edits \in Nat /\ intact \in BOOLEAN
                /\ log \in LogsOver(Dated(clock))
                /\ \A i \in DOMAIN pins : pins[i].at <= clock
                /\ pack # Null /\ edits = 0 =>
                     \E f, P, whole, o, now : Untouched(pack, f, P, whole, o, now)

\* What may be written at a second is dated.
LEMMA BodiesDated ==
  ASSUME subject \in Subjects, clock \in 0..MaxTime
  PROVE  subject.bodies[clock] \in SUBSET Dated(clock)
<1>1. subject.bodies[clock] \in SUBSET Content
  BY BodiesAreContent
<1>2. \A b \in subject.bodies[clock] : b.ts \in {Null} \cup 0..clock
  BY BodiesAreDated
<1> QED
  BY <1>1, <1>2 DEF Dated

\* A folder nobody edited is what build_pack wrote of the log and the pins of that day.
LEMMA UntouchedInvHolds ==
  ASSUME NullIsNoFile
  PROVE  PackSpec => []UntouchedInv
<1>1. PackInit => UntouchedInv
  <2> SUFFICES ASSUME PackInit
               PROVE  UntouchedInv
    OBVIOUS
  <2>1. <<>> \in LogsOver(Dated(clock))
    BY DEF LogsOver
  <2> QED
    BY <2>1 DEF PackInit, UntouchedInv
<1>2. PackInv /\ UntouchedInv /\ [PackNext]_packVars => UntouchedInv'
  <2> SUFFICES ASSUME PackInv, UntouchedInv, [PackNext]_packVars
               PROVE  UntouchedInv'
    OBVIOUS
  <2> USE DEF UntouchedInv
  <2>0. /\ clock \in 0..MaxTime /\ MaxTime \in Nat /\ clock \in Nat
        /\ subject.bodies[clock] \in SUBSET Dated(clock)
        /\ pins \in Seq(PinsOfLogs) /\ log \in LogFiles
    BY BodiesAreContent, BodiesDated DEF PackInv
  <2>1. ASSUME NEW b \in subject.bodies[clock], Write(b)
        PROVE  UntouchedInv'
    <3>1. log' \in LogsOver(Dated(clock))
      BY <2>0, <2>1, PutIsOver DEF Write
    <3> QED
      BY <2>1, <3>1 DEF Write
  <2>2. ASSUME NEW ns \in {Own, Alt}, Publish(ns)
        PROVE  UntouchedInv'
    <3> DEFINE mark == [ns |-> ns, rows |-> RowCount(log), chain |-> LastChain(log), at |-> clock]
    <3>1. pins' = Append(pins, mark) /\ mark.at <= clock
      BY <2>0, <2>2 DEF Publish
    <3> HIDE DEF mark
    <3>2. \A i \in DOMAIN pins' : pins'[i].at <= clock
      BY <2>0, <3>1
    <3> QED
      BY <2>2, <3>2 DEF Publish
  <2>3. ASSUME NEW o \in subject.options, Build(o)
        PROVE  UntouchedInv'
    <3>1. /\ pack' = Built(log, pins, intact, o, clock)
          /\ UNCHANGED <<subject, log, pins, intact, clock, rewrites, edits>>
      BY <2>3 DEF Build
    <3>2. IsBuilt(pack', log, WitnessBlock(log, pins, intact, o.ns), o, clock)
      BY <3>1, BuiltIsBuilt
    <3>3. Untouched(pack', log, pins, intact, o, clock)
      BY <2>0, <3>2 DEF Untouched
    <3> QED
      BY <3>1, <3>3
  <2>4. ASSUME Tick
        PROVE  UntouchedInv'
    <3>1. /\ clock' = clock + 1
          /\ UNCHANGED <<subject, log, pins, intact, pack, rewrites, edits>>
      BY <2>4 DEF Tick
    <3>2. Dated(clock) \subseteq Dated(clock')
      BY <2>0, <3>1 DEF Dated
    <3>3. log' \in LogsOver(Dated(clock'))
      BY <3>1, <3>2, LogsOverMore
    <3>4. \A i \in DOMAIN pins : pins[i].at <= clock'
      <4>1. \A i \in DOMAIN pins : pins[i] \in PinsOfLogs
        BY <2>0
      <4> QED
        BY <2>0, <3>1, <4>1 DEF PinsOfLogs
    <3> QED
      BY <3>1, <3>3, <3>4
  <2>5. ASSUME Rewrite
        PROVE  UntouchedInv'
    <3>1. log' \in LogsOver(Dated(clock))
      BY <2>0, <2>5, RewrittenIsOver DEF Rewrite
    <3> QED
      BY <2>5, <3>1 DEF Rewrite
  <2>6. ASSUME BreakPinFile
        PROVE  UntouchedInv'
    BY <2>6 DEF BreakPinFile
  <2>7. ASSUME Edit \/ Lose
        PROVE  UntouchedInv'
    <3>1. /\ edits' = edits + 1
          /\ UNCHANGED <<subject, log, pins, intact, clock, rewrites>>
      BY <2>7 DEF Edit, Lose, Touched
    <3> QED
      BY <3>1
  <2>8. CASE UNCHANGED packVars
    BY <2>8 DEF packVars
  <2> QED
    BY <2>1, <2>2, <2>3, <2>4, <2>5, <2>6, <2>7, <2>8 DEF PackNext
<1> QED
  BY <1>1, <1>2, PackInvHolds, PTL DEF PackSpec

(* An untouched pack is read back as the build called it (UntouchedAgrees): *)
(* whatever the log, its pins, the options and the seconds.                 *)
THEOREM UntouchedIsAgreed ==
  ASSUME NullIsNoFile
  PROVE  PackSpec => []UntouchedAgrees
<1>1. UntouchedInv => UntouchedAgrees
  <2> SUFFICES ASSUME UntouchedInv, pack # Null, edits = 0
               PROVE  UntouchedAgrees
    BY DEF UntouchedAgrees, NotBuilt
  <2>1. PICK f, P, whole, o, now : Untouched(pack, f, P, whole, o, now)
    BY DEF UntouchedInv
  <2> QED
    BY <2>1, UntouchedSays DEF UntouchedAgrees
<1> QED
  BY <1>1, UntouchedInvHolds, PTL

(***************************************************************************)
(* A log that only this program wrote, and as it goes on.                  *)
(***************************************************************************)
Green(f) == f \in LogFiles /\ Clean(f) /\ Linked(f) /\ EndsInNewline(f)

\* Two sequences of the same length that agree everywhere.
LEMMA SameSeq ==
  ASSUME NEW S, NEW s \in Seq(S), NEW T, NEW t \in Seq(T), Len(s) = Len(t),
         \A k \in 1..Len(s) : s[k] = t[k]
  PROVE  s = t
OBVIOUS

\* What the next row chains from spells the rows of such a log.
LEMMA GreenSpells ==
  ASSUME NEW f, Green(f)
  PROVE  BodiesOf(f) = LastChain(f)
<1>1. Len(f) \in Nat /\ f \in LogFiles /\ Clean(f) /\ Linked(f)
  BY DEF Green, LogFiles
<1>2. BodiesOf(f) \in Seq(Content) /\ Len(BodiesOf(f)) = RowCount(f) /\ RowCount(f) \in Nat
  BY <1>1, BodiesOfIs
<1>3. RowCount(f) = RowNumber(f, Len(f))
  BY <1>1, CountIsLastNumber
<1> DEFINE t == TailChain(f, Len(f))
<1>4. /\ t \in Seq({Body(f, k) : k \in 1..Len(f)}) /\ Len(t) = RowCount(f)
      /\ \A k \in 1..Len(f) : IsRow(f, k) => t[RowNumber(f, k)] = Body(f, k)
  <2>1. Len(f) \in 0..Len(f)
    BY <1>1
  <2> QED
    BY <1>1, <1>3, <2>1, ChainSpells
<1>5. ASSUME NEW k \in 1..RowCount(f)
      PROVE  BodiesOf(f)[k] = t[k]
  <2>1. k \in 1..RowNumber(f, Len(f))
    BY <1>3
  <2>2. PICK j \in 1..Len(f) : IsRow(f, j) /\ RowNumber(f, j) = k
    BY <1>1, <2>1, RowNumbersAreUsed
  <2>3. t[k] = Body(f, j)
    BY <1>4, <2>2
  <2>4. BodyOf(f, k) = Body(f, j)
    BY <1>1, <2>2, BodyOfIs
  <2>5. BodiesOf(f)[k] = BodyOf(f, k)
    BY <1>2 DEF BodiesOf
  <2> QED
    BY <2>3, <2>4, <2>5
<1> HIDE DEF t
<1>6. BodiesOf(f) = t
  <2> DEFINE s == BodiesOf(f)
             U == {Body(f, k) : k \in 1..Len(f)}
  <2> HIDE DEF s, U
  <2>1. s \in Seq(Content) /\ t \in Seq(U) /\ Len(s) = Len(t)
    BY <1>2, <1>4 DEF s, U
  <2>2. \A k \in 1..Len(s) : s[k] = t[k]
    BY <1>2, <1>5 DEF s
  <2>3. s = t
    BY <2>1, <2>2, SameSeq
  <2> QED
    BY <2>3 DEF s
<1> QED
  BY <1>6 DEF t, LastChain

\* A row written at the end of a file with no line open.
LEMMA WriteIsClean ==
  ASSUME NEW P, NEW f \in Seq(Seq(P)), Clean(f), EndsInNewline(f),
         NEW p \in P, p.kind = "link", NEW g, g = Put(f, FALSE, <<p>>, TRUE)
  PROVE  /\ Clean(g) /\ EndsInNewline(g) /\ g # <<>>
         /\ LastChain(g) = p.chain
         /\ Linked(f) /\ p.chain = Hash(LastChain(f), p.body) => Linked(g)
<1>1. PICK m : Landed(f, g, p, m)
  BY PutLands
<1>2. /\ m \in Nat /\ m # 0 /\ Len(g) = m + 1 /\ g[m+1] = <<>>
      /\ Len(f) \in {m-1, m} /\ \A k \in 1..m-1 : g[k] = f[k]
  BY <1>1 DEF Landed
<1>3. g[m] = <<p>>
  <2>1. Len(f) = m => f[m] = <<>>
    BY <1>2 DEF EndsInNewline
  <2> QED
    BY <1>1, <2>1 DEF Landed
<1>4. Kind(g[m]) = "link" /\ Kind(g[m+1]) = "blank"
  <2>1. Kind(<<>>) = "blank"
    BY DEF Kind
  <2>2. <<p>> # <<>> /\ Len(<<p>>) = 1 /\ <<p>>[1] = p
    OBVIOUS
  <2>3. Kind(<<p>>) = "link"
    BY <2>2, Zenon DEF Kind
  <2> QED
    BY <1>2, <1>3, <2>1, <2>3
<1>5. ASSUME NEW k \in 1..m-1
      PROVE  Kind(g[k]) \in {"blank", "link"}
  <2>1. k \in 1..Len(f)
    BY <1>2
  <2> QED
    BY <1>2, <2>1 DEF Clean
<1>6. Clean(g)
  <2>1. \A k \in 1..m+1 : k \in 1..m-1 \/ k = m \/ k = m+1
    BY <1>2
  <2>2. \A k \in 1..m+1 : Kind(g[k]) \in {"blank", "link"}
    BY <1>4, <1>5, <2>1
  <2> QED
    BY <1>2, <2>2 DEF Clean
<1>7. g # <<>> /\ EndsInNewline(g)
  <2>1. m + 1 # 0
    BY <1>2
  <2>2. Len(g) # 0 /\ g[Len(g)] = <<>>
    BY <1>2, <2>1, Zenon
  <2> QED
    BY <2>2 DEF EndsInNewline
<1>8. IsRow(g, m) /\ ~IsRow(g, m+1) /\ Claimed(g, m) = p.chain /\ Body(g, m) = p.body
  <2>1. g[m][1] = p
    <3>1. <<p>>[1] = p
      OBVIOUS
    <3> QED
      BY <1>3, <3>1, Zenon
  <2>2. IsRow(g, m) /\ ~IsRow(g, m+1)
    BY <1>4 DEF IsRow, RowKinds
  <2> QED
    BY <2>1, <2>2, Zenon DEF Claimed, Body
<1>9. LastChain(g) = p.chain
  <2>1. TailChain(g, m+1) = TailChain(g, m)
    <3>1. m + 1 \in Nat \ {0} /\ (m + 1) - 1 = m
      BY <1>2
    <3> QED
      BY <1>8, <3>1, TailChainSkips
  <2>2. TailChain(g, m) = p.chain
    BY <1>2, <1>8, TailChainTakes
  <2> QED
    BY <1>2, <2>1, <2>2 DEF LastChain
<1>10. TailChain(f, m-1) = LastChain(f)
  <2>1. CASE Len(f) = m-1
    BY <2>1 DEF LastChain
  <2>2. CASE Len(f) = m
    <3>1. f[m] = <<>>
      BY <1>2, <2>2 DEF EndsInNewline
    <3>2. ~IsRow(f, m)
      BY <3>1 DEF IsRow, RowKinds, Kind
    <3> QED
      BY <1>2, <2>2, <3>2, TailChainSkips DEF LastChain
  <2> QED
    BY <1>2, <2>1, <2>2
<1>11. \A k \in 1..m : TailChain(g, k-1) = TailChain(f, k-1)
  <2> TAKE k \in 1..m
  <2>1. k-1 \in Nat /\ \A j \in 1..k-1 : j \in 1..m-1
    BY <1>2
  <2>2. \A j \in 1..k-1 : g[j] = f[j]
    BY <1>2, <2>1, Zenon
  <2> QED
    BY <2>1, <2>2, TailChainIsLocal
<1>12. ASSUME Linked(f), p.chain = Hash(LastChain(f), p.body)
       PROVE  Linked(g)
  <2>1. ASSUME NEW k \in 1..m-1, Kind(g[k]) = "link"
        PROVE  Claimed(g, k) = Hash(TailChain(g, k-1), Body(g, k))
    <3>1. k \in 1..Len(f) /\ k \in 1..m
      BY <1>2
    <3>2. g[k] = f[k] /\ TailChain(g, k-1) = TailChain(f, k-1)
      BY <1>2, <1>11, <3>1, Zenon
    <3>3. Claimed(f, k) = Hash(TailChain(f, k-1), Body(f, k))
      BY <1>12, <2>1, <3>1, <3>2 DEF Linked
    <3> QED
      BY <3>2, <3>3 DEF Claimed, Body
  <2>2. Claimed(g, m) = Hash(TailChain(g, m-1), Body(g, m))
    <3>1. m \in 1..m
      BY <1>2
    <3>2. TailChain(g, m-1) = LastChain(f)
      BY <1>10, <1>11, <3>1
    <3> QED
      BY <1>8, <1>12, <3>2
  <2>3. Kind(g[m+1]) # "link"
    BY <1>4
  <2>4. \A k \in 1..m+1 : k \in 1..m-1 \/ k = m \/ k = m+1
    BY <1>2
  <2> QED
    BY <1>2, <2>1, <2>2, <2>3, <2>4, Zenon DEF Linked
<1> QED
  BY <1>6, <1>7, <1>9, <1>12

\* A row written at its end is one row and one body more.
LEMMA WriteIsGreen ==
  ASSUME NEW f, Green(f), NEW b \in Content,
         NEW g, g = Put(f, FALSE, <<Row(b, LastChain(f))>>, TRUE)
  PROVE  /\ Green(g) /\ g # <<>>
         /\ BodiesOf(g) = Append(BodiesOf(f), b) /\ RowCount(g) = RowCount(f) + 1
<1> DEFINE P == LogPieces
           row == Row(b, LastChain(f))
<1>1. f \in Seq(Seq(P)) /\ f \in LogFiles /\ Clean(f) /\ Linked(f) /\ EndsInNewline(f)
      /\ Len(f) \in Nat
  BY DEF Green, LogFiles
<1>2. LastChain(f) \in LogChains
  BY <1>1, LastChainIsChain
<1>3. row \in P
  <2>1. Append(LastChain(f), b) \in LogChains
    BY <1>2 DEF LogChains
  <2>2. row = [kind |-> "link", body |-> b, chain |-> Append(LastChain(f), b)]
    BY DEF Row, Hash
  <2> HIDE DEF row
  <2> QED
    BY <2>1, <2>2 DEF LogPieces, PiecesOver, PieceKinds, RowKinds
<1>4. row.kind = "link"
  BY DEF Row
<1>5. g = Put(f, FALSE, <<row>>, TRUE) /\ row = Row(b, LastChain(f))
  OBVIOUS
<1> HIDE DEF P, row
<1>6. row.chain = Hash(LastChain(f), row.body) /\ row.chain = Append(LastChain(f), b)
  BY <1>5 DEF Row, Hash
<1>7. /\ Clean(g) /\ EndsInNewline(g) /\ g # <<>>
      /\ LastChain(g) = Append(LastChain(f), b) /\ Linked(g)
  BY <1>1, <1>3, <1>4, <1>5, <1>6, WriteIsClean
<1>8. g \in LogFiles
  BY <1>1, PutIsLog
<1>9. Green(g)
  BY <1>7, <1>8 DEF Green
<1>10. BodiesOf(g) = Append(BodiesOf(f), b)
  BY <1>7, <1>9, GreenSpells
<1>11. RowCount(g) = RowCount(f) + 1
  <2>1. /\ BodiesOf(f) \in Seq(Content) /\ Len(BodiesOf(f)) = RowCount(f)
        /\ Len(BodiesOf(g)) = RowCount(g)
    BY <1>1, <1>8, BodiesOfIs
  <2> DEFINE s == BodiesOf(f)
  <2> HIDE DEF s
  <2>2. Len(Append(s, b)) = Len(s) + 1
    BY <2>1 DEF s
  <2> QED
    BY <1>10, <2>1, <2>2 DEF s
<1> QED
  BY <1>7, <1>9, <1>10, <1>11

\* Such a log with rows is green.
LEMMA GreenIsOk ==
  ASSUME NEW f, Green(f), RowCount(f) > 0
  PROVE  Ok(f, FALSE) = "True"
<1>1. Len(f) \in Nat /\ Clean(f) /\ Linked(f)
  BY DEF Green, LogFiles
<1> QED
  BY <1>1, CleanIsGreenByDefault

\* The beginning of a beginning.
LEMMA Beginnings ==
  ASSUME NEW S, NEW s \in Seq(S), NEW m \in 0..Len(s), NEW n \in 0..m
  PROVE  /\ SubSeq(s, 1, m) \in Seq(S) /\ Len(SubSeq(s, 1, m)) = m
         /\ SubSeq(SubSeq(s, 1, m), 1, n) = SubSeq(s, 1, n)
OBVIOUS

\* What is written at the end of a sequence leaves its beginnings.
LEMMA BeginsBefore ==
  ASSUME NEW S, NEW s \in Seq(S), NEW b \in S, NEW n \in 0..Len(s)
  PROVE  SubSeq(Append(s, b), 1, n) = SubSeq(s, 1, n)
OBVIOUS

\* The whole of a sequence.
LEMMA BeginsWhole ==
  ASSUME NEW S, NEW s \in Seq(S)
  PROVE  SubSeq(s, 1, Len(s)) = s
OBVIOUS

(***************************************************************************)
(* What an honest run keeps: a log of rows that spell their chain, pins of *)
(* its beginnings, in their order, and a pack of such a beginning.         *)
(***************************************************************************)
Begins(f, g) == /\ RowCount(f) <= RowCount(g)
                /\ BodiesOf(f) = SubSeq(BodiesOf(g), 1, RowCount(f))

Pins(p, f) == /\ p.rows \in 1..RowCount(f)
              /\ p.chain = SubSeq(BodiesOf(f), 1, p.rows)

Ordered(P) == \A i, j \in DOMAIN P : i < j => P[i].rows <= P[j].rows

\* The pack p at time t, beside the log g and the pins Q, is as it was built at
\* the second now, of their beginnings f and P.
AsBuilt(p, g, Q, t, f, P, o, now) ==
  /\ Untouched(p, f, P, TRUE, o, now) /\ now <= t
  /\ Green(f) /\ RowCount(f) > 0 /\ Begins(f, g)
  /\ Len(P) <= Len(Q)
  /\ \A i \in DOMAIN P : Q[i] = P[i] /\ P[i].rows <= RowCount(f)
  /\ \A i \in DOMAIN Q : i > Len(P) => Q[i].at >= now

\* A pin of a log no longer than the beginning a pack holds agrees with it.
LEMMA BeginningAgrees ==
  ASSUME NEW f, Green(f), NEW g, Green(g), Begins(f, g), RowCount(f) > 0,
         NEW p, Pins(p, g), p.rows <= RowCount(f)
  PROVE  ~Disagrees(f, p)
<1>1. f \in LogFiles /\ g \in LogFiles
  BY DEF Green
<1>2. /\ BodiesOf(g) \in Seq(Content) /\ Len(BodiesOf(g)) = RowCount(g)
      /\ RowCount(g) \in Nat /\ RowCount(f) \in Nat
  BY <1>1, BodiesOfIs
<1>3. p.rows \in 1..RowCount(f) /\ RowCount(f) \in 0..RowCount(g)
  BY <1>2 DEF Pins, Begins
<1>4. ChainAt(f, p.rows) = SubSeq(BodiesOf(f), 1, p.rows)
  <2>1. p.rows \in 0..RowCount(f)
    BY <1>2, <1>3
  <2> QED
    BY <1>1, <2>1, GreenIsOk, ChainAtSpells
<1>5. SubSeq(BodiesOf(f), 1, p.rows) = SubSeq(BodiesOf(g), 1, p.rows)
  <2> DEFINE s == BodiesOf(g)
             m == RowCount(f)
             n == p.rows
  <2>1. s \in Seq(Content) /\ m \in 0..Len(s) /\ n \in 0..m
    BY <1>2, <1>3
  <2>2. BodiesOf(f) = SubSeq(s, 1, m)
    BY DEF Begins
  <2> HIDE DEF s, m, n
  <2>3. SubSeq(SubSeq(s, 1, m), 1, n) = SubSeq(s, 1, n)
    BY <2>1, Beginnings
  <2> QED
    BY <2>2, <2>3 DEF s, m, n
<1> QED
  BY <1>2, <1>3, <1>4, <1>5 DEF Disagrees, Pins

\* Pins that a file agrees with are no reason to call it cut short or rewritten.
LEMMA AuditAgrees ==
  ASSUME NEW f, Ok(f, FALSE) = "True", NEW P, NEW J, \A i \in J : ~Disagrees(f, P[i]), NEW ns
  PROVE  Audit(f, P, J, TRUE, ns).verdict \in {"consistent", "no_record"}
<1>1. {i \in OfNs(P, J, ns) : Disagrees(f, P[i])} = {}
  BY DEF OfNs
<1> QED
  BY <1>1 DEF Audit

(***************************************************************************)
(* What makes the pin file call a pack broken.                             *)
(***************************************************************************)
\* A pack that lists no pin is called broken only by a pin that the records
\* disagree with, or one past its head that is no younger than the build.
LEMMA UnlistedBroken ==
  ASSUME NEW f, NEW built, NEW ns, intact, Unlisted(f, built, ns) = B,
         \A i \in DOMAIN pins : pins[i].rows > RowCount(f) \/ ~Disagrees(f, pins[i])
  PROVE  \E i \in DOMAIN pins : pins[i].rows > RowCount(f) /\ pins[i].at <= built
<1> DEFINE names == Namespaces(pins)
           mine == IF ns # Null THEN {ns}
                   ELSE {n \in names : \E k \in DOMAIN pins : pins[k].ns = n
                                                              /\ ~Disagrees(f, pins[k])}
           ours == {k \in DOMAIN pins : pins[k].ns \in mine}
           past == {k \in ours : pins[k].rows > RowCount(f)}
<1>1. \/ \E k \in ours \ past : Disagrees(f, pins[k])
      \/ \E k \in past : pins[k].at <= built
  <2> HIDE DEF mine, names
  <2> QED
    BY DEF Unlisted, mine, names, V, B, C
<1> HIDE DEF mine
<1> QED
  BY <1>1

\* A pack that lists a pin of the pin file is called broken only by a pin past
\* its head written before that one, or by an audit of the pins up to its head.
LEMMA ListedBroken ==
  ASSUME NEW f, NEW ns, intact, NEW i \in DOMAIN pins, CheckLocal(f, pins[i], TRUE, ns) = B
  PROVE  \/ \E k, j \in DOMAIN pins : k < j /\ pins[j].rows = pins[i].rows
                                      /\ pins[k].rows > RowCount(f)
         \/ \E n : AuditUpTo(f, n) \in {"truncated", "rewritten", "witness_broken"}
<1> DEFINE mark == pins[i]
           names == Namespaces(pins)
           checked == {mark.ns} \cup ({ns} \ {Null})
           words == {AuditUpTo(f, n) : n \in checked}
<1>1. \E j \in DOMAIN pins : <<pins[j].ns, pins[j].rows, pins[j].chain>>
                             = <<mark.ns, mark.rows, mark.chain>>
  OBVIOUS
<1>2. PinnedBefore(f, mark, checked) \/ words \cap {"truncated", "rewritten", "witness_broken"} # {}
  <2> HIDE DEF words, names, checked, mark
  <2> QED
    BY <1>1 DEF CheckLocal, words, names, checked, V, B, C, mark
<1>3. CASE PinnedBefore(f, mark, checked)
  <2>1. PICK k, j \in DOMAIN pins :
           /\ k < j /\ <<pins[j].ns, pins[j].rows, pins[j].chain>> = <<mark.ns, mark.rows, mark.chain>>
           /\ pins[k].ns \in checked /\ pins[k].rows > RowCount(f)
    <3> HIDE DEF checked, mark
    <3> QED
      BY <1>3 DEF PinnedBefore
  <2> QED
    BY <2>1
<1>4. CASE words \cap {"truncated", "rewritten", "witness_broken"} # {}
  <2> HIDE DEF checked
  <2> QED
    BY <1>4
<1> QED
  BY <1>2, <1>3, <1>4

\* The pin file of an honest log and a pack of its beginning.
LEMMA AsBuiltBroken ==
  ASSUME NullIsNoFile, intact = TRUE, pins \in Seq(PinsOfLogs), Green(log), Ordered(pins),
         \A i \in DOMAIN pins : Pins(pins[i], log),
         NEW f, NEW P, NEW o, NEW now, AsBuilt(pack, log, pins, clock, f, P, o, now),
         NEW ns, Verify(pack, TRUE, ns) = B
  PROVE  /\ pack.manifest.pins = <<>>
         /\ \E i \in DOMAIN pins : /\ pins[i].rows > RowCount(pack.records)
                                   /\ pins[i].at = pack.manifest.built
<1> DEFINE block == WitnessBlock(f, P, TRUE, o.ns)
           listed == pack.manifest.pins
<1>1. /\ Untouched(pack, f, P, TRUE, o, now)
      /\ Green(f) /\ RowCount(f) > 0 /\ Begins(f, log)
      /\ Len(P) <= Len(pins)
      /\ \A i \in DOMAIN P : pins[i] = P[i] /\ P[i].rows <= RowCount(f)
      /\ \A i \in DOMAIN pins : i > Len(P) => pins[i].at >= now
  BY DEF AsBuilt
<1>2. /\ f \in LogFiles /\ P \in Seq(PinsOfLogs) /\ now \in Nat
      /\ IsBuilt(pack, f, block, o, now) /\ RowCount(f) \in Nat /\ Ok(f, FALSE) = "True"
  BY <1>1, GreenIsOk, BodiesOfIs DEF Untouched, Green
<1>3. /\ pack.records = f /\ pack.manifest # Null /\ pack.manifest.built = now
      /\ f # Null /\ ~Lacks(pack, {"integrity"})
  <2>1. pack.records = f /\ pack.manifest # Null /\ pack.manifest.built = now
    BY <1>2 DEF IsBuilt, FilesOf, FieldsOf
  <2>2. ~Lacks(pack, {"integrity"}) /\ pack.records # Null
    BY <1>2, BuiltHas DEF Lacks, Present
  <2> QED
    BY <2>1, <2>2
<1>4. \A i \in DOMAIN pins : pins[i] \in PinsOfLogs /\ pins[i].rows \in Nat /\ pins[i].at \in Nat
  <2> TAKE i \in DOMAIN pins
  <2>1. pins[i] \in PinsOfLogs
    OBVIOUS
  <2> QED
    BY <2>1 DEF PinsOfLogs
<1>5. \A i \in DOMAIN pins : pins[i].rows <= RowCount(f) => ~Disagrees(f, pins[i])
  BY <1>1, BeginningAgrees
<1>6. \A i \in DOMAIN P : i \in DOMAIN pins /\ ~Disagrees(f, P[i])
  <2> TAKE i \in DOMAIN P
  <2>1. i \in DOMAIN pins /\ pins[i] = P[i] /\ P[i].rows <= RowCount(f)
    BY <1>1, <1>2
  <2> QED
    BY <1>5, <2>1
<1>7. AgreedBlock(block, f, P, TRUE, o)
  <2>1. Audit(f, P, DOMAIN P, TRUE, o.ns).verdict \in {"consistent", "no_record"}
    BY <1>2, <1>6, AuditAgrees
  <2>2. block.verdict \in {Null, "consistent", "no_record"}
    <3> DEFINE a == Audit(f, P, DOMAIN P, TRUE, o.ns)
    <3> HIDE DEF a
    <3>1. a.verdict \in {"consistent", "no_record"}
      BY <2>1 DEF a
    <3> QED
      BY <3>1 DEF WitnessBlock, NoWitness, a
  <2>3. Null \notin {"rewritten", "truncated"}
    BY NullIsApart DEF Verdicts
  <2> QED
    BY <2>2, <2>3 DEF AgreedBlock
<1> HIDE DEF block
<1>8. StepPins(pack, TRUE, ns) = B
  <2>1. OtherSteps(pack) = {V} \cup (IF pack.cnl # <<>> THEN {C} ELSE {})
    BY <1>1, <1>2, <1>7, OtherStepsSay
  <2>2. B \notin OtherSteps(pack)
    BY <2>1 DEF V, B, C
  <2>3. B \in OtherSteps(pack) \cup {StepPins(pack, TRUE, ns)}
    <3> DEFINE said == OtherSteps(pack) \cup {StepPins(pack, TRUE, ns)}
    <3>1. Worst(said) = B
      BY <1>3 DEF Verify
    <3> HIDE DEF said
    <3>2. B \in said
      BY <3>1 DEF Worst, V, B, C
    <3> QED
      BY <3>2 DEF said
  <2> QED
    BY <2>2, <2>3
<1>9. ~InPackPins(pack) /\ AgreedPins(listed, f, P, o)
  BY <1>2, <1>7, ListedPinsHold
<1>10. listed = <<>>
  <2> SUFFICES ASSUME listed # <<>> PROVE FALSE
    OBVIOUS
  <2>1. StepPins(pack, TRUE, ns) = Worst({CheckLocal(f, listed[k], TRUE, ns) : k \in DOMAIN listed})
    BY <1>3, <1>9 DEF StepPins
  <2> DEFINE words == {CheckLocal(f, listed[k], TRUE, ns) : k \in DOMAIN listed}
  <2>2. B \in words
    <3> HIDE DEF words
    <3> QED
      BY <1>8, <2>1 DEF Worst, V, B, C, words
  <2>3. PICK k \in DOMAIN listed : CheckLocal(f, listed[k], TRUE, ns) = B
    BY <2>2
  <2>4. PICK i \in DOMAIN P : listed[k] = P[i]
    BY <1>9, <2>3 DEF AgreedPins
  <2>5. /\ i \in DOMAIN pins /\ pins[i].rows <= RowCount(f)
        /\ CheckLocal(f, pins[i], TRUE, ns) = B
    BY <1>1, <1>6, <2>3, <2>4
  <2>6. ~\E n : AuditUpTo(f, n) \in {"truncated", "rewritten", "witness_broken"}
    <3> SUFFICES ASSUME NEW n
                 PROVE  AuditUpTo(f, n) \notin {"truncated", "rewritten", "witness_broken"}
      OBVIOUS
    <3> DEFINE J == UpTo(pins, RowCount(f))
               a == Audit(f, pins, J, intact, n).verdict
    <3>1. \A j \in J : ~Disagrees(f, pins[j])
      BY <1>5 DEF UpTo
    <3> HIDE DEF J
    <3>2. a \in {"consistent", "no_record"}
      BY <1>2, <3>1, AuditAgrees
    <3> HIDE DEF a
    <3> QED
      BY <3>2 DEF AuditUpTo, J, a
  <2>7. PICK l, j \in DOMAIN pins : l < j /\ pins[j].rows = pins[i].rows
                                    /\ pins[l].rows > RowCount(f)
    BY <2>5, <2>6, ListedBroken
  <2>8. pins[l].rows <= pins[j].rows
    BY <2>7 DEF Ordered
  <2> QED
    BY <1>2, <1>4, <2>5, <2>7, <2>8
<1>11. \E i \in DOMAIN pins : pins[i].rows > RowCount(f) /\ pins[i].at = now
  <2>1. Unlisted(f, now, ns) = B
    BY <1>3, <1>8, <1>9, <1>10 DEF StepPins
  <2>2. \A i \in DOMAIN pins : pins[i].rows > RowCount(f) \/ ~Disagrees(f, pins[i])
    BY <1>2, <1>4, <1>5
  <2>3. PICK i \in DOMAIN pins : pins[i].rows > RowCount(f) /\ pins[i].at <= now
    BY <2>1, <2>2, UnlistedBroken
  <2>4. i > Len(P)
    <3> SUFFICES ASSUME ~(i > Len(P)) PROVE FALSE
      OBVIOUS
    <3>1. i \in DOMAIN P
      BY <1>2
    <3>2. pins[i].rows <= RowCount(f)
      BY <1>1, <3>1
    <3> QED
      BY <1>2, <1>4, <2>3, <3>2
  <2>5. pins[i].at >= now
    BY <1>1, <2>4
  <2> QED
    BY <1>2, <1>4, <2>3, <2>5
<1> QED
  BY <1>3, <1>10, <1>11

(***************************************************************************)
(* As long as nobody rewrites the log or the pin file: the log is one that *)
(* this program wrote, each pin names one of its beginnings, in their      *)
(* order, and an untouched pack is the pack of such a beginning and of the *)
(* pins of that second.                                                    *)
(***************************************************************************)
HonestLog == /\ Green(log) /\ (log = <<>> \/ RowCount(log) > 0)
             /\ Ordered(pins) /\ \A i \in DOMAIN pins : Pins(pins[i], log)

HonestPack == \E f, P, o, now : AsBuilt(pack, log, pins, clock, f, P, o, now)

HonestInv == /\ rewrites \in Nat
             /\ Honest => HonestLog /\ (pack # Null /\ edits = 0 => HonestPack)

\* A row more is written after what the pins and the pack hold.
LEMMA WriteIsHonest ==
  ASSUME PackInv, HonestLog, NEW b \in Content,
         log' = Put(log, FALSE, <<Row(b, LastChain(log))>>, TRUE),
         UNCHANGED <<pins, clock, pack>>
  PROVE  HonestLog' /\ (HonestPack => HonestPack')
<1>1. /\ Green(log) /\ log \in LogFiles
      /\ Ordered(pins) /\ \A i \in DOMAIN pins : Pins(pins[i], log)
  BY DEF HonestLog, Green
<1>2. /\ Green(log') /\ log' # <<>>
      /\ BodiesOf(log') = Append(BodiesOf(log), b) /\ RowCount(log') = RowCount(log) + 1
  BY <1>1, WriteIsGreen
<1>3. BodiesOf(log) \in Seq(Content) /\ Len(BodiesOf(log)) = RowCount(log) /\ RowCount(log) \in Nat
  BY <1>1, BodiesOfIs
<1>4. RowCount(log) \in Nat /\ RowCount(log') = RowCount(log) + 1
  BY <1>2, <1>3
<1>5. /\ RowCount(log') > 0
      /\ \A n \in 0..RowCount(log) : n <= RowCount(log')
      /\ \A n \in 1..RowCount(log) : n \in 0..RowCount(log) /\ n \in 1..RowCount(log')
  <2> DEFINE r == RowCount(log)
             s == RowCount(log')
  <2>1. r \in Nat /\ s = r + 1
    BY <1>4
  <2> HIDE DEF r, s
  <2>2. /\ s > 0
        /\ \A n \in 0..r : n <= s
        /\ \A n \in 1..r : n \in 0..r /\ n \in 1..s
    BY <2>1
  <2> QED
    BY <2>2 DEF r, s
<1>6. ASSUME NEW n \in 0..RowCount(log)
      PROVE  SubSeq(BodiesOf(log'), 1, n) = SubSeq(BodiesOf(log), 1, n)
  <2> DEFINE s == BodiesOf(log)
  <2> HIDE DEF s
  <2>1. s \in Seq(Content) /\ n \in 0..Len(s)
    BY <1>3 DEF s
  <2>2. SubSeq(Append(s, b), 1, n) = SubSeq(s, 1, n)
    BY <2>1, BeginsBefore
  <2> QED
    BY <1>2, <2>2 DEF s
<1>7. \A i \in DOMAIN pins : Pins(pins[i], log')
  <2> TAKE i \in DOMAIN pins
  <2>1. pins[i].rows \in 1..RowCount(log) /\ pins[i].chain = SubSeq(BodiesOf(log), 1, pins[i].rows)
    BY <1>1 DEF Pins
  <2>2. pins[i].rows \in 0..RowCount(log) /\ pins[i].rows \in 1..RowCount(log')
    BY <1>5, <2>1, Zenon
  <2> QED
    BY <1>6, <2>1, <2>2 DEF Pins
<1>8. HonestLog'
  BY <1>1, <1>2, <1>7, <1>5 DEF HonestLog
<1>9. ASSUME HonestPack
      PROVE  HonestPack'
  <2>1. PICK f, P, o, now : AsBuilt(pack, log, pins, clock, f, P, o, now)
    BY <1>9 DEF HonestPack
  <2>2. Begins(f, log')
    <3>1. Begins(f, log) /\ RowCount(f) \in Nat
      BY <2>1, BodiesOfIs DEF AsBuilt, Green
    <3>2. RowCount(f) \in 0..RowCount(log)
      BY <1>3, <3>1 DEF Begins
    <3>3. RowCount(f) <= RowCount(log')
      BY <1>5, <3>2, Zenon
    <3> QED
      BY <1>6, <3>1, <3>2, <3>3 DEF Begins
  <2>3. AsBuilt(pack, log', pins, clock, f, P, o, now)
    BY <2>1, <2>2 DEF AsBuilt
  <2>4. AsBuilt(pack', log', pins', clock', f, P, o, now)
    BY <2>3
  <2> QED
    BY <2>4 DEF HonestPack
<1> QED
  BY <1>8, <1>9

\* A pin more names the whole of the log, and no pin before it names more.
LEMMA PublishIsHonest ==
  ASSUME PackInv, HonestLog, NEW ns \in {Own, Alt}, Publish(ns)
  PROVE  HonestLog' /\ (HonestPack => HonestPack')
<1> DEFINE mark == [ns |-> ns, rows |-> RowCount(log), chain |-> LastChain(log), at |-> clock]
<1>1. /\ Green(log) /\ log \in LogFiles /\ log = log' /\ pins \in Seq(PinsOfLogs)
      /\ Ordered(pins) /\ \A i \in DOMAIN pins : Pins(pins[i], log)
  BY DEF HonestLog, Green, Publish, PackInv
<1>2. BodiesOf(log) \in Seq(Content) /\ Len(BodiesOf(log)) = RowCount(log) /\ RowCount(log) \in Nat
  BY <1>1, BodiesOfIs
<1>3. pins' = Append(pins, mark) /\ RowCount(log) > 0 /\ UNCHANGED <<clock, pack>>
  BY DEF Publish
<1>4. Pins(mark, log)
  <2>1. LastChain(log) = SubSeq(BodiesOf(log), 1, RowCount(log))
    <3> DEFINE s == BodiesOf(log)
    <3>1. s \in Seq(Content) /\ Len(s) = RowCount(log)
      BY <1>2
    <3>2. s = LastChain(log)
      BY <1>1, GreenSpells
    <3> HIDE DEF s
    <3>3. SubSeq(s, 1, Len(s)) = s
      BY <3>1, BeginsWhole
    <3> QED
      BY <3>1, <3>2, <3>3 DEF s
  <2>2. RowCount(log) \in 1..RowCount(log)
    BY <1>2, <1>3
  <2> QED
    BY <2>1, <2>2 DEF Pins
<1>5. mark.rows = RowCount(log) /\ mark.at = clock
  OBVIOUS
<1> HIDE DEF mark
<1>6. /\ Len(pins) \in Nat /\ Len(pins') = Len(pins) + 1 /\ pins'[Len(pins)+1] = mark
      /\ \A i \in DOMAIN pins : pins'[i] = pins[i]
      /\ \A i \in DOMAIN pins' : i \in DOMAIN pins \/ i = Len(pins) + 1
  BY <1>1, <1>3
<1>7. \A i \in DOMAIN pins' : Pins(pins'[i], log)
  BY <1>1, <1>4, <1>6
<1>8. Ordered(pins')
  <2> SUFFICES ASSUME NEW i \in DOMAIN pins', NEW j \in DOMAIN pins', i < j
               PROVE  pins'[i].rows <= pins'[j].rows
    BY DEF Ordered
  <2>1. i \in DOMAIN pins
    BY <1>1, <1>3
  <2>2. CASE j \in DOMAIN pins
    BY <1>1, <1>6, <2>1, <2>2 DEF Ordered
  <2>3. CASE j = Len(pins) + 1
    <3>1. pins[i].rows \in 1..RowCount(log)
      BY <1>1, <2>1 DEF Pins
    <3>2. pins[i].rows <= RowCount(log)
      BY <1>2, <3>1
    <3> QED
      BY <1>5, <1>6, <2>1, <2>3, <3>2
  <2> QED
    BY <1>6, <2>2, <2>3
<1>9. HonestLog'
  BY <1>1, <1>7, <1>8 DEF HonestLog
<1>10. ASSUME HonestPack
       PROVE  HonestPack'
  <2>1. PICK f, P, o, now : AsBuilt(pack, log, pins, clock, f, P, o, now)
    BY <1>10 DEF HonestPack
  <2>2. /\ Len(P) <= Len(pins) /\ now <= clock /\ P \in Seq(PinsOfLogs)
        /\ \A i \in DOMAIN P : pins[i] = P[i] /\ P[i].rows <= RowCount(f)
        /\ \A i \in DOMAIN pins : i > Len(P) => pins[i].at >= now
    BY <2>1 DEF AsBuilt, Untouched
  <2>3. \A i \in DOMAIN P : pins'[i] = P[i] /\ P[i].rows <= RowCount(f)
    <3>1. \A i \in DOMAIN P : i \in DOMAIN pins
      BY <1>1, <2>2
    <3> QED
      BY <1>6, <2>2, <3>1
  <2>4. \A i \in DOMAIN pins' : i > Len(P) => pins'[i].at >= now
    <3>1. now \in Nat /\ clock \in Nat
      BY <2>1, BodiesAreContent DEF AsBuilt, Untouched, PackInv
    <3> QED
      BY <1>5, <1>6, <2>2, <3>1
  <2>5. Len(P) <= Len(pins')
    BY <1>6, <2>2
  <2>6. AsBuilt(pack, log, pins', clock, f, P, o, now)
    BY <2>1, <2>3, <2>4, <2>5 DEF AsBuilt
  <2>7. AsBuilt(pack', log', pins', clock', f, P, o, now)
    BY <1>1, <1>3, <2>6
  <2> QED
    BY <2>7 DEF HonestPack
<1> QED
  BY <1>9, <1>10

\* A pack just built is one of the whole of the log and all its pins.
LEMMA BuildIsHonest ==
  ASSUME NullIsNoFile, PackInv, UntouchedInv, HonestLog, intact, NEW o, Build(o)
  PROVE  HonestLog' /\ HonestPack'
<1>1. /\ Green(log) /\ log \in LogFiles /\ RowCount(log) > 0 /\ pins \in Seq(PinsOfLogs)
      /\ \A i \in DOMAIN pins : Pins(pins[i], log)
  BY DEF HonestLog, Green, Build, PackInv
<1>2. /\ pack' = Built(log, pins, TRUE, o, clock)
      /\ UNCHANGED <<subject, log, pins, intact, clock, rewrites, edits>>
  BY DEF Build
<1>3. IsBuilt(pack', log, WitnessBlock(log, pins, TRUE, o.ns), o, clock)
  BY <1>2, BuiltIsBuilt
<1>4. clock \in Nat
  BY BodiesAreContent DEF PackInv
<1>5. Untouched(pack', log, pins, TRUE, o, clock)
  BY <1>1, <1>3, <1>4 DEF Untouched, UntouchedInv
<1>6. BodiesOf(log) \in Seq(Content) /\ Len(BodiesOf(log)) = RowCount(log) /\ RowCount(log) \in Nat
  BY <1>1, BodiesOfIs
<1>7. Begins(log, log)
  <2> DEFINE s == BodiesOf(log)
  <2>1. s \in Seq(Content) /\ Len(s) = RowCount(log)
    BY <1>6
  <2> HIDE DEF s
  <2>2. SubSeq(s, 1, Len(s)) = s
    BY <2>1, BeginsWhole
  <2> QED
    BY <1>6, <2>1, <2>2 DEF Begins, s
<1>8. \A i \in DOMAIN pins : pins[i].rows <= RowCount(log)
  <2> TAKE i \in DOMAIN pins
  <2>1. pins[i].rows \in 1..RowCount(log)
    BY <1>1 DEF Pins
  <2> QED
    BY <1>6, <2>1
<1>9. AsBuilt(pack', log, pins, clock, log, pins, o, clock)
  <2>1. Len(pins) <= Len(pins) /\ clock <= clock /\ \A i \in DOMAIN pins : ~(i > Len(pins))
    BY <1>1, <1>4
  <2> QED
    BY <1>1, <1>5, <1>7, <1>8, <2>1 DEF AsBuilt
<1>10. AsBuilt(pack', log', pins', clock', log, pins, o, clock)
  BY <1>2, <1>9
<1>11. HonestPack'
  BY <1>10 DEF HonestPack
<1>12. HonestLog'
  BY <1>2 DEF HonestLog
<1> QED
  BY <1>11, <1>12

\* What an honest run keeps, every step keeps as long as the run is honest.
LEMMA HonestInvHolds ==
  ASSUME NullIsNoFile
  PROVE  PackSpec => []HonestInv
<1>1. PackInit => HonestInv
  <2> SUFFICES ASSUME PackInit
               PROVE  HonestInv
    OBVIOUS
  <2>1. log = <<>> /\ pins = <<>> /\ rewrites = 0 /\ pack = Null
    BY DEF PackInit
  <2>2. Green(log)
    <3>1. <<>> \in LogFiles
      BY DEF LogFiles
    <3> QED
      BY <2>1, <3>1 DEF Green, Clean, Linked, EndsInNewline
  <2>3. HonestLog
    BY <2>1, <2>2 DEF HonestLog, Ordered
  <2> QED
    BY <2>1, <2>3 DEF HonestInv
<1>2. PackInv /\ UntouchedInv /\ HonestInv /\ [PackNext]_packVars => HonestInv'
  <2> SUFFICES ASSUME PackInv, UntouchedInv, HonestInv, [PackNext]_packVars
               PROVE  HonestInv'
    OBVIOUS
  <2>1. rewrites \in Nat /\ edits \in Nat
    BY DEF HonestInv, UntouchedInv
  <2>2. ASSUME NEW b \in subject.bodies[clock], Write(b)
        PROVE  HonestInv'
    <3>1. /\ log' = Put(log, FALSE, <<Row(b, LastChain(log))>>, TRUE)
          /\ UNCHANGED <<subject, pins, intact, clock, pack, rewrites, edits>>
      BY <2>2 DEF Write
    <3>2. b \in Content
      BY BodiesAreContent DEF PackInv
    <3>3. HonestLog => HonestLog' /\ (HonestPack => HonestPack')
      BY <3>1, <3>2, WriteIsHonest
    <3>4. Honest' = Honest
      BY <3>1 DEF Honest
    <3> QED
      BY <3>1, <3>3, <3>4 DEF HonestInv
  <2>3. ASSUME NEW ns \in {Own, Alt}, Publish(ns)
        PROVE  HonestInv'
    <3>1. UNCHANGED <<subject, log, intact, clock, pack, rewrites, edits>>
      BY <2>3 DEF Publish
    <3>2. HonestLog => HonestLog' /\ (HonestPack => HonestPack')
      BY <2>3, PublishIsHonest
    <3>3. Honest' = Honest
      BY <3>1 DEF Honest
    <3> QED
      BY <3>1, <3>2, <3>3 DEF HonestInv
  <2>4. ASSUME NEW o \in subject.options, Build(o)
        PROVE  HonestInv'
    <3>1. UNCHANGED <<subject, log, pins, intact, clock, rewrites, edits>>
      BY <2>4 DEF Build
    <3>2. Honest /\ HonestLog => HonestLog' /\ HonestPack'
      BY <2>4, BuildIsHonest DEF Honest
    <3>3. Honest' = Honest
      BY <3>1 DEF Honest
    <3> QED
      BY <3>1, <3>2, <3>3 DEF HonestInv
  <2>5. ASSUME Tick
        PROVE  HonestInv'
    <3>1. /\ clock' = clock + 1
          /\ UNCHANGED <<subject, log, pins, intact, pack, rewrites, edits>>
      BY <2>5 DEF Tick
    <3>2. HonestPack => HonestPack'
      <4> SUFFICES ASSUME HonestPack
                   PROVE  HonestPack'
        OBVIOUS
      <4>1. PICK f, P, o, now : AsBuilt(pack, log, pins, clock, f, P, o, now)
        BY DEF HonestPack
      <4>2. now <= clock + 1
        BY <4>1, BodiesAreContent DEF AsBuilt, Untouched, PackInv
      <4>3. AsBuilt(pack, log, pins, clock + 1, f, P, o, now)
        BY <4>1, <4>2 DEF AsBuilt
      <4>4. AsBuilt(pack', log', pins', clock', f, P, o, now)
        BY <3>1, <4>3
      <4> QED
        BY <4>4 DEF HonestPack
    <3>3. Honest' = Honest /\ HonestLog' = HonestLog
      BY <3>1 DEF Honest, HonestLog
    <3> QED
      BY <3>1, <3>2, <3>3 DEF HonestInv
  <2>6. ASSUME Rewrite \/ BreakPinFile
        PROVE  HonestInv'
    <3>1. rewrites' = rewrites + 1
      BY <2>6 DEF Rewrite, BreakPinFile
    <3>2. rewrites' \in Nat /\ rewrites' # 0
      BY <2>1, <3>1
    <3> QED
      BY <3>2 DEF HonestInv, Honest
  <2>7. ASSUME Edit \/ Lose
        PROVE  HonestInv'
    <3>1. /\ edits' = edits + 1
          /\ UNCHANGED <<subject, log, pins, intact, clock, rewrites>>
      BY <2>7 DEF Edit, Lose, Touched
    <3>2. edits' # 0
      BY <2>1, <3>1
    <3>3. Honest' = Honest /\ HonestLog' = HonestLog
      BY <3>1 DEF Honest, HonestLog
    <3> QED
      BY <3>1, <3>2, <3>3 DEF HonestInv
  <2>8. ASSUME UNCHANGED packVars
        PROVE  HonestInv'
    <3>1. UNCHANGED <<subject, log, pins, intact, clock, pack, rewrites, edits>>
      BY <2>8 DEF packVars
    <3>2. Honest' = Honest /\ HonestLog' = HonestLog /\ HonestPack' = HonestPack
      BY <3>1 DEF Honest, HonestLog, HonestPack
    <3> QED
      BY <3>1, <3>2 DEF HonestInv
  <2> QED
    BY <2>2, <2>3, <2>4, <2>5, <2>6, <2>7, <2>8 DEF PackNext
<1> QED
  BY <1>1, <1>2, PackInvHolds, UntouchedInvHolds, PTL DEF PackSpec

(* Nobody who rewrites nothing is called broken (HonestIsNotBroken): an     *)
(* untouched pack of an honest log, under any namespace, with any number of *)
(* rows and pins after it, but for a pin of the second it was built in.     *)
THEOREM HonestIsHeld ==
  ASSUME NullIsNoFile
  PROVE  PackSpec => []HonestIsNotBroken
<1>1. PackInv /\ UntouchedInv /\ HonestInv => HonestIsNotBroken
  <2> SUFFICES ASSUME PackInv, UntouchedInv, HonestInv, pack # Null, edits = 0, Honest,
                      NEW ns \in {Null, Own, Alt}, Verify(pack, TRUE, ns) = B
               PROVE  /\ pack.manifest.pins = <<>>
                      /\ \E i \in DOMAIN pins : /\ pins[i].rows > RowCount(pack.records)
                                                /\ pins[i].at = pack.manifest.built
    BY DEF HonestIsNotBroken, NotBuilt
  <2>1. PICK f, P, o, now : AsBuilt(pack, log, pins, clock, f, P, o, now)
    BY DEF HonestInv, HonestPack
  <2>2. /\ Green(log) /\ Ordered(pins) /\ \A i \in DOMAIN pins : Pins(pins[i], log)
        /\ intact = TRUE /\ pins \in Seq(PinsOfLogs)
    BY DEF HonestInv, HonestLog, Honest, UntouchedInv, PackInv
  <2> QED
    BY <2>1, <2>2, AsBuiltBroken
<1> QED
  BY <1>1, PackInvHolds, UntouchedInvHolds, HonestInvHolds, PTL
================================================================================
