------------------------------ MODULE LedgerLog ------------------------------
(***************************************************************************)
(* The ledger file and everything the package computes from its bytes:     *)
(* how a payload lands at its end, what the next append chains from, what  *)
(* verify_file says of it and what a pin is compared with.                 *)
(* Source: src/src/arcaeon/record/ledger/__init__.py and record/row.py.    *)
(*                                                                         *)
(* A file is what text.split("\n") returns: a sequence of lines, the last  *)
(* of which is the still open one (empty when the file ends in a newline). *)
(* An absent file is <<>>.  A line is the sequence of the pieces written   *)
(* to it: one piece is a line as its writer meant it, several pieces are   *)
(* bytes that ran into each other, which no JSON parser accepts.           *)
(*                                                                         *)
(* The hash is taken to be free of collisions: the chain value             *)
(* H(prev, body) is the sequence prev with body appended, and genesis is   *)
(* the empty sequence.                                                     *)
(***************************************************************************)
EXTENDS Integers, Sequences, FiniteSets

CONSTANTS Content,  \* bodies of ordinary rows
          Void      \* stands for the characters of no chain value: "" and str(5)

ASSUME VoidIsNoBody == Void \notin Content

Genesis == <<>>                     \* GENESIS
VoidChain == <<Void>>               \* the "" verify_file continues from
\* Mutant of Hash: the digest leaves out the row before.
HashOfBody(prev, body) == <<body>>

Hash(prev, body) == Append(prev, body)     \* row.chain

(***************************************************************************)
(* Pieces.  kind "link" is an object with a chain string, "bare" an object *)
(* without one, "poison" an object whose chain is not a string, "twin" an  *)
(* object with a duplicate key, "scalar" a JSON value that is no object    *)
(* and "scrap" bytes that do not parse.                                    *)
(***************************************************************************)
Row(body, prev) == [kind |-> "link", body |-> body, chain |-> Hash(prev, body)]
Bare(body)      == [kind |-> "bare", body |-> body, chain |-> Genesis]
Poison(body)    == [kind |-> "poison", body |-> body, chain |-> <<Void, Void>>]
Twin(body, prev) == [kind |-> "twin", body |-> body, chain |-> Hash(prev, body)]
Scalar          == [kind |-> "scalar", body |-> Void, chain |-> Genesis]
Scrap           == [kind |-> "scrap", body |-> Void, chain |-> Genesis]

RowKinds == {"link", "bare", "poison", "twin"}

Kind(line) == IF line = <<>> THEN "blank"
              ELSE IF Len(line) = 1 THEN line[1].kind ELSE "scrap"

IsRow(f, i)    == Kind(f[i]) \in RowKinds
Chained(f, i)  == Kind(f[i]) \in {"link", "twin", "poison"}
Body(f, i)     == f[i][1].body
Claimed(f, i)  == f[i][1].chain

(***************************************************************************)
(* Writing at the end of the file (open "ab" creates an absent file).      *)
(***************************************************************************)
Opened(f) == IF f = <<>> THEN << <<>> >> ELSE f

EndsInNewline(f) == f = <<>> \/ f[Len(f)] = <<>>

\* The payload (optional separator, a piece, an optional newline) added to f.
Put(f, sep, pieces, newline) ==
  LET o == IF sep THEN Append(Opened(f), <<>>) ELSE Opened(f)
      p == [o EXCEPT ![Len(o)] = @ \o pieces]
  IN  IF newline THEN Append(p, <<>>) ELSE p

\* What a write of a row can leave behind when it is cut short: nothing, the
\* created file, the separator, some bytes of the row, the row without its
\* newline, or all of it.
Landings(f, sep, row) ==
  {f, Put(f, sep, <<>>, FALSE), Put(f, sep, <<Scrap>>, FALSE),
   Put(f, sep, <<row>>, FALSE), Put(f, sep, <<row>>, TRUE)}

(***************************************************************************)
(* _last_chain: backwards over blank, unparseable and non-object lines to  *)
(* the last object; its chain, or genesis when it carries none.            *)
(***************************************************************************)
LastRowIs(f, i, n) == /\ i \in 1..n /\ IsRow(f, i)
                      /\ \A j \in i+1..n : ~IsRow(f, j)

\* The same over the first n lines only.
TailChain(f, n) == IF \E i \in 1..n : LastRowIs(f, i, n)
                   THEN Claimed(f, CHOOSE i \in 1..n : LastRowIs(f, i, n))
                   ELSE Genesis

LastChain(f) == TailChain(f, Len(f))

(***************************************************************************)
(* Declared breaks.  A declaration names a line, pins its bytes and says   *)
(* what the record resumed from.  Only a row with a chain string counts,   *)
(* and the last declaration for a line wins.                               *)
(***************************************************************************)
Declaration(line, pin, resume) ==
  [op |-> "chain_break_declared", line |-> line, pin |-> pin, resume |-> resume]

IsDeclaration(f, i) == /\ Kind(f[i]) \in {"link", "twin"}
                       /\ Body(f, i) \notin Content
                       /\ Body(f, i) # Void

Declares(f, d, i) == /\ d \in 1..Len(f) /\ IsDeclaration(f, d)
                     /\ Body(f, d).line = i
                     /\ \A e \in d+1..Len(f) :
                           ~(IsDeclaration(f, e) /\ Body(f, e).line = i)

Excused(f, i) == \E d \in 1..Len(f) : Declares(f, d, i) /\ Body(f, d).pin = f[i]

Resume(f, i) == LET d == CHOOSE d \in 1..Len(f) : Declares(f, d, i)
                IN  Body(f, d).resume

(***************************************************************************)
(* verify_file.  Line i is judged against prev, which the last line before *)
(* it that set prev determines: a chained line sets it to the value it     *)
(* claims ("" if that is no string), an excused bare line to the declared  *)
(* resume point.                                                           *)
(***************************************************************************)
Begun(f, i) == \E j \in 1..i-1 : Chained(f, j)

ExcusedIn(f, i, strict) == ~strict /\ Excused(f, i)

Sets(f, j, strict) == \/ Chained(f, j)
                      \/ Kind(f[j]) = "bare" /\ Begun(f, j) /\ ExcusedIn(f, j, strict)

\* Mutant of SetTo: the walk goes on from the value it recomputed.
SetToRecomputed(f, j) == IF Kind(f[j]) = "bare" THEN Resume(f, j)
                         ELSE Hash(TailChain(f, j-1), Body(f, j))

SetTo(f, j) == CASE Kind(f[j]) = "bare"   -> Resume(f, j)
                 [] Kind(f[j]) = "poison" -> VoidChain
                 [] OTHER                 -> Claimed(f, j)

LastSetter(f, i, j, strict) == /\ j \in 1..i-1 /\ Sets(f, j, strict)
                               /\ \A k \in j+1..i-1 : ~Sets(f, k, strict)

Prev(f, i, strict) ==
  IF \E j \in 1..i-1 : LastSetter(f, i, j, strict)
  THEN SetTo(f, CHOOSE j \in 1..i-1 : LastSetter(f, i, j, strict))
  ELSE Genesis

\* Mutant of Mismatch: only the row's own content is compared.
MismatchOfBody(f, i, strict) == /\ Kind(f[i]) \in {"link", "twin"}
                                /\ Claimed(f, i)[Len(Claimed(f, i))] # Body(f, i)

Mismatch(f, i, strict) == /\ Kind(f[i]) \in {"link", "twin"}
                          /\ Claimed(f, i) # Hash(Prev(f, i, strict), Body(f, i))

Stray(f, i, strict) == Kind(f[i]) = "bare" /\ (Begun(f, i) \/ strict)

\* The two break classes a declaration can excuse; a strict prechain row is
\* a break no declaration is even looked up for.
Declarable(f, i, strict) == Stray(f, i, strict) \/ Mismatch(f, i, strict)

Broken(f, i, strict) == \/ Kind(f[i]) \in {"scrap", "scalar", "poison"}
                        \/ Declarable(f, i, strict) /\ ~ExcusedIn(f, i, strict)

Lines(f, P(_)) == Cardinality({i \in 1..Len(f) : P(i)})

RowCount(f) == Lines(f, LAMBDA i : IsRow(f, i))

\* An absent file is unreadable, which counts as one break.
Breaks(f, strict) == IF f = <<>> THEN 1
                     ELSE Lines(f, LAMBDA i : Broken(f, i, strict))
                          + Lines(f, LAMBDA i : Kind(f[i]) = "twin")

Prechain(f) == Lines(f, LAMBDA i : Kind(f[i]) = "bare" /\ ~Begun(f, i))

DeclaredBreaks(f, strict) ==
  Lines(f, LAMBDA i : Declarable(f, i, strict) /\ ExcusedIn(f, i, strict))

\* Mutant of Bounded: an excused row counts as a verified one.
BoundedByPrechain(f, strict) == (~strict /\ Prechain(f) > 0) \/ RowCount(f) = 0

\* VerifyResult.ok, three-valued: "True", "None", "False".  A green over a
\* bounded scan, or over no row at all, is a "None".
Bounded(f, strict) == \/ ~strict /\ Prechain(f) + DeclaredBreaks(f, strict) > 0
                      \/ RowCount(f) = 0

Ok(f, strict) == IF Breaks(f, strict) > 0 THEN "False"
                 ELSE IF Bounded(f, strict) THEN "None" ELSE "True"

VerifyFile(f, strict) ==
  [ok |-> Ok(f, strict), rows |-> RowCount(f), breaks |-> Breaks(f, strict),
   prechain |-> Prechain(f), declared |-> DeclaredBreaks(f, strict)]

\* Ledger.head's verdict: an absent or empty log is not a damaged one.
HeadOk(f) == IF f = <<>> \/ (RowCount(f) = 0 /\ Ok(f, FALSE) = "None")
             THEN "True" ELSE Ok(f, FALSE)

(***************************************************************************)
(* chain_at: what the log says now at row n; NoChain when it is shorter or *)
(* that row carries no chain.                                              *)
(***************************************************************************)
NoChain == <<Void, Void, Void>>

RowNumber(f, i) == Cardinality({j \in 1..i : IsRow(f, j)})

\* Mutant of ChainAt: off by one.
ChainAtFromZero(f, n) ==
  IF n >= RowCount(f) THEN NoChain
  ELSE Claimed(f, CHOOSE i \in 1..Len(f) : IsRow(f, i) /\ RowNumber(f, i) = n + 1)

ChainAt(f, n) ==
  IF n <= 0 THEN Genesis
  ELSE IF n > RowCount(f) THEN NoChain
  ELSE LET i == CHOOSE i \in 1..Len(f) : IsRow(f, i) /\ RowNumber(f, i) = n
       IN  IF Kind(f[i]) = "bare" THEN NoChain ELSE Claimed(f, i)

(***************************************************************************)
(* The link every honest row has to the row before it, whatever torn lines *)
(* lie between them.                                                       *)
(***************************************************************************)
Linked(f) == \A i \in 1..Len(f) :
               Kind(f[i]) = "link" =>
                 Claimed(f, i) = Hash(TailChain(f, i-1), Body(f, i))
=============================================================================
