------------------------------- MODULE Damage --------------------------------
(***************************************************************************)
(* A ledger file over its life: the library appends to it and declares     *)
(* breaks in it, other programs append to it, cut it, edit it, drop lines  *)
(* from it or re-mint its tail, and its head is pinned outside.  What      *)
(* verify_file and chain_at must say of every file this reaches.           *)
(*                                                                         *)
(* VerifyWalk is verify_file as the code computes it, one pass over the    *)
(* lines with an accumulator; the invariant WalkAgrees ties it to the      *)
(* declarative VerifyFile of LedgerLog, which the other modules use.       *)
(***************************************************************************)
EXTENDS LedgerLog

CONSTANTS ForeignKinds,  \* kinds of line another program may append
          MaxLines,      \* bound on the lines of the file
          MaxEvents      \* bound on the steps that are not plain appends

VARIABLES file,   \* the file
          pin,    \* the Head published as a pin [rows, chain, ok], or NoPin
          pinned, \* the bodies of the rows when pin was taken
          events  \* steps taken other than plain appends and the pin

vars == <<file, pin, pinned, events>>

NoPin == [rows |-> -1, chain |-> NoChain, ok |-> "False"]

(***************************************************************************)
(* verify_file, line by line.                                              *)
(***************************************************************************)
\* Mutant of Scan: the first declaration of a line wins.
ScanFirst(f) ==
  [n \in 1..Len(f) |->
     LET D == {d \in 1..Len(f) : IsDeclaration(f, d) /\ Body(f, d).line = n}
     IN  IF D = {} THEN 0 ELSE CHOOSE d \in D : \A e \in D : d <= e]

Scan(f) ==
  LET found[i \in 0..Len(f)] ==
        IF i = 0 THEN [n \in 1..Len(f) |-> 0]
        ELSE IF IsDeclaration(f, i) /\ Body(f, i).line \in 1..Len(f)
             THEN [found[i-1] EXCEPT ![Body(f, i).line] = i]
             ELSE found[i-1]
  IN  found[Len(f)]

\* One line of the walk, with the accumulator r.
Step(f, declared, strict, r, i) ==
  LET Excuses == ~strict /\ declared[i] # 0 /\ Body(f, declared[i]).pin = f[i]
      Fail(q) == [q EXCEPT !.ok = "False", !.breaks = @ + 1]
      Bad(q) == IF Excuses THEN [q EXCEPT !.declared = @ + 1] ELSE Fail(q)
      Unchained(q) ==
        IF q.chained = 0
        THEN LET p == [q EXCEPT !.prechain = @ + 1] IN IF strict THEN Fail(p) ELSE p
        ELSE IF Excuses
             THEN [Bad(q) EXCEPT !.prev = Body(f, declared[i]).resume]
             ELSE Bad(q)
      Linking(q) ==
        LET j == IF Claimed(f, i) = Hash(q.prev, Body(f, i)) THEN q ELSE Bad(q)
        IN  [j EXCEPT !.prev = Claimed(f, i), !.chained = @ + 1]
      Object(q) ==
        LET d == IF Kind(f[i]) = "twin" THEN Fail(q) ELSE q
            n == [d EXCEPT !.rows = @ + 1]
        IN  CASE Kind(f[i]) = "bare"   -> Unchained(n)
              [] Kind(f[i]) = "poison" ->
                   [Fail(n) EXCEPT !.prev = VoidChain, !.chained = @ + 1]
              [] OTHER -> Linking(n)
  IN  CASE Kind(f[i]) = "blank" -> r
        [] Kind(f[i]) \in {"scrap", "scalar"} -> Fail(r)
        [] OTHER -> Object(r)

Started == [ok |-> "True", rows |-> 0, breaks |-> 0, prechain |-> 0,
            declared |-> 0, chained |-> 0, prev |-> Genesis]

Walk(f, strict) ==
  LET declared == Scan(f)
      walk[i \in 0..Len(f)] ==
        IF i = 0 THEN Started ELSE Step(f, declared, strict, walk[i-1], i)
  IN  walk[Len(f)]

VerifyWalk(f, strict) ==
  LET r == Walk(f, strict)
      bounded == ~strict /\ r.prechain + r.declared > 0
      ok == IF r.ok = "True" /\ (bounded \/ r.rows = 0) THEN "None" ELSE r.ok
  IN  IF f = <<>>
      THEN [ok |-> "False", rows |-> 0, breaks |-> 1, prechain |-> 0, declared |-> 0]
      ELSE [ok |-> ok, rows |-> r.rows, breaks |-> r.breaks,
            prechain |-> r.prechain, declared |-> r.declared]

(***************************************************************************)
(* The actions.                                                            *)
(***************************************************************************)
Room == Len(file) <= MaxLines

Init == file = <<>> /\ pin = NoPin /\ pinned = <<>> /\ events = 0

Event == events < MaxEvents /\ events' = events + 1

LibraryAppend(body) == Put(file, ~EndsInNewline(file), <<Row(body, LastChain(file))>>, TRUE)

\* Ledger.append with nobody else at work.
Append1(body) == /\ Room
                 /\ file' = LibraryAppend(body)
                 /\ UNCHANGED <<pin, pinned, events>>

\* declare_break: any line that is not blank, whatever verify says of it.
DeclareBreak(i, resume) ==
  /\ Room /\ file[i] # <<>> /\ Event
  /\ file' = LibraryAppend(Declaration(i, file[i], resume))
  /\ UNCHANGED <<pin, pinned>>

\* A line written by another program, which neither locks nor heals.
ForeignAppend(piece) == /\ Room /\ Event
                        /\ file' = Put(file, FALSE, <<piece>>, TRUE)
                        /\ UNCHANGED <<pin, pinned>>

\* One row's content edited in place, its chain field left alone.
EditRow(i, body) == /\ Kind(file[i]) = "link" /\ Body(file, i) # body /\ Event
                    /\ file' = [file EXCEPT ![i] = <<[@[1] EXCEPT !.body = body]>>]
                    /\ UNCHANGED <<pin, pinned>>

DropLine(i) == /\ i < Len(file) /\ Event
               /\ file' = [j \in 1..Len(file)-1 |-> file[IF j < i THEN j ELSE j+1]]
               /\ UNCHANGED <<pin, pinned>>

\* Everything from line i on cut off and one row minted in its place.
Remint(i, body) == /\ i < Len(file) /\ Event
                   /\ LET kept == [SubSeq(file, 1, i) EXCEPT ![i] = <<>>]
                      IN  file' = Put(kept, FALSE, <<Row(body, LastChain(kept))>>, TRUE)
                   /\ UNCHANGED <<pin, pinned>>

Bodies(f) == LET rows == {i \in 1..Len(f) : IsRow(f, i)}
             IN  [n \in 1..Cardinality(rows) |->
                    Body(f, CHOOSE i \in rows : RowNumber(f, i) = n)]

\* as_pin of head(), the log being quiet: refused over a log that does not
\* verify.
Pin == /\ HeadOk(file) # "False" /\ pin = NoPin
       /\ pin' = [rows |-> RowCount(file), chain |-> LastChain(file),
                 ok |-> HeadOk(file)]
       /\ pinned' = Bodies(file)
       /\ UNCHANGED <<file, events>>

ForeignPieces == {p \in UNION {{Bare(b), Poison(b), Twin(b, LastChain(file)),
                                Row(b, Genesis), Scalar, Scrap} : b \in Content} :
                    p.kind \in ForeignKinds}

Next == \/ \E b \in Content : Append1(b)
        \/ \E i \in 1..Len(file) :
              \E r \in {Genesis, TailChain(file, i-1)} : DeclareBreak(i, r)
        \/ \E p \in ForeignPieces : ForeignAppend(p)
        \/ \E i \in 1..Len(file), b \in Content : EditRow(i, b)
        \/ \E i \in 1..Len(file) : DropLine(i)
        \/ \E i \in 1..Len(file), b \in Content : Remint(i, b)
        \/ Pin

Spec == Init /\ [][Next]_vars

(***************************************************************************)
(* What must hold.                                                         *)
(***************************************************************************)
\* The declarative verdict is the one the line by line walk of verify_file
\* reaches, in both modes and in every counter.
WalkAgrees == \A s \in BOOLEAN : VerifyFile(file, s) = VerifyWalk(file, s)

\* A green log is a genuine one: each row's chain is the hash of exactly the
\* rows before it, so no row was dropped, added or reordered under a green.
GreenIsGenuine ==
  Ok(file, FALSE) = "True" =>
    \A n \in 1..RowCount(file) : ChainAt(file, n) = SubSeq(Bodies(file), 1, n)

\* Head's promise, for a head whose verdict was green: "no later rewrite can
\* produce a log that both differs from that pin and still verifies".
PinClosesTheGap ==
  (pin.ok = "True" /\ Ok(file, FALSE) = "True" /\ ChainAt(file, pin.rows) = pin.chain)
    => SubSeq(Bodies(file), 1, pin.rows) = pinned

\* VerifyResult.breaks: "a single mid-file edit must produce breaks == 1".  It
\* is counted under declared instead when a declaration already pins the very
\* bytes the edit produces.
OneEditOneBreak ==
  \A i \in 1..Len(file) :
    (Ok(file, FALSE) = "True" /\ \E b \in Content : EditRow(i, b))
      => Breaks(file', FALSE) + DeclaredBreaks(file', FALSE) = 1

\* A declaration bounds the verdict, it never repairs it: whatever is appended
\* after a log stopped being green, it is never green again.
AppendingNeverRepairs ==
  (/\ \/ \E b \in Content : Append1(b)
      \/ \E i \in 1..Len(file) : \E r \in {Genesis, TailChain(file, i-1)} : DeclareBreak(i, r)
      \/ \E p \in ForeignPieces : ForeignAppend(p)
   /\ RowCount(file) > 0 /\ Ok(file, FALSE) # "True")
     => Ok(file', FALSE) # "True"

\* Declaring a stray row the library appended nothing after, with the resume
\* point left out, removes exactly that break.
DeclaringExcuses ==
  \A i \in 1..Len(file) :
    (DeclareBreak(i, Genesis) /\ Stray(file, i, FALSE) /\ ~Excused(file, i)
       /\ LastRowIs(file, i, Len(file)))
      => /\ Breaks(file', FALSE) = Breaks(file, FALSE) - 1
         /\ Breaks(file', TRUE) >= Breaks(file, TRUE)

\* One step changes the verdict as far as it should and no further: an edit
\* makes one break, an append repairs none, a declaration excuses its own.
StepsAreJudged ==
  [][OneEditOneBreak /\ AppendingNeverRepairs /\ DeclaringExcuses]_vars
=============================================================================
