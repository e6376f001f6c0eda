------------------------------ MODULE Reconcile ------------------------------
(***************************************************************************)
(* Two tapes of one session, what can happen to the calls, to the rows and *)
(* to the files, and the verdict of reconcile() over what is left.         *)
(*                                                                         *)
(* The tapes are written as Seam shows: a row per call, numbered by its    *)
(* recorder.  A file is its rows with at most one damage; the chain after  *)
(* row m is the sequence of the rows up to m, and a pin is a chain.  The   *)
(* ghosts sent, wrote, mishaps and blame say what really happened.         *)
(***************************************************************************)
EXTENDS Integers, FiniteSetsExt, SequencesExt

CONSTANTS Requests, Answers, \* contents of a call, by their digests
          Garbled,           \* a request changed on its way
          Null,              \* no answer, or no side
          MaxSent,           \* bound on the calls of the session
          MaxMishaps         \* bound on the things that go wrong

Sides == {"agent", "tool"}
ASSUME NullIsNoSide == Null \notin Sides

Other(s) == IF s = "agent" THEN "tool" ELSE "agent"

VARIABLES tape,    \* side -> the rows of its file
          next,    \* side -> the index its recorder gives next
          damage,  \* side -> what reading the file meets [kind, line]
          given,   \* the two files named on the command line
          pins,    \* side -> the pin taken of its tape, or NoPin
          bySide,  \* whether a pin names its side or only a namespace
          sent,    \* the calls as the agent made them
          wrote,   \* side -> the rows its recorder wrote
          mishaps, \* how many things went wrong
          blame    \* the finding the first of them deserves

sessionVars == <<tape, next, damage, given, pins, bySide, sent, wrote, mishaps, blame>>

Row(k, req, resp) == [idx |-> k, req |-> req, resp |-> resp]
Finding(v, at, side) == [verdict |-> v, at |-> at, side |-> side]
Whole == [kind |-> "whole", line |-> 0]
NoPin == [rows |-> 0, chain |-> <<>>]

(***************************************************************************)
(* The verdict.                                                            *)
(***************************************************************************)
\* _load: a file that is gone or holds a row that is no tape row of its side
\* is refused, one that does not verify is a finding, and an empty one is read
\* without learning its side.
LoadTape(s) ==
  LET d == damage[s]
      known == IF \/ d.kind = "gone" \/ tape[s] = <<>>
                  \/ (d.kind = "alien" /\ d.line = 1) THEN Null ELSE s
  IN  [file |-> s, side |-> known,
       ns |-> IF d.kind = "edited" THEN Null ELSE known,
       rows |-> IF d.kind = "whole" THEN tape[s] ELSE <<>>,
       broken |-> d.kind = "edited", refused |-> d.kind \in {"gone", "alien"},
       found |-> IF d.kind = "edited" THEN <<Finding("ALTERED", d.line, s)>> ELSE <<>>]

Readable(t) == ~t.refused /\ ~t.broken

\* _walk_index: rows must be call 1, 2, 3 ... in file order.  The walk after
\* the first k rows.
Met(w, row, side) ==
  CASE row.idx = w.expect -> [w EXCEPT !.calls = Append(@, row), !.expect = @ + 1]
    [] row.idx > w.expect ->
         [w EXCEPT !.calls = Append(@, row), !.expect = row.idx + 1,
                   !.found = Append(@, Finding("MISSING", w.expect, side))]
    [] OTHER -> [w EXCEPT !.found = Append(@, Finding("ALTERED", row.idx, side))]

WalkIndex(t) ==
  LET walk[k \in 0..Len(t.rows)] == IF k = 0 THEN [calls |-> <<>>, expect |-> 1, found |-> <<>>]
                                    ELSE Met(walk[k-1], t.rows[k], t.side)
  IN  walk[Len(t.rows)]

\* Two rows with one request digest.
Compare(a, t) ==
  CASE a.resp = t.resp -> <<>>
    [] a.resp # t.resp /\ a.resp = Null -> <<Finding("MISSING", a.idx, "agent")>>
    [] a.resp # t.resp /\ t.resp = Null -> <<Finding("MISSING", a.idx, "tool")>>
    [] OTHER -> <<Finding("ALTERED", a.idx, Null)>>

\* How far after row n the request is found, if it is.
Ahead(S, n, req) == {d \in 1..Len(S)-n : S[n+d].req = req}

Both(w, f) == [w EXCEPT !.i = @ + 1, !.j = @ + 1, !.found = @ \o f]
Lone(a) == <<Finding("ALTERED", a.idx, Null)>>

\* Mutant of Turn: the walk by position, no looking ahead.
TurnByPosition(A, T, w) ==
  IF w.i > Len(A) \/ w.j > Len(T) THEN w
  ELSE Both(w, IF A[w.i].req = T[w.j].req THEN Compare(A[w.i], T[w.j]) ELSE Lone(A[w.i]))

\* _align, one turn of the walk: each side numbers its own calls, so a call with
\* no partner in front of it is looked for further on, and the nearer partner wins.
Turn(A, T, w) ==
  LET a == A[w.i]
      t == T[w.j]
      da == Ahead(A, w.i, t.req)
      dt == Ahead(T, w.j, a.req)
  IN  IF w.i > Len(A) \/ w.j > Len(T) THEN w
      ELSE CASE a.req = t.req -> Both(w, Compare(a, t))
             [] a.req # t.req /\ da = {} /\ dt = {} -> Both(w, Lone(a))
             [] a.req # t.req /\ da # {} /\ (dt = {} \/ Min(da) <= Min(dt)) ->
                  [w EXCEPT !.onlyA = @ \o SubSeq(A, w.i, w.i + Min(da) - 1), !.i = @ + Min(da)]
             [] OTHER ->
                  [w EXCEPT !.onlyT = @ \o SubSeq(T, w.j, w.j + Min(dt) - 1), !.j = @ + Min(dt)]

\* The walk after k turns; each of them goes on at least one row.
Pair(A, T) ==
  LET turns == Len(A) + Len(T)
      start == [i |-> 1, j |-> 1, found |-> <<>>, onlyA |-> <<>>, onlyT |-> <<>>]
      walk[k \in 0..turns] == IF k = 0 THEN start ELSE Turn(A, T, walk[k-1])
      w == walk[turns]
  IN  [w EXCEPT !.onlyA = @ \o SubSeq(A, w.i, Len(A)), !.onlyT = @ \o SubSeq(T, w.j, Len(T))]

\* _align, the rest: a call left on both sides was moved, one left on a single
\* side is missing from the other.
Move(w, x) ==
  LET ys == {j \in DOMAIN w.onlyT : w.onlyT[j].req = x.req}
  IN  IF ys = {} THEN [w EXCEPT !.onlyA = Append(@, x)]
      ELSE [w EXCEPT !.onlyT = RemoveAt(@, Min(ys)),
                     !.found = Append(@, Finding("ALTERED", x.idx, Null))]
Gone(S, side) == [k \in DOMAIN S |-> Finding("MISSING", S[k].idx, side)]

Align(A, T) ==
  LET p == Pair(A, T)
      moved[k \in 0..Len(p.onlyA)] == IF k = 0 THEN [p EXCEPT !.onlyA = <<>>]
                                      ELSE Move(moved[k-1], p.onlyA[k])
      m == moved[Len(p.onlyA)]
  IN  m.found \o Gone(m.onlyA, "tool") \o Gone(m.onlyT, "agent")

\* _pin_targets: which of the two files a pin of a side is held against, by the
\* side the pin names, else by its namespace, else both.
PinTargets(s, tapes) ==
  LET ofSide(side) == {k \in 1..2 : tapes[k].side = side}
      ofNs == {k \in 1..2 : tapes[k].ns = s}
  IN  IF bySide THEN IF ofSide(s) # {} THEN ofSide(s) ELSE ofSide(Null)
                ELSE IF ofNs # {} THEN ofNs ELSE 1..2

\* Mutant of CheckPin: a tape shorter than its pin is compared as far as it goes.
CheckPinPrefix(pin, t) ==
  IF Readable(t) /\ ~IsPrefix(t.rows, pin.chain) /\ ~IsPrefix(pin.chain, t.rows)
  THEN <<Finding("ALTERED", pin.rows, t.side)>> ELSE <<>>

\* _check_pin.  A refused tape leaves the pin unchecked; a broken one has its
\* finding already.
CheckPin(pin, t) ==
  CASE t.refused \/ t.broken -> <<>>
    [] Readable(t) /\ Len(t.rows) < pin.rows ->
         <<Finding("MISSING", Len(t.rows) + 1, t.side)>>
    [] Readable(t) /\ Len(t.rows) >= pin.rows /\ SubSeq(t.rows, 1, pin.rows) # pin.chain ->
         <<Finding("ALTERED", pin.rows, t.side)>>
    [] OTHER -> <<>>

\* Every pin against every tape it is held against.
Checked(s, tapes) ==
  LET on(k) == IF pins[s] = NoPin \/ k \notin PinTargets(s, tapes) THEN <<>>
               ELSE CheckPin(pins[s], tapes[k])
  IN  on(1) \o on(2)

\* _headline: the earliest call, ALTERED before MISSING, the first one found;
\* both sides when its twins name both.
Before(f, g) == f.at < g.at \/ (f.at = g.at /\ f.verdict = "ALTERED" /\ g.verdict # "ALTERED")
Headline(found) ==
  LET first == found[Min({k \in DOMAIN found :
                            \A j \in DOMAIN found : ~Before(found[j], found[k])})]
      twins == {f.side : f \in {f \in ToSet(found) : f.verdict = first.verdict /\ f.at = first.at}}
  IN  IF Sides \subseteq twins THEN [first EXCEPT !.side = "both"] ELSE first

CouldNotLook == Finding("COULD_NOT_LOOK", 0, Null)
Matched == Finding("MATCHED", 0, Null)

\* An empty tape is the side the other one is not.
Named(t, o) == IF Readable(t) /\ Readable(o) /\ t.side = Null /\ o.side # Null
               THEN [t EXCEPT !.side = Other(o.side)] ELSE t
CanAlign(t1, t2) == /\ Readable(t1) /\ Readable(t2)
                    /\ t1.side = Null \/ t1.side # t2.side
                    /\ t1.rows # <<>> \/ t2.rows # <<>>

Walked(t) == IF Readable(t) THEN WalkIndex(t) ELSE [calls |-> <<>>, expect |-> 1, found |-> <<>>]

Found(t1, t2) ==
  LET tapes == <<Named(t1, t2), Named(t2, t1)>>
      calls(s) == IF tapes[1].side = s THEN Walked(t1).calls ELSE Walked(t2).calls
  IN  t1.found \o t2.found \o Walked(t1).found \o Walked(t2).found
      \o (IF CanAlign(t1, t2) THEN Align(calls("agent"), calls("tool")) ELSE <<>>)
      \o Checked("agent", tapes) \o Checked("tool", tapes)

\* _reconcile.
Reconciled ==
  LET t1 == LoadTape(given[1])
      t2 == LoadTape(given[2])
      found == Found(t1, t2)
  IN  CASE found # <<>> -> Headline(found)
        [] found = <<>> /\ (t1.refused \/ t2.refused \/ ~CanAlign(t1, t2)) -> CouldNotLook
        [] OTHER -> Matched

(***************************************************************************)
(* The session.                                                            *)
(***************************************************************************)
SessionInit ==
  /\ tape = [s \in Sides |-> <<>>] /\ wrote = [s \in Sides |-> <<>>]
  /\ next = [s \in Sides |-> 1] /\ damage = [s \in Sides |-> Whole]
  /\ given \in {<<"agent", "tool">>, <<"tool", "agent">>}
  /\ pins = [s \in Sides |-> NoPin]
  /\ bySide = (given[1] = "agent")   \* bound: one kind of pin with each order of the files
  /\ sent = <<>> /\ mishaps = 0 /\ blame = Matched

Undamaged == damage = [s \in Sides |-> Whole] /\ tape = wrote

\* Something goes wrong; f is what reconcile ought to say if nothing else does.
Mishap(f) == mishaps < MaxMishaps /\ mishaps' = mishaps + 1 /\ blame' = f
Fine == UNCHANGED <<mishaps, blame>>

\* Both recorders after one or more calls: the rows each of them writes.
Record(asked, rows) ==
  /\ Undamaged /\ Len(sent) + Len(asked) <= MaxSent
  /\ sent' = sent \o asked
  /\ tape' = [s \in Sides |-> tape[s] \o rows[s]] /\ wrote' = tape'
  /\ UNCHANGED <<damage, given, pins, bySide>>
Counted(a, t) == next' = [agent |-> next.agent + a, tool |-> next.tool + t]
Calls2(as, ts) == [agent |-> as, tool |-> ts]
AgentRow(d, req, resp) == Row(next.agent + d, req, resp)
ToolRow(d, req, resp) == Row(next.tool + d, req, resp)

Delivered(q, x) ==
  /\ Record(<<q>>, Calls2(<<AgentRow(0, q, x)>>, <<ToolRow(0, q, x)>>))
  /\ Counted(1, 1) /\ Fine

RequestLost(q) == /\ Record(<<q>>, Calls2(<<AgentRow(0, q, Null)>>, <<>>))
                  /\ Counted(1, 0) /\ Mishap(Finding("MISSING", next.agent, "tool"))

AnswerLost(q, x) ==
  /\ Record(<<q>>, Calls2(<<AgentRow(0, q, Null)>>, <<ToolRow(0, q, x)>>))
  /\ Counted(1, 1) /\ Mishap(Finding("MISSING", next.agent, "agent"))

RequestAltered(q, x) ==
  /\ Record(<<q>>, Calls2(<<AgentRow(0, q, x)>>, <<ToolRow(0, Garbled, x)>>))
  /\ Counted(1, 1) /\ Mishap(Finding("ALTERED", next.agent, Null))

AnswerAltered(q, x, y) ==
  /\ x # y
  /\ Record(<<q>>, Calls2(<<AgentRow(0, q, x)>>, <<ToolRow(0, q, y)>>))
  /\ Counted(1, 1) /\ Mishap(Finding("ALTERED", next.agent, Null))

DeliveredTwice(q, x) ==
  /\ Record(<<q>>, Calls2(<<AgentRow(0, q, x)>>, <<ToolRow(0, q, x), ToolRow(1, q, x)>>))
  /\ Counted(1, 2) /\ Mishap(Finding("MISSING", next.tool + 1, "agent"))

\* The index was given and the row could not be written.
RowLost(q, x, s) ==
  /\ Record(<<q>>, IF s = "agent" THEN Calls2(<<>>, <<ToolRow(0, q, x)>>)
                                  ELSE Calls2(<<AgentRow(0, q, x)>>, <<>>))
  /\ Counted(1, 1) /\ Mishap(Finding("MISSING", next[s], s))

\* Two calls at once reach the tool in the other order.
Crossed(q, r, x, y) ==
  /\ q # r
  /\ Record(<<q, r>>, Calls2(<<AgentRow(0, q, x), AgentRow(1, r, y)>>,
                             <<ToolRow(0, r, y), ToolRow(1, q, x)>>))
  /\ Counted(2, 2) /\ Mishap(Finding("ALTERED", next.agent, Null))

\* A side's head is pinned while its tape is as it was written.
TakePin(s) == /\ Undamaged /\ tape[s] # <<>>
              /\ pins' = [pins EXCEPT ![s] = [rows |-> Len(tape[s]), chain |-> tape[s]]]
              /\ UNCHANGED <<tape, next, damage, given, bySide, sent, wrote>> /\ Fine

(***************************************************************************)
(* The files afterwards.                                                   *)
(***************************************************************************)
KeptAs == UNCHANGED <<next, pins, bySide, sent, wrote>>

\* The last rows are gone; what is left verifies.
CutTail(s, n) == /\ damage[s] = Whole /\ n < Len(tape[s])
                 /\ tape' = [tape EXCEPT ![s] = SubSeq(@, 1, n)]
                 /\ Mishap(Finding("MISSING", n + 1, s))
                 /\ KeptAs /\ UNCHANGED <<damage, given>>

\* A row rewritten and the chain minted again behind it: the file verifies.
Remint(s, n, x) == /\ damage[s] = Whole /\ tape[s][n].resp \notin {x, Null}
                   /\ tape' = [tape EXCEPT ![s][n].resp = x]
                   /\ Mishap(Finding("ALTERED", tape[s][n].idx, Null))
                   /\ KeptAs /\ UNCHANGED <<damage, given>>

\* The file does not verify at a line, is gone, or has an alien row there.
Harm(s, kind, n) == /\ damage[s] = Whole
                    /\ damage' = [damage EXCEPT ![s] = [kind |-> kind, line |-> n]]
                    /\ Mishap(IF kind = "edited" THEN Finding("ALTERED", n, s)
                                                 ELSE CouldNotLook)
                    /\ KeptAs /\ UNCHANGED <<tape, given>>

\* One of the two files is named twice.
NamedTwice(s) == /\ given[1] # given[2] /\ Len(sent) > 0
                 /\ given' = <<s, s>> /\ Mishap(CouldNotLook)
                 /\ KeptAs /\ UNCHANGED <<tape, damage>>

Session == \E q \in Requests, x \in Answers :
             \/ Delivered(q, x) \/ RequestLost(q) \/ AnswerLost(q, x)
             \/ RequestAltered(q, x) \/ DeliveredTwice(q, x)
             \/ \E y \in Answers : AnswerAltered(q, x, y)
             \/ \E s \in Sides : RowLost(q, x, s)
             \/ \E r \in Requests, y \in Answers : Crossed(q, r, x, y)

Afterwards == \E s \in Sides :
                \/ \E n \in 0..Len(tape[s]) : CutTail(s, n)
                \/ \E n \in 1..Len(tape[s]), x \in Answers : Remint(s, n, x)
                \/ \E n \in 1..Len(tape[s]), k \in {"edited", "alien"} : Harm(s, k, n)
                \/ Harm(s, "gone", 1)
                \/ NamedTwice(s)

SessionNext == Session \/ (\E s \in Sides : TakePin(s)) \/ Afterwards

SessionSpec == SessionInit /\ [][SessionNext]_sessionVars

(***************************************************************************)
(* What must hold.                                                         *)
(***************************************************************************)
Shown(s) == [k \in DOMAIN tape[s] |-> [req |-> tape[s][k].req, resp |-> tape[s][k].resp]]

\* MATCHED is never said of tapes that differ in a call or in its order, of a
\* recorder that lost a row, or of a tape that lost or changed a row it was
\* pinned with: what two tapes rewritten in agreement can still hide is what
\* was written after the last pin.
MatchedIsTrue ==
  Reconciled = Matched =>
    /\ given[1] # given[2] /\ damage = [s \in Sides |-> Whole]
    /\ Shown("agent") = Shown("tool")
    /\ \A s \in Sides : /\ IsPrefix(pins[s].chain, wrote[s])
                        /\ IsPrefix(pins[s].chain, tape[s])
                        /\ \A k \in DOMAIN tape[s] : tape[s][k].idx = k

\* Nothing is said against a session in which nothing went wrong, wherever the
\* pins were taken and whichever tape is named first; only tapes that are both
\* empty are no comparison.  When one thing went wrong, reconcile says which call
\* it hit, whether it is missing or altered, and on whose tape, although each
\* side numbers its own calls.  Of calls with one request content it cannot know
\* which one is gone; and a pin that names only the namespace of a tape that no
\* longer verifies is held against the other tape too, and may find that one
\* altered instead.
FaultIsNamed ==
  (\/ mishaps = 0
   \/ /\ mishaps = 1 /\ IsInjective(sent)
      /\ \A s \in Sides : damage[s].kind = "edited" => bySide \/ pins[s] = NoPin)
     => Reconciled = IF sent = <<>> THEN CouldNotLook ELSE blame
=============================================================================
