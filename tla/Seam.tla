---------------------------------- MODULE Seam ----------------------------------
(***************************************************************************)
(* The seam: a recorder between an agent and a tool server that forwards   *)
(* every frame, rows every tools/call it saw with the answer it got, keeps *)
(* a tape of the calls in call order, and under --mandate-enforce holds    *)
(* back what its mandate does not allow.  Three transports share the       *)
(* observer, the tape and the gate: "pipe" (proxy.py, one thread each      *)
(* way), "http" (http_forward.py, one thread per exchange) and "call"      *)
(* (receipt/call_proxy.py, the seller's side, one thread per exchange).    *)
(* Source: src/src/arcaeon/record/adapter/ and record/receipt/.            *)
(*                                                                         *)
(* A frame is worked through by a script of steps; the script of each      *)
(* transport is the order in which its handler writes, observes and        *)
(* judges.  Digests and texts are left out: a row names its call and the   *)
(* answer it was paired with.                                              *)
(***************************************************************************)
EXTENDS Naturals, Sequences, FiniteSets, SequencesExt, FiniteSetsExt

CONSTANTS Setups,     \* a transport and a mode, of "pipe", "http", "call"; "none", "record", "enforce"
          Kinds,      \* the calls an agent makes: an id, an act and its cost
          BadId,      \* an id that is not a string, a number or null
          Frames,     \* the sizes of the frames it sends
          Cap,        \* the mandate's spend_cap.total
          MaxCalls, MaxSessions,   \* bounds
          MaxBreaks   \* bound: writes that fail, a broken pipe, answers not read, edits of the mandate

ASSUME BoundsAssumption == /\ MaxCalls \in Nat /\ MaxBreaks \in Nat
                           /\ MaxSessions \in [{"pipe", "http", "call"} -> Nat] /\ Cap \in Nat
ASSUME KindsAssumption == \A k \in Kinds : /\ k.act \in {"free", "forbidden", "spend"}
                                           /\ k.cost \in Nat /\ (k.cost = 0 <=> k.act # "spend")
ASSUME SetupsAssumption == Setups \subseteq {"pipe", "http", "call"} \X {"none", "record", "enforce"}
ASSUME FramesAssumption == Frames \subseteq Nat \ {0}

VARIABLES transport, mode,  \* how this recorder was started
          calls,    \* the calls sent, each with its frame
          script,   \* what the handler of each frame has yet to do
          verdict,  \* what the gate said of each call, "none" before it was judged
          reply,    \* each call's answer: none, asked, relayed, lost, refused by the gate, or
                    \* unread: it came in a form the recorder cannot read and goes on like any other
          down,     \* the answer the downstream thread has relayed and not observed, or 0
          pending,  \* the open calls, oldest first
          tape,     \* the call of each index, its end, the last one committed, the indices in the file
          rows,     \* the seam log
          unlogged, \* rows that could not be written
          spent,    \* MandateGate.spent, the session's running spend
          mandate,  \* the mandate file's version, and the one its watch saw last
          phase,    \* where the session is in its life
          session,  \* the calls sent before it began, those after its end was called for, whether it was drained
          used      \* counters of the bounds

vars == <<transport, mode, calls, script, verdict, reply, down, pending, tape, rows, unlogged,
          spent, mandate, phase, session, used>>
log == <<rows, unlogged>>
setup == <<transport, mode>>
gate == <<spent, mandate>>

Call == DOMAIN calls
CallsOf(f) == {c \in Call : calls[c].frame = f}
InOrder(S) == [n \in 1..Cardinality(S) |-> CHOOSE x \in S : Cardinality({y \in S : y < x}) = n - 1]

(***************************************************************************)
(* Scripts.                                                                *)
(***************************************************************************)
All(op, S) == <<[op |-> op, of |-> S]>>
Each(op, S) == [i \in 1..Cardinality(S) |-> [op |-> op, of |-> {InOrder(S)[i]}]]
Watch(S) == IF transport = "pipe"   \* one message at a time, or the whole body
            THEN [i \in 1..2*Cardinality(S) |-> [op |-> IF i % 2 = 1 THEN "judge" ELSE "record",
                                                 of |-> {InOrder(S)[(i + 1) \div 2]}]]
            ELSE All("judge", S) \o Each("record", S)
Watched(S) == IF mode = "record" THEN Watch(S) ELSE <<>>

\* What a handler does with a frame it has read, up to a verdict under enforce.
Script(S) ==
    CASE mode = "enforce"    -> All("judge", S)
      [] mode # "enforce" /\ transport = "pipe" -> All("write", S) \o Each("open", S) \o Watched(S)
      [] mode # "enforce" /\ transport = "http" ->
             All("write", S) \o Each("open", S) \o Watched(S) \o All("answer", S)
      [] mode # "enforce" /\ transport = "call" -> Each("open", S) \o All("write", S) \o All("answer", S)

\* The frame is inside the mandate and goes on.
Passed(S) ==
    CASE transport = "pipe" -> All("write", S) \o Each("record", S) \o Each("open", S)
      [] transport = "http" -> Each("record", S) \o All("write", S) \o Each("open", S) \o All("answer", S)
      [] transport = "call" -> Each("record", S) \o Each("open", S) \o All("write", S) \o All("answer", S)

\* A mutant of Held: the attempt is not opened, only answered.
HeldUnopened(S) ==
    Each("refuse", S) \o All("inject", {c \in S : calls[c].id # BadId})
\* One call of it is not, and the agent is answered by the recorder itself.
Held(S) ==
    LET valid == {c \in S : calls[c].id # BadId}
    IN  Each("refuse", S)
        \o (IF transport = "call" THEN All("inject", valid)
            ELSE Each("open", S) \o All("inject", valid) \o Each("pair", valid))

\* Answers on their way to the agent, if there are any.
ToAgent(op, a) == IF a = {} THEN <<>> ELSE All(op, a)
\* The upstream's response carries the answers a, which all go to the agent; the recorder
\* pairs those it can read, and leaves the rest of S open or not (a 202).
Answered(S, a, read, left) ==
    LET shut == IF left THEN <<>> ELSE Each("close", S)
        out == ToAgent("relay", read) \o ToAgent("pass", a \ read)
    IN  IF transport = "http" THEN out \o Each("pair", read) \o shut
        ELSE Each("pair", read) \o shut \o Watched(S) \o out

Op(f) == Head(script[f]).op
Of(f) == Head(script[f]).of
One(f) == CHOOSE c \in Of(f) : TRUE
\* The up thread of a pipe takes its frames one after another.
AtHead(f, op) == /\ script[f] # <<>> /\ Op(f) = op
                 /\ transport = "pipe" => \A g \in 1..(f - 1) : script[g] = <<>>
                 /\ phase \notin {"dead"}
                 /\ phase = "ended" => transport # "pipe"
\* The thread of a pipe that reads from the agent is gone, and what it had to do with it.
UpIsGone == script' = [g \in DOMAIN script |-> All("gone", {})]
Go(f, s) == script' = [script EXCEPT ![f] = s]
Next1(f) == Go(f, Tail(script[f]))
Without(s, ops) == LET kept == InOrder({i \in DOMAIN s : s[i].op \notin ops})
                   IN  [n \in DOMAIN kept |-> s[kept[n]]]

\* A mutant of Deaf: deaf as soon as close() is called.
DeafAtOnce == transport = "http" /\ phase # "running"
\* ForwardServer._ended: what a handler observes from now on is dropped.
Deaf == transport = "http" /\ phase \in {"flushing", "flushed", "ended"}
\* A mutant of DeafGate: the gate stops judging when the session is called to its end.
DeafGateAtOnce == phase # "running"
\* mandate_blocks and the two observers of the gate return at once.
DeafGate == Deaf \/ (transport = "call" /\ mode = "record" /\ phase = "ended")

(***************************************************************************)
(* SeamObserver._row and the tape.                                         *)
(***************************************************************************)
Row(evt, c, a) == [evt |-> evt, call |-> c, answer |-> a]
\* What a step's writes meet: nothing, a log that takes no row, or a tape that takes none.
Lucks == {"fine", "no log", "no tape"}
Lost(t) == t.done - Len(t.file)
Broke == used.breaks < MaxBreaks /\ used' = [used EXCEPT !.breaks = @ + 1]
Met(luck) == IF luck = "fine" THEN UNCHANGED used
             ELSE /\ Broke
                  /\ IF luck = "no log" THEN unlogged' > unlogged ELSE Lost(tape') > Lost(tape)
Logged(new, luck) == IF luck # "no log" THEN rows' = rows \o new /\ UNCHANGED unlogged
                     ELSE unlogged' = unlogged + Len(new) /\ UNCHANGED rows

\* How a call ended: an answer of the server or of the gate, or no answer.
None(word) == [by |-> 0, word |-> word]
By(c) == [by |-> c, word |-> IF reply[c] = "refused" THEN "refused" ELSE "answered"]
Open == None("open")

\* A mutant of Drained: a row leaves as soon as it is finished.
DrainedAtOnce(t, luck) ==
    LET ready == {k \in DOMAIN t.end : t.end[k] # Open} \ Range(t.file)
    IN  [t EXCEPT !.file = IF luck = "no tape" THEN @ ELSE @ \o InOrder(ready),
                  !.done = Cardinality({k \in DOMAIN t.end : t.end[k] # Open})]
\* TapeWriter._drain: rows leave in index order; one that cannot be written is skipped.
Drained(t, luck) ==
    LET last == Max({t.done} \cup {k \in t.done + 1 .. Len(t.end) :
                                     \A j \in t.done + 1 .. k : t.end[j] # Open})
    IN  [t EXCEPT !.done = last,
                  !.file = IF luck = "no tape" THEN @
                           ELSE @ \o [i \in 1 .. last - t.done |-> t.done + i]]
TapeOpen(t, c, end, luck) == Drained([t EXCEPT !.call = Append(@, c), !.end = Append(@, end)], luck)
TapeClose(t, c, end, luck) ==
    Drained([t EXCEPT !.end = [k \in DOMAIN @ |-> IF t.call[k] = c /\ @[k] = Open THEN end ELSE @[k]]], luck)
TapeFlush(t, luck) == Drained([t EXCEPT !.end = [k \in DOMAIN @ |-> IF @[k] = Open THEN None("unanswered")
                                                              ELSE @[k]]], luck)

(***************************************************************************)
(* The agent, the server and the files.                                    *)
(***************************************************************************)
Init == /\ \E s \in Setups : transport = s[1] /\ mode = s[2]
        /\ calls = <<>> /\ script = <<>> /\ verdict = <<>> /\ reply = <<>>
        /\ down = 0 /\ pending = <<>>
        /\ tape = [call |-> <<>>, end |-> <<>>, done |-> 0, file |-> <<>>]
        /\ rows = <<>> /\ unlogged = 0
        /\ spent = 0 /\ mandate = [file |-> 0, seen |-> 0]
        /\ phase = "running"
        /\ session = [before |-> 0, late |-> {}, drained |-> FALSE]
        /\ used = [breaks |-> 0, sessions |-> 1]

Send(kinds) ==
    LET f == Len(script) + 1
        S == Len(calls) + 1 .. Len(calls) + Len(kinds)
    IN  /\ Len(calls) + Len(kinds) <= MaxCalls /\ phase # "dead"
        /\ transport = "pipe" => phase # "ended"
        /\ calls' = calls \o [i \in 1..Len(kinds) |->
                      [id |-> kinds[i].id, act |-> kinds[i].act, cost |-> kinds[i].cost, frame |-> f]]
        /\ script' = Append(script, Script(S))
        /\ verdict' = verdict \o [i \in 1..Len(kinds) |-> "none"]
        /\ reply' = reply \o [i \in 1..Len(kinds) |-> "none"]
        /\ session' = IF phase = "running" THEN session
                      ELSE [session EXCEPT !.late = @ \cup S]
        /\ UNCHANGED <<setup, down, pending, tape, log, gate, used, phase>>

(***************************************************************************)
(* The gate.                                                               *)
(***************************************************************************)
\* A mutant of Detail: a spend is held against the total alone.
DetailAlone(c) == IF calls[c].act = "forbidden" \/ (calls[c].act = "spend" /\ calls[c].cost > Cap)
                  THEN "outside" ELSE "inside"
\* MandateGate.detail on the mandate loaded at the start.
Detail(c) == CASE calls[c].act = "forbidden" -> "outside"
               [] calls[c].act = "spend" /\ spent + calls[c].cost > Cap -> "outside"
               [] OTHER -> "inside"

\* Somebody edits the mandate file; where no frame is to be judged next it makes no difference.
EditMandate ==
    /\ \E f \in DOMAIN script : AtHead(f, "judge")
    /\ Broke
    /\ mandate' = [mandate EXCEPT !.file = @ + 1]
    /\ UNCHANGED <<setup, calls, script, verdict, reply, down, pending, tape, log, spent, phase, session>>

\* _MandateWatch.check_file: a change is rowed, and the mandate loaded at the start stays.
CheckFile(f, luck) ==
    LET moved == mandate.file # mandate.seen
    IN  /\ mandate' = [mandate EXCEPT !.seen = mandate.file]
        /\ Logged(IF moved THEN <<Row("mandate_changed", Min(Of(f)), None("moved"))>> ELSE <<>>, luck)

\* _MandateWatch.judge, of the calls of a frame or of one message.
Judge(f, luck) ==
    /\ AtHead(f, "judge")
    /\ IF DeafGate THEN UNCHANGED <<mandate, log>> ELSE CheckFile(f, luck)
    /\ LET new == [c \in Call |-> IF c \in Of(f) THEN Detail(c) ELSE verdict[c]]
           inside == \A c \in Of(f) : new[c] = "inside"
       IN  IF DeafGate
           THEN /\ UNCHANGED verdict
                /\ Go(f, IF mode = "enforce" THEN Without(Passed(Of(f)), {"record"})
                                             ELSE Without(script[f], {"judge", "record"}))
           ELSE /\ verdict' = new
                /\ Go(f, IF mode # "enforce" THEN Tail(script[f])
                         ELSE IF inside THEN Passed(Of(f)) ELSE Held(Of(f)))
    /\ UNCHANGED <<setup, calls, reply, down, pending, tape, spent, phase, session>>
    /\ Met(luck)

\* _MandateWatch.record: a forwarded spend counts, and only an inside call has no row.
\* Where the row cannot be written the exception ends what called it: the up thread and
\* all it would have read, the exchange, or no more than the judging.
Record(f, op, luck) ==
    LET c == One(f)
        outside == verdict[c] # "inside"
        fails == outside /\ luck = "no log"
    IN  /\ AtHead(f, op)
        /\ spent' = IF op = "record" THEN spent + calls[c].cost ELSE spent
        /\ IF outside THEN Logged(<<Row("mandate_outside", c, None(op))>>, luck) ELSE UNCHANGED log
        /\ IF ~fails THEN Next1(f)
           ELSE IF mode = "record" THEN Go(f, Without(script[f], {"judge", "record"}))
           ELSE IF transport = "pipe" THEN UpIsGone ELSE Go(f, <<>>)
        /\ UNCHANGED <<setup, calls, verdict, reply, down, pending, tape, mandate, phase, session>>
        /\ Met(luck)

\* The recorder's own answer to a frame it holds back.
Inject(f) == /\ AtHead(f, "inject")
             /\ reply' = [c \in Call |-> IF c \in Of(f) THEN "refused" ELSE reply[c]]
             /\ Next1(f)
             /\ UNCHANGED <<setup, calls, verdict, down, pending, tape, log, gate, used, phase, session>>

(***************************************************************************)
(* Forwarding and observing.                                               *)
(***************************************************************************)
Write(f) == /\ AtHead(f, "write")
            /\ reply' = [c \in Call |-> IF c \in Of(f) THEN "asked" ELSE reply[c]]
            /\ Next1(f)
            /\ UNCHANGED <<setup, calls, verdict, down, pending, tape, log, gate, used, phase, session>>

\* The child is gone and its pipe is broken: the up thread ends with the frame in its
\* hand, which it neither observes nor rows (counted in relay_errors).
BreakPipe(f) ==
    /\ AtHead(f, "write") /\ transport = "pipe" /\ phase # "running"
    /\ UpIsGone /\ Broke
    /\ UNCHANGED <<setup, calls, verdict, reply, down, pending, tape, log, gate, phase, session>>

\* observe_client_frame, one message of it; _invalid_call for an id that is none.
OpenCall(f, luck) ==
    LET c == One(f)
        invalid == calls[c].id = BadId
    IN  /\ AtHead(f, "open")
        /\ IF Deaf THEN /\ Go(f, Without(script[f], {"open", "close"}))
                        /\ UNCHANGED <<pending, tape, log>>
           ELSE /\ tape' = TapeOpen(tape, c, IF invalid THEN None("invalid_id") ELSE Open, luck)
                /\ pending' = IF invalid THEN pending ELSE Append(pending, c)
                /\ IF invalid /\ transport # "call"
                   THEN Logged(<<Row("tool_call", c, None("invalid_id"))>>, luck) ELSE UNCHANGED log
                /\ Go(f, IF invalid /\ transport # "call" /\ luck = "no log"
                         THEN Without(script[f], {"open", "close"}) ELSE Tail(script[f]))
        /\ UNCHANGED <<setup, calls, verdict, reply, down, gate, phase, session>>
        /\ Met(luck)

\* A mutant of Observe: the oldest open call, whatever its id.
ObserveAnyId(c, luck) ==
    IF Deaf \/ pending = <<>> THEN UNCHANGED <<pending, tape, log>>
    ELSE /\ pending' = Tail(pending)
         /\ tape' = TapeClose(tape, Head(pending), By(c), luck)
         /\ IF transport = "call" THEN UNCHANGED log
            ELSE Logged(<<Row("tool_call", Head(pending), By(c))>>, luck)
\* observe_server_frame: the answer c closes the oldest open call of its id.
Observe(c, luck) ==
    LET same == {i \in DOMAIN pending : calls[pending[i]].id = calls[c].id}
        i == Min(same)
    IN  IF Deaf \/ same = {} THEN UNCHANGED <<pending, tape, log>>
        ELSE /\ pending' = RemoveAt(pending, i)
             /\ tape' = TapeClose(tape, pending[i], By(c), luck)
             /\ IF transport = "call" THEN UNCHANGED log
                ELSE Logged(<<Row("tool_call", pending[i], By(c))>>, luck)

Pair(f, luck) ==
    /\ AtHead(f, "pair")
    /\ Observe(One(f), luck) /\ Next1(f)
    /\ UNCHANGED <<setup, calls, verdict, reply, down, gate, phase, session>>
    /\ Met(luck)

\* The upstream's response: the answers it carries, or none when it could not be reached.
\* A body of an unknown coding, over max_frame or broken off is not read, an SSE event by event.
Respond(f, a, read, left) ==
    /\ AtHead(f, "answer") /\ a \subseteq Of(f) /\ read \subseteq a
    /\ \A c \in a : reply[c] = "asked" /\ calls[c].id # BadId
    /\ IF read = a THEN UNCHANGED used ELSE Broke
    /\ Go(f, Answered(Of(f), a, read, left))
    /\ UNCHANGED <<setup, calls, verdict, reply, down, pending, tape, log, gate, phase, session>>

Relay(f) == /\ AtHead(f, "relay")
            /\ reply' = [c \in Call |-> IF c \in Of(f) THEN "relayed" ELSE reply[c]]
            /\ Next1(f)
            /\ UNCHANGED <<setup, calls, verdict, down, pending, tape, log, gate, used, phase, session>>

\* The answers it cannot read go on like any other.
Pass(f) == /\ AtHead(f, "pass")
           /\ reply' = [c \in Call |-> IF c \in Of(f) THEN "unread" ELSE reply[c]]
           /\ Next1(f)
           /\ UNCHANGED <<setup, calls, verdict, down, pending, tape, log, gate, used, phase, session>>

\* close_unanswered, one handle of it: the call is closed if it is still open.
CloseCall(f, luck) ==
    LET c == One(f)
        still == {i \in DOMAIN pending : pending[i] = c}
    IN  /\ AtHead(f, "close")
        /\ IF Deaf \/ still = {}
           THEN UNCHANGED <<pending, tape, log>> /\ Next1(f)
           ELSE /\ pending' = RemoveAt(pending, Min(still))
                /\ tape' = TapeClose(tape, c, None("unanswered"), luck)
                /\ IF transport = "call" THEN UNCHANGED log
                   ELSE Logged(<<Row("tool_call", c, None("unanswered"))>>, luck)
                /\ Go(f, IF transport # "call" /\ luck = "no log" THEN Without(script[f], {"close"})
                                                         ELSE Tail(script[f]))
        /\ UNCHANGED <<setup, calls, verdict, reply, down, gate, phase, session>>
        /\ Met(luck)

\* The thread of the server's side of a pipe, or of the stream that carries what a 202
\* left open: it writes to the agent and observes afterwards what it can read, a call
\* proxy the other way.
DownRelay(c, read) ==
    /\ down = 0 /\ reply[c] = "asked" /\ calls[c].id # BadId
    /\ phase # "dead" /\ ~session.drained
    /\ transport = "pipe" => phase # "ended"
    /\ transport # "pipe" => script[calls[c].frame] = <<>> /\ \E i \in DOMAIN pending : pending[i] = c
    /\ down' = IF read THEN c ELSE 0
    /\ reply' = [reply EXCEPT ![c] = IF read THEN "relayed" ELSE "unread"]
    /\ IF read THEN UNCHANGED used ELSE Broke
    /\ UNCHANGED <<setup, calls, script, verdict, pending, tape, log, gate, phase, session>>

DownObserve(luck) ==
    /\ down # 0 /\ phase # "dead" /\ (transport = "pipe" => phase # "ended")
    /\ Observe(down, luck) /\ down' = 0
    /\ UNCHANGED <<setup, calls, script, verdict, reply, gate, phase, session>>
    /\ Met(luck)

(***************************************************************************)
(* The end of a session, and the next one.                                 *)
(***************************************************************************)
\* The child exits, or close() is called: from here the threads are waited for, for a while.
Stop == /\ phase = "running" /\ phase' = "stopping"
        /\ UNCHANGED <<setup, calls, script, verdict, reply, down, pending, tape, log, gate, used, session>>

Quiet == down = 0 /\ \A f \in DOMAIN script : script[f] = <<>>
\* The wait is over, because they are done or because it timed out.
Waited == /\ phase = "stopping" /\ phase' = "flushing"
          /\ session' = [session EXCEPT !.drained = Quiet]
          /\ UNCHANGED <<setup, calls, script, verdict, reply, down, pending, tape, log, gate, used>>

\* flush_pending, under the observer's lock; a row that cannot be written ends the proxy.
FlushPending(luck) ==
    /\ phase = "flushing"
    /\ IF transport = "call" THEN UNCHANGED <<pending, log>> /\ phase' = "flushed"
       ELSE LET late == [i \in DOMAIN pending |-> Row("tool_call", pending[i], None("unanswered"))]
                fails == late # <<>> /\ luck = "no log"
            IN  /\ pending' = <<>>
                /\ Logged(IF fails THEN <<Head(late)>> ELSE late, luck)
                /\ phase' = IF fails THEN "dead" ELSE "flushed"
    /\ UNCHANGED <<setup, calls, script, verdict, reply, down, tape, gate, session>>
    /\ Met(luck)

FlushTape(luck) ==
    /\ phase = "flushed"
    /\ tape' = TapeFlush(tape, luck) /\ phase' = "ended"
    /\ UNCHANGED <<setup, calls, script, verdict, reply, down, pending, log, gate, session>>
    /\ Met(luck)

\* A new recorder over the same files, after the end or after a crash at any point:
\* TapeWriter resumes after the last index in the file.
Restart ==
    LET last == IF tape.file = <<>> THEN 0 ELSE Last(tape.file)
    IN  /\ used.sessions < MaxSessions[transport] /\ Len(calls) > session.before
        /\ phase' = "running"
        /\ used' = [used EXCEPT !.sessions = @ + 1]
        /\ session' = [before |-> Len(calls), late |-> {}, drained |-> FALSE]
        /\ script' = [f \in DOMAIN script |-> <<>>]
        /\ down' = 0 /\ pending' = <<>>
        /\ tape' = [call |-> SubSeq(tape.call, 1, last), end |-> SubSeq(tape.end, 1, last),
                    done |-> last, file |-> tape.file]
        /\ spent' = 0 /\ mandate' = [mandate EXCEPT !.seen = mandate.file]
        /\ reply' = [c \in Call |-> IF reply[c] \in {"relayed", "unread", "refused"} THEN reply[c] ELSE "lost"]
        /\ UNCHANGED <<setup, calls, verdict, log>>

Step(f, luck) == \/ Judge(f, luck) \/ Record(f, "record", luck) \/ Record(f, "refuse", luck)
                 \/ OpenCall(f, luck) \/ Pair(f, luck) \/ CloseCall(f, luck)
Close == Waited \/ \E luck \in Lucks : FlushPending(luck) \/ FlushTape(luck)
Next == \/ \E n \in Frames : \E kinds \in [1..n -> Kinds] : Send(kinds)
        \/ \E f \in DOMAIN script :
               \/ Inject(f) \/ Write(f) \/ BreakPipe(f) \/ Relay(f) \/ Pass(f)
               \/ \E a \in SUBSET CallsOf(f) : \E read \in SUBSET a, left \in BOOLEAN : Respond(f, a, read, left)
               \/ \E luck \in Lucks : Step(f, luck)
        \/ \E c \in Call, read \in BOOLEAN : DownRelay(c, read)
        \/ \E luck \in Lucks : DownObserve(luck)
        \/ EditMandate \/ Stop \/ Close \/ Restart

Spec == Init /\ [][Next]_vars

(***************************************************************************)
(* What must hold.                                                         *)
(***************************************************************************)
Current == {c \in Call : c > session.before} \ session.late
RowsOf(c) == {i \in DOMAIN rows : rows[i].evt = "tool_call" /\ rows[i].call = c}
Forwarded == {c \in Call : c > session.before /\ reply[c] \in {"asked", "relayed", "unread"}}
OwnId(c) == \A d \in Call : d > session.before /\ calls[d].id = calls[c].id => d = c

\* No call has two rows; and a session that waited for its threads leaves none without
\* one, forwarded, held back, unanswered or of an invalid id, but those it counted.
EveryCallIsRowed ==
    transport # "call" =>
        /\ \A c \in Call : Cardinality(RowsOf(c)) <= 1
        /\ phase = "ended" /\ session.drained /\ unlogged = 0
              => \A c \in Current : RowsOf(c) # {}

\* The tape file is in call order with every call once, and says of a call what the
\* seam log says of it.
TapeAgrees ==
    /\ \A i, j \in DOMAIN tape.file : i < j => tape.file[i] < tape.file[j]
    /\ \A i, j \in DOMAIN tape.call : tape.call[i] = tape.call[j] => i = j
    /\ \A k \in DOMAIN tape.file : \A i \in RowsOf(tape.call[tape.file[k]]) :
          rows[i].answer = tape.end[tape.file[k]]

\* An answer closes one call, a call of its id, and its own when no other has that id.
AnswersAreOwn ==
    \A k \in DOMAIN tape.call : LET by == tape.end[k].by IN
        by # 0 => /\ calls[by].id = calls[tape.call[k]].id
                  /\ by > session.before /\ OwnId(by) => by = tape.call[k]
                  /\ \A j \in DOMAIN tape.call : tape.end[j].by = by => j = k

\* When a session over HTTP was closed behind it, an answer the agent has is on the tape as
\* the end of its call if the recorder could read it, and ends it "unanswered" if not.
Ended(c, end) == \E k \in DOMAIN tape.call : tape.call[k] = c /\ tape.end[k] = end
DeliveredIsRecordedOverHttp ==
    transport # "pipe" /\ phase = "ended" /\ session.drained /\ unlogged = 0 =>
        \A c \in Current : OwnId(c) =>
            /\ reply[c] = "relayed" => Ended(c, By(c))
            /\ reply[c] = "unread" => Ended(c, None("unanswered"))

\* Under enforce nothing reaches the server that was not found inside the mandate.
EnforceHoldsBack == mode = "enforce" => \A c \in Forwarded : verdict[c] = "inside"
\* The http listener stops judging once it has ended its session; until then no transport
\* forwards a call that is not inside, and afterwards none that was found outside.
EnforceHoldsBackToTheEnd ==
    mode = "enforce" => \A c \in Forwarded :
        \/ verdict[c] = "inside"
        \/ verdict[c] = "none" /\ transport = "http" /\ phase \notin {"running", "stopping"}

\* A pipe under enforce forwards no more than the total, unless one frame carried two spends.
Spends(f) == {c \in CallsOf(f) : calls[c].act = "spend"}
Cost(S) == Cardinality(UNION {{c} \X (1..calls[c].cost) : c \in S})
TotalIsKept ==
    mode = "enforce" /\ transport = "pipe"
        /\ (\A f \in DOMAIN script : Cardinality(Spends(f)) <= 1)
    => Cost(Forwarded) <= Cap
==================================================================================
