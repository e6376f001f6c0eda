# Arcaeon in TLA+

Arcaeon keeps records that a later reader can check: a hash-chained ledger of
what agents and tools did, pins of its head kept outside it, a recorder between
an agent and its tools, a guard that runs an effect at most once, a meter whose
bills have receipts, agreements between two parties, and the verdicts that read
all these. This directory holds TLA+ modules of those parts, the TLC
configurations that model-check them, and theorems about the ledger, the guard,
the keys file, the meter and the seam that TLAPS checks. Every definition is translated
from the Python under `src/src/arcaeon/`; paths below are relative to that
directory. `PROJECT.json` maps each definition to its lines.

    tlc -config LedgerLocked.cfg MCLedger      # a run
    tlapm LedgerTheorems.tla                   # proofs: every *Theorems.tla

## The system

| part | source | state | operations | modelled by |
|---|---|---|---|---|
| hash-chained ledger | `record/ledger/__init__.py`, `record/row.py` | one JSON line per row, each with the hash of the row before it; `<path>.lock` | `append`, `declare_break`, `verify_file` (plain and strict), `head`, `as_pin`, `chain_at` | LedgerLog, Damage, Ledger, AppendLog, LedgerImplements |
| witness and pins | `record/ledger/witness.py` | a second file of chained pins `(rows, chain)` | `publish_head`, `record`, `verify`, `latest`, `history`, `verify_against_witness` | Witness |
| once | `record/once/__init__.py` | `once.intent` / `once.executed` rows of a ledger, a SQLite index with leases and generations | `guard`, `done`, `complete`, `reclaim`, `rebuild_index`, `receipt` | Once |
| meter, keys file | `save/meter/keys.py` | a JSON roster of keys, `<keys>.lock` | `add_key`, `revoke_key` | Roster |
| meter, counting | `save/meter/__init__.py` | counts in SQLite, grant and void rows of a ledger, a cached roster | `check` | Meter |
| seam: observer, tape | `record/adapter/observer.py`, `tape.py` | the open calls, a tape written in call order | observe, pair, row, flush, resume | Seam |
| seam: proxy, gate, HTTP | `record/adapter/proxy.py`, `mandate_gate.py`, `http_forward.py` | two relay threads or a thread per exchange; the session's spend | relay, judge, refuse, end, drain | Seam |
| call proxy | `record/receipt/call_proxy.py` | the same on the tool's side | judge, forward, row | Seam |
| reconcile | `prove/reconcile.py` | none: two tapes and pins | load, align, check pins, headline | Reconcile |
| audit, evidence packs | `prove/audit/`, `evidence_pack.py`, `evidence_pack_verify.py`, `aat_export.py` | a folder of files that name each other's hashes | `build_pack`, `verify_pack` | Pack |
| deal, dispute | `record/deal.py` | a ledger of each party | the seven steps, `dispute` | Deal |
| handshake | `record/handshake.py` | the same ledgers, an offer between them | `propose`, `accept`, `verify` | Handshake |
| the rest | see *Not modelled* | | | |

How they meet: every part that records anything does it with `Ledger.append`.
The witness pins what `Ledger.head` says and compares what `chain_at` says. Once
derives the state of a key from its ledger rows and uses the index to decide
races only. The meter judges a call by the roster, counts it in SQLite and
chains a receipt before it commits. The seam writes tapes, one row per call;
reconcile compares the tapes of both sides, an evidence pack exports a log with
what its pins say, dispute and the handshake's `verify` read the ledgers of two
parties. Nothing runs as one service: the parts share files, between processes
that can die between any two steps.

What is hard in them, and what makes each correct:

* **Ledger.** An append reads the tail, then writes; processes interleave there,
  die in the middle of the write, and after a deadline go in without the lock.
  Correct: an append is atomic while the lock is held; no returned row is lost;
  a verdict of green is never wrong and no append or declaration makes a log
  green again.
* **Witness.** `head()`, `record()` and the audit each read several times and
  lock nothing. Correct: pins go forward only; a damaged log is never called
  consistent and an honest one never accused.
* **Once.** A decision rests on a receipt read earlier; ledger and index are two
  stores; holders die between claim, intent, effect and completion; the index
  may be lost. Correct: no effect runs twice unless the caller asked for a retry.
* **Roster.** A lock file outlives its dead owner and is broken by age. Correct:
  reported revocations and additions stay; a call ends.
* **Meter.** Two stores that cannot commit together, a cache that a revocation
  must get through. Correct: bills match receipts, caps hold, revoked keys do
  not spend.
* **Seam.** Answers arrive out of order, on another thread than the calls, with
  ids the agent chose, while the session ends or a file takes no rows. Correct:
  one row per call, each answer with its own call, tape and log agree, nothing
  is forwarded under enforce that the gate did not allow.
* **Reconcile.** Each side numbers its own calls, so one lost row shifts all
  numbers behind it. Correct: MATCHED is true, and a single fault is named with
  its call and its side.
* **Packs.** Every file of a folder can be rewritten, consistently with the
  others. Correct: VERIFIED hides nothing, an untouched pack reads as built.
* **Deal, handshake.** Two ledgers, no common clock, rows copied by hand; what is
  cited is read before or after the append. Correct: MATCHED and AGREED TERMS
  are true, honest parties are not accused.

`hazards` in `PROJECT.json` lists these at their lines, each with the properties
that watch it. One has none: that `build_pack` says VERIFIED although a check could
not look is what the code does (see below), while what `verify_pack` makes of such a
pack is checked. (That no path out of the meter's `check` keeps the database open is
part of Meter's type invariant, which is proved.)

## The modules

**LedgerLog** holds the pure part: a file as the sequence of its lines, how a
payload lands at the end of it (`Put`, and `Landings` for a write cut short),
what the next append chains from (`LastChain`), what declarations excuse, what
`verify_file` says (`Broken`, `Breaks`, `Ok`), `HeadOk` and `ChainAt`. A line is
the sequence of pieces written to it: one piece is a line as meant; several are
bytes that ran together, which parse as nothing. The hash is taken to be free of
collisions, so the chain value of a row is the sequence of the bodies up to it.
JSON, UTF-8 and stripping are abstracted to the kinds of line `verify_file` tells
apart: link, bare, poison (a chain that is no string), twin (a duplicate key),
scalar, scrap, blank.

**Damage** is a file over its life with one program at a time: appends,
declarations, foreign lines, an edit in place, a dropped line, a re-minted tail,
and one pin. `VerifyWalk` is `verify_file` line by line as the code runs it;
`WalkAgrees` ties it to the declarative definitions that all other modules use.

**Ledger** is `append` and `declare_break` as processes run them. Labels:
`acquire` (try the flock), `tail` (`_last_chain`), `probe` (the last byte),
`write`, `release` or `raise`. `Deadline` and `FallThrough` are the deadline and
the unlocked entry after it; writers in `Patient` never reach their deadline.
`StoreFails` and `Crash` leave any part of the payload. `ForeignAppend` is a
program that neither locks nor heals. `spent` counts calls, mishaps (the bounds)
and unlocked entries and foreign lines (which properties speak of).

**AppendLog** is what `append`'s docstring promises: one log, one step per call.
**LedgerImplements** maps Ledger to it: the abstract log is the chain value at
the tail, a call is committed from its write on.

**Witness** runs an appending program, publishers and an auditor on a log and a
pin file, each read a step of its own. `Overlapping` names what may run at the
same time as what ("append/publish", "publish/audit"); `mixed` remembers what
did. A pin's digest is `(rows, chain, stamp)`; there is one namespace. The stamp of
a pin is a second, `Clock[n]` that of the *n*th head taken: two may be the same.
A pin that somebody edited is `edited`, which the code cannot see.

**Once** follows one key: callers in `guard` and `done` (`claim`, `reread`,
`generation`, `cas`, `intend`, `won`, `fired`, `execute`, `mark`) and one operator
(`reclaim`, `complete`, `rebuild_index`, loss of the index). An append is one
step, as Ledger shows, and so is an IMMEDIATE transaction. A receipt is the last
event of the key; a dead caller stays dead. `Overlapping` names operator steps
that may interleave with a guard although the code does nothing to keep them
apart.

**Roster** is the lock file of the keys: `open` (O_EXCL), `stat`, `break`, `load`,
`save`, `unlock`. A lock file gets `old` when its holder is dead, and up to
`MaxStalls` times while it runs. `spent.stolen` notes a break of another lock
than the one judged; the safety properties hold while there was none (`Orderly`).

**Meter** is `check`: stat, load, cache, stamp (the key cache), `judge`, then
`begin` (IMMEDIATE), `select`, `log` (the grant row), `commit`, `void`. The keys
file changes in one step, which Roster is about, and revoked keys stay revoked.
Rows are kept as the sums they add up to.

**Seam** is one recorder of one of three transports: `pipe` (proxy.py, a thread
each way), `http` (http_forward.py) and `call` (call_proxy.py, the tool's side),
the last two with a thread per exchange; and of one mode, without a mandate,
recording or enforcing. A frame is worked off by a *script*, the order in which
that transport's handler judges, opens, writes, rows and answers; each step of a
script is an action, so frames interleave as the threads do. The observer pairs
an answer with the oldest open call of its id; the tape keeps an index per call
and commits it when all before it are closed; the gate keeps the session's spend
and refuses. At each step that writes, the log or the tape may take no row
(`Lucks`). An answer may come in a form the recorder cannot read, an unknown coding,
a body over `max_frame` or broken off, an event of a stream that is too long: it goes
on to the agent like any other (`Pass`, or `DownRelay` on a pipe) and is paired with
nothing, so its call is closed as unanswered, at once or at the flush
(`http_forward.py:206-261`, `call_proxy.py:320-338`). When the child has gone, the next
write of a pipe may meet a broken pipe (`BreakPipe`): the thread that reads from the
agent ends with that frame neither observed nor rowed, and is never `Quiet`. The
session ends at any point, drains what its code waits for, and a pipe may be started
again on the same files. `MaxBreaks` bounds failed writes, unread answers, broken pipes
and edits of the mandate together. Digests are left out: a row names its call and the
answer it was paired with.

**Reconcile** takes two tapes as Seam leaves them, lets up to `MaxMishaps` things
go wrong, on the wire (a request or an answer lost, changed or delivered twice,
two calls crossed), in a recorder (a row lost) or to a file afterwards (cut,
re-minted, edited, alien, gone, named twice), and computes the code's verdict:
`LoadTape`, `WalkIndex`, `Pair`, `Align`, `PinTargets`, `CheckPin`, `Headline`. `blame`
is the finding the mishap deserves.

**Pack** builds a folder of a log, its pins, a window and a mandate file, edits
files of it as somebody would who can compute every hash (one file; or the
records and all that derives from them), lets the log and the pins go on, and
computes `verify_pack` check by check. A sha256 is the content it is of. The log
is one of LedgerLog; each of three subjects (pins, windows, mandate rows) varies
what it is about and holds the rest still.

**Deal** is the ledgers of a buyer and a seller. A step is written by one and
copied by the other, rightly or wrongly; `commit` and `ship` read the ledger
first and append later, and other rows come in between. A commit may ask for any
mandate, one its tape does not hold included, and cites it all the same; what it says
of it is `CheckMandate`, rule by rule as the code: the seller, the currency, the total
against the cap, the window, each of which may be such that it cannot be read. Afterwards a ledger may
be cut, edited, re-minted, spoiled or given for the other one. `Dispute` is
`dispute()` with the tape reader, the pin check and the order of its findings.
**Handshake** extends it with `propose` (the row, then the position it cites, read
outside the lock), the offer under way, which may be altered or never sent,
`accept` and `verify` of one handshake or of all. The lanes of MCHandshake say which
steps meet.

**MCDamage, MCLedger, MCWitness, MCOnce, MCRoster, MCMeter, MCSeam, MCReconcile,
MCPack, MCHandshake** give the constants their values for TLC. A definition
commented as a *mutant* is a plausible bug in the definition beside it; each
property has one that TLC finds violates it.

## The runs

| run | instance | states | what it shows |
|---|---|---|---|
| `damage` | files of up to 4 lines, 2 bodies, 3 events | 46 k | `verify_file` agrees with its declarative meaning; green is genuine; a pin closes the gap; `StepsAreJudged`: one edit is one break, appending never repairs, a declaration excuses its break and no other |
| `ledger_locked` | 3 writers, 4 calls, 3 crashes or failed writes | 32 k | the lock serializes, the chain does not fork, `append` is atomic (refinement) |
| `ledger_shared` | 2 writers that may time out, 3 calls, 2 mishaps, a foreign row, the declaration of a forked one | 129 k | returned rows stay, in order, while nobody went in unlocked; `VerdictIsTrue`: under a green every returned row is there, and a quiet log is green; a running writer's call ends beside a holder that is stopped for good |
| `witness_audits` | 1 publisher, 2 publications in one second, 3 rows, 2 damages or crashes, 1 audit | 829 k | pins go forward with one head per height, consistent is true, honest logs are not accused |
| `once_guards` | 3 callers, 4 calls, 2 crashes, 2 failures, 3 operator jobs | 618 k | at most once or flagged; one holder, and a held key is not free; receipts are true and the index not ahead of them; executed is final |
| `once_reclaim_race` | 2 callers, 1 crash, a reclaim that overlaps | violation | see below |
| `roster_kept` | 3 processes, 2 keys, 1 crash | 290 k | reported changes stay, revocation is final, calls end |
| `meter_counts` | 2 processes, 1 key, 2 months, 1 edit, 3 calls, 1 mishap | 1.7 M | allowances are billed, bills and receipts match, caps hold, revoked keys are refused |
| `seam_kept` | six setups, 2 calls of 3 kinds in frames of 1 or 2, 1 break, pipes started twice | 1.6 M | every call is rowed once, tape and log agree, answers are their own call's, an answer delivered over HTTP ends its call on the tape, as unanswered if it could not be read, enforce holds back until the session's end, the total is kept on a pipe |
| `reconcile_names` | 3 calls, 2 mishaps, pins on either tape | 787 k | MATCHED is true; a single fault is named, honest tapes are not |
| `agreements` | 9 lanes, up to 3 rows a ledger, up to 2 mishaps, pins | 359 k | MATCHED and AGREED TERMS are true, notes are true, honest parties are not accused |
| `pack_read` | 3 subjects, up to 3 rows, 2 pins, a rewrite of the log, an edit of the folder | 102 k | an untouched pack reads as built, an honest one is not BROKEN, pins hold, VERIFIED hides nothing |

Why these bounds: a lost update takes two processes between a read and a write,
and a third to lose to; a torn line needs a crash, an append after it and one
more row to chain over it, which is four calls with three mishaps; a re-mint
under a pin needs two rows and one row after; an edit that an old pin disproves
needs a second pin above it; a retry of a retry needs two crashes and four calls;
a lock broken by the wrong process needs the dead holder and two others; a cap of
3 with costs of 2 makes the second call the one that does not fit. Two calls are
what a wrong pairing, a hole in the tape, a batch or a total take; three calls
with two mishaps let one fault hide the other, and shift the numbers of a call
behind it. A pack's faults are of one file against the others, so one edit, made
with every hash that follows from it, is the case; three rows leave a window with
rows on both sides. A lane has the two or three rows its steps need to meet: a
mandate, a commit and another commit; a proposal, another one and an acceptance.
Sequences of that length are where each mutant is caught.

Bounds that leave something out, by name: `MaxSessions` starts only pipes again;
one write that fails, broken pipe, frame of unread answers or edit of the mandate per
behaviour of Seam; Pack takes no pin twice and lets the log grow after the
build only while pins may come; in Deal files are harmed or pinned only when no
step is under way, who initiates a step is fixed, and the lanes that are not
listed are not explored; in Reconcile a pin names its side in one order of the
files and its namespace only in the other. Symmetry is over values nothing
orders: writers, callers, bodies, contents of calls. Deadlock is off in every
configuration: each model stops when its bounds are used up, and an idle system
may stop.

`once_reclaim_race` shows a disagreement between the code and its own text.
`reclaim` acts on a receipt it read before its transaction. A key whose effect
ran is freed, and a caller that had seen "never" runs the effect again without a
flag, although "what it does" is said to be done "atomically for this key alone".

## Behaviour without a run

The same modules show, with other values of their constants or another property,
behaviour that the properties above exclude by a condition. A reader of the code
should know it.

* **Witness.** `head()` reads rows and chain in two reads; an append in between
  yields a pin of *n* rows with the chain of row *n+1*, and the audit later says
  "rewritten" of an honest log (`record/ledger/__init__.py:596`, `witness.py:784`);
  `NeverAccused` has `mixed = {}`. Two publishers can pass the guards on the same
  history and the witness goes backward (`witness.py:340`); the run has one. With
  three publications in one second and three damages "consistent" can be said of a
  log that was rewritten: a pin is edited until its digest is the next one's, that
  one is published upon, and then dropped, and no link is loose. With a `Clock`
  that ticks (`Ticking`, 2.0 M states) no such run exists, nor in theory (below).
  An audit beside a publication (`"publish/audit"`) counts rows
  before it reads the pins and says "truncated". A publisher killed in its write
  leaves a torn line on which the next pin lands: `record` returns it and the
  history does not hold it. A log never written to is "local_broken".
* **Once.** With `"complete"` in `Overlapping` an operator's `complete` and the
  holder's `done` both append `once.executed`; with `"loss"` an index lost between
  a claim and its intent row lets a second caller in.
* **Roster.** With `MaxStalls > 0`, two processes judge one dead lock file, the
  second unlinks the first one's new lock, and a reported revocation is undone
  (`keys.py:88`, `:123`). `Orderly` excludes it.
* **Meter.** A grant row whose append raised, or whose process died before the
  commit, has neither a count nor a void (`save/meter/__init__.py:465`, `:475`).
  Two threads on one Meter can leave the cache of one load under the stamp of
  another, so that a revoked key spends until the keys file changes again.
* **Seam.** On a pipe an answer is relayed before it is observed, so a session
  that ends in between has delivered what its tape calls unanswered
  (`DeliveredIsRecorded`; `observer.py:24`, `proxy.py:841`). The HTTP listener
  forwards without judging once its session ended (`EnforceHoldsBack`;
  `http_forward.py:611`). Several spends in one frame are judged one by one before any
  of them is counted, so a batch can pass the total although each call of it fits
  (`mandate_gate.py:237`, `proxy.py:570-607`), and so can two HTTP exchanges judged at
  once; `TotalIsKept` is of a pipe and of frames with one spend each. A frame whose
  write meets a broken pipe has no row, nor has anything behind it; the code counts it
  in `relay_errors` (`proxy.py:640-645`), and the second half of `EveryCallIsRowed` speaks
  of sessions whose threads came to their end. The call proxy takes an OSError of its own receipt for one of the server
  behind it. A row that fails for an invalid id drops the rest of its batch. A
  refusal pairs with a forwarded call of the same id. Two HTTP exchanges are
  numbered in another order than they were sent, and reconcile then calls honest
  tapes ALTERED.
* **Reconcile.** A pin that names a namespace only is held against both tapes if
  the one it is of no longer verifies (`reconcile.py:431`).
* **Pack.** `build_pack` says VERIFIED with an entry in `could_not_look.json`, which
  `verify_pack` reads as COULD NOT LOOK; a log that is broken at the build is
  COULD NOT LOOK there and BROKEN to the reader. A pin of the second of the build
  past the head of a pack that lists no pin makes it BROKEN. `window.rows` and
  other counts of the manifest are not derived again by the reader.
* **Deal.** `commit` writes a row that cites a digest no mandate row of the tape has, or
  none at all where no mandate was given yet, with the note that it is not inside
  (`deal.py:268-277`). If the buyer's tape holds another mandate, then or later, and the
  seller copies that commit as it is, dispute says ALTERED of the honest seller
  (`deal.py:699-706`); `HonestIsNotAccused` says that this is the only case (`CitesUnheld`).
  A pin without a side is held against both tapes. A cancellation appended
  between `ship`'s reading and its append leaves no note (`deal.py:304`). A buyer
  who re-mints a mandate gets the seller accused when nothing was pinned.
* **Handshake.** `verify` with one ledger named twice says AGREED TERMS of an
  acceptance on the proposer's own ledger; the property asks for two files.

## Fairness

`Fair(Running)` in Ledger and Roster: a process that runs keeps running and its
clock advances, so its steps and its deadline are weakly fair. Nothing obliges a
process to make a call, nothing obliges a process outside `Running` to take any
step (so the holder of the lock may hang forever), flock gives no fairness among
waiters, and a lock file need not grow old. The liveness properties hold because
of the deadlines: an append goes in unlocked, a change of the keys raises
`TimeoutError`. Their mutants take exactly that away. Crashes are never fair. The
other modules state no fairness: what they promise is of what was done, and a
relay waits for a server that may never answer.

## The proofs

Thirty-seven of the forty properties the runs check are theorems, for every value of the
constants that their named assumptions admit. A theorem about a temporal property
combines three facts: the initial states satisfy an invariant, each action keeps
it, and it implies the property; what follows says what that invariant is.

`LedgerLogTheorems` proves lemmas of LedgerLog: `TailChain` depends on the lines
it names only, skips what is no row and takes what is one; a healed file keeps
its tail and its links; a row chained from the tail extends a linked file, and
so does every part of it that a torn write leaves, whatever was at the end. Its
second half is about the verdict: rows are numbered apart and without gaps, a file
`verify_file` calls green holds links and blank lines only (`GreenIsClean`; the
converse is `CleanIsGreen`), and there the chain at a line spells the rows up to
it (`ChainSpells`). The last, a claim about every line, is proved from its smallest
counterexample, which exists because `<` on `Nat` is well-founded.

`EvidenceTheorems` proves of the evidence a user hands over, a file and a pack of one.
Of Damage's `Spec`, for files of any length, any bodies, foreign kinds and number of
damages:

* `GreenIsGenuineHolds`: `[]GreenIsGenuine`. The invariant is only that the file
  stays a sequence of lines of well-formed pieces (`Shaped`); what the verdict
  says follows from `GreenIsClean` and `ChainSpells`, however the file came to be.
* `PinClosesTheGapHolds`: `[]PinClosesTheGap`, from the invariant that a pin taken
  over a green head spells the rows of its time (`PinTells`). It assumes that
  `Void`, the mark no chain value holds, is no declaration either: a green log of
  three rows that are all `Void` would answer a pin as a log without the row does.
* `WalkAgreesHolds`: `[]WalkAgrees`. The accumulator of the walk after *i* lines is
  what the declarative definitions count and chain over those *i* lines. That the
  function satisfies its recursion at all is shown first, and both by a smallest
  counterexample over the lines.
* `StepsJudged`: `StepsAreJudged`, the action property. A step changes the file at
  one place, and a line's judgement depends on that line, the last row before it
  and the declarations that name it, so all but one or two lines keep theirs. It
  assumes that no ordinary body is a declaration.

Of `PackSpec`, for any subjects, logs, pin files, options and seconds and any edits of
the folder:

* `PackHoldsPins`: `[]PinsHold`, and `PackHidesNothing`: `[]NothingHidden`. The
  invariant, `PackInv`, types the log, the pins and the folder and has nothing of how
  the folder came to be: whatever is in it, each of the ten checks of `verify_pack`
  that says VERIFIED says something of the files, and together they say the property.
  What takes the work is that no edit leaves a folder of a form the checks could not
  be applied to, and that what an audit finds consistent spells its pins, which comes
  of `GreenIsClean` and `ChainSpells`.
* `UntouchedIsAgreed`: `[]UntouchedAgrees`. `UntouchedInv` has a folder that nobody
  edited be what the build writes of some log, pin file and second; each check of the
  reader is then computed from that.
* `HonestIsHeld`: `[]HonestIsNotBroken`. `HonestInv`: while nothing is rewritten the log
  holds rows only, each pin spells a beginning of it, the pins are in the order of
  their heights, and an untouched pack is `AsBuilt`: of a beginning of the log, of the
  pins of that second, and every later pin is of that second or after it. Two
  beginnings of one log agree as far as the shorter one goes, so no pin disproves
  another one's file.

They assume `BodiesAreContent`, `NullIsApart` and `BodiesAreDated`, of which the last
says that there is one clock: `verify_pack` calls a pack broken that was built before
its newest row, and a log with times to come would be one although nobody touched it.
The last two also take that `Null`, which stands for no file, is no file's content
(`NullIsNoFile`). Lists that the code filters are taken by the places kept (`InOrder`,
`Picked`), so that what is in them needs no induction.

`LedgerTheorems` proves of `Spec`, for any sets of writers, bodies, foreign pieces
and declarations and for any bounds, from the named assumptions of Ledger and
LedgerLog:

* `TypeCorrect`: `[]TypeOK`.
* `LockSerializes`: `[]Serialized`, inductive with `TypeOK`: a flock is dropped
  by its owner's exit or death only, and each entry without it is counted.
* `ReadsStayFresh`: `[]Fresh`. What a writer read is still true when it writes.
  Its step needs `Serialized`: whoever changes the file is in the section, so it
  is the writer itself, and no other is between its read and its write.
* `ChainNeverForks`: `[]NoFork`. A row's link to the row before it does not follow
  from the file's other links; it holds because its writer's `prev` was fresh.
  `TypeOK /\ Serialized /\ Fresh /\ NoFork` is the inductive invariant.
* `AppendsAreAtomic`: with `Patient = Writers` and `Foreign = {}`, `Spec` implies
  `AppendLog`'s specification under the mapping of LedgerImplements. `Fresh`
  makes a `Store` the abstract `Commit`; a torn write is a `Fail` that did or did
  not take effect; all else maps to a start, a return or a stutter.
* `ReturnedStay`: `[]ReturnedRowsAreKept`. That a returned row is in the file says
  nothing of the step that returns it, so the invariant adds that the row of a
  writer at its `release` lies behind all that were returned, on a closed line, and
  that a writer about to write begins a line (`Separate`). Whatever lands at the end
  of a file keeps its closed lines (`PutKeeps`), and only one writer at a time is
  between its write and its return (`Serialized`).
* `VerdictStays`: `[]VerdictIsTrue`, unlocked writers included. Without the lock a
  row may share its line and the chain may fork, so the invariant `Landed` is
  weaker: each returned row, and each a writer is about to return, is a piece of the
  file and no two are the same piece. Under a green a piece is a line
  (`GreenIsClean`), and two lines hold different rows, their chains being of
  different length (`ChainSpells`). That a quiet log is green needs `Untorn`: with no
  mishap and nobody unlocked, the file holds links and blank lines only; `NoFork`
  gives the rest.

`GuardTheorems` proves Once's four properties for any callers and bounds:
`AtMostOnce`, `ClaimIsProtected`, `ReceiptTells`, `ExecutedStays`. None is inductive:
a caller acts on a receipt it read steps ago. `Owned` says who holds the key and
that the index shows it; `OnRecord` what is in the ledger at each label;
`ReadingHolds` that an operator's reading is still so when it is acted on; and
`NothingLeft` that a key about to be taken over was not executed. All assume
`Overlapping = {}`, which `once_reclaim_race` shows to be needed.

It also proves of `RosterSpec`, for any processes, keys, calls and
bounds: `RosterTypes`, `LockFileExcludes`, `ReportedStays` and `RevocationHolds`.
`Exclusive` is not inductive: a process about to break a lock file acts on what it
judged, so the invariant adds that an old lock file's owner is dead and so is the
owner that was judged. `ReportedIsKept` adds that a document about to be saved is
the keys file, that the key to revoke is in it, and that a secret whose add is not
saved is in no file and with no other process. Under these a save is the only step
that changes the keys file and it undoes nothing. The last three carry the
condition `Orderly`.

And of Reconcile it proves `MatchedIsMeant`: `[]MatchedIsTrue`, for any requests,
answers, session and number of mishaps. The invariant, `SessionKept`, is small: types,
and that a pin is the first rows its recorder wrote. The work is in the verdict. Its
loops are recursive functions (`WalkIndex`, `Pair`, `Align`); `RecursionExists` gives
such a function by the least length without one, and `StepByStep` what each of its
states is. A walk that ends with nothing to say met call 1, 2, 3, ... (`WalkIs`) or
paired rows that are alike until both lists were at their end (`PairIs`, `AlignIs`); a
headline is one of the findings (`HeadlineAccuses`), so MATCHED means that every list of
findings is empty (`FoundIs`). Two readable tapes of which one names its side are the
two files, each known by its side, so each pin was held against its own tape.

`MeterTheorems` proves of Meter's `Spec`, for any workers, Meters, keys, entries,
costs and bounds, threads that share a Meter included:

* `MeterTypes`: `[]TypeOK`. That `Judge` finds a cap needs `Loaded`: a stamp other
  than -1 has a roster beside it, and a worker stores the cache before the stamp.
* `AllowancesBilled`: `[]AllowancesAreBilled`. The invariant adds `Holders`: a worker
  between `select` and `commit` is the one whose transaction is open, so the count
  it read is still the count, and `used` is that plus the cost.
* `CapKept`: `CapIsKept`. `Holders` also has `used` under the cap of the call; what
  was allowed is at most the count, so neither passes the cap.
* `ReceiptsHold`: `[]ReceiptsMatchTheBill`. A count and its rows differ by what is
  under way: the one worker between its grant row and its commit, and each worker
  with a row yet to void. The invariant `Balanced` says that they differ by the sum
  of these, taken over all workers as the number of their units.
* `RevocationGetsThrough`: `[]RevokedIsRefused` when no two workers share a Meter
  (`Private`). A Meter whose stamp is the file's has the file's roster, and what a
  worker read is as new as the stamp it took before; so a key that was revoked when
  the call began is revoked wherever the worker looks.

`WitnessTheorems` proves Witness's three properties, for any bodies, bounds, clock
and number of damages and torn writes. Under all of them lies `TypedHolds`: the log
is one that the library could have written (`Good`), so its last chain value spells
its rows. What is done to the pin file is three relations, `Landed`, `EditedTo` and
`DroppedFrom`, and each invariant is shown to outlast each of them:

* `NeverBackwardHolds`: `[]NeverBackward` with one publisher (`OneAtATime`: nothing
  locks the pin file between `record`'s guards and its write). `Guarded` says that
  the pin to be written is still above those there.
* `ConsistentHolds`: `ConsistentIsTrue`. A pin that was returned is in the store
  with its digest, or a line is scrap, or a pin is loose: it names one later than
  any before it. For a drop, the next pin becomes loose; that needs pins whose
  stamps grow and links that name the last pin before (`Sound`, `Dated`,
  `PrevIsTail`, `ReturnedHeld`), hence one publisher and no two heads in one second
  (`HeadsApart`, without which it is false, see above). `Read` has what an audit
  read be what is there, hence no publication beside it. Then every returned pin
  was compared, and its chain value spells the rows under it.
* `NeverAccusedHolds`: `[]NeverAccused` with one publisher. `Honest`: until the first
  damage, torn write or overlap, every pin is at a row of the log with that row's
  chain value, no pin is broken, and neither are the one on its way and the ones
  an audit holds.

`SeamTheorems` proves all six invariants of Seam, for every
set of setups, kinds of calls, sizes of frames, cap and bound. What a handler will
do is in its script, and an invariant that spoke of positions in one would have to
be proved anew for each transport. `Due(o, c)` says that the frame of the call *c*
has the step *o* of it still to do; each step of a handler takes one thing out of
`Due` (`Exactly`), a verdict or a response puts a known set of things in its place
(`Passed`, `Held`, `Answered`), and the invariants speak of `Due` alone:

* `EnforceHolds`: `[]EnforceHoldsBackToTheEnd`. Inductive as `Gated`: whatever is to
  be written or was written is inside the mandate, or the listener had ended its
  session, and what is to be judged has neither verdict nor answer (`ToJudge`,
  `OnItsWay`).
* `AnswersOwn`: `[]AnswersAreOwn`. `Recorded` types the tape and has each call on it
  and in the queue once; `Framewise` says that a call is asked once and that its
  frame is judged before anything else of it happens; `Owned` that an answer is
  coming, is held by the downstream thread or closed a call, one of these only, and
  that the call it closed was the oldest open one of its id.
* `TapeAgreesHolds`: `[]TapeAgrees`. `Agreed` has each call in the log once; the tape's
  end of it is the row's answer, or still open where the flush has rowed it as
  unanswered and the tape's own flush comes next; and what waits or is yet to be
  opened has no row.
* `EveryCallIsRowedHolds`: `[]EveryCallIsRowed`. `Rowed` says of a session whose threads
  are there, or were waited for, that each call has its row, waits, or is to be
  opened; that after the flush none waits; and that a drained session has nothing due.
* `DeliveredHolds`: `[]DeliveredIsRecordedOverHttp`. `Fitting` says which steps of a frame
  exclude each other; `Reach` that a call whose answer may come is open or to be
  opened; `Told` that a given answer is being paired, is held by the downstream
  thread, or ends its call on the tape. For answers that were not read `Unheard` says
  the opposite in three parts: a call that got one, or is about to, has no other answer
  under way (`Muting`); it is on the tape (`Noted`); and an end on the
  tape that names no answer is "open", "unanswered" or of an invalid id, a drained end
  leaves none open, and a call of this session is ended by an answer of this session
  (`Lasting`). Its end on the tape names no answer then, for that would be its own
  (`Owned`), and so it is "unanswered".
* `TotalKept`: `[]TotalIsKept`. What was or will be forwarded costs no more than
  the cap, and no more than the session's `spent` plus what is being recorded
  (`Paid`); that two frames are not between their judging and their recording is
  because the up thread takes its frames in turn (`Turns`). A total is a number of
  units (`Cost`), so that it adds up over any set of calls.

They assume what Seam's named assumptions say: a setup is one of the three
transports with one of the three modes, a frame has a call in it, a kind of call
costs something if it spends and only then, and no more.

`HandshakeTheorems` proves the four properties of Deal and Handshake, for any
lanes, mandates, terms and details, tapes of any length and any number of offers,
alterations and harms. `IInv` (`Inductive`) has nine parts. What a program wrote is
chained and of the forms its steps write (`WroteOK`); a tape is no longer than that,
and each row says what was written there or an alteration of it (`TapeOK`); a pin is
the head of a part of what was written (`PinOK`); a note is true of the rows above
it, and so is the one about to be written (`NotesOK`); a position that was read, an
offer and an acceptance name rows that the other party wrote (`ProposingOK`,
`OffersOK`). While nothing went wrong the files are as they were written (`Honest`),
offers say what was proposed (`ExactOK`), and the rows one party copied are the
first of the other's rows of that step (`CopiedOK`).

* `MatchedTapesAgree`: `[]DisputeIsTrue`. When `dispute` says MATCHED nothing was
  found (`Headline` of findings is one of them, the earliest: proved from a rank on
  findings and the well-foundedness of `<`), so each of its lists is empty, and an
  empty list of comparisons means equal digests at equal places.
* `NotesAreOfTheirTape`: `[]NotesAreTrue`, from `NotesOK`: a note other than "outside" is
  written only where the digest cited was found, and rows are only appended between the
  reading and the writing.
* `AgreedMeansCountersigned`: `[]AgreedIsCountersigned`. AGREED TERMS comes of the
  last proposal of one file and the last acceptance of the other, compared by chain
  value, position and digest; `TapeOK` and `OffersOK` say whose rows these are.
* `HonestPartiesAreNotAccused`: `[]HonestIsNotAccused`. With no mishap each party's
  rows of a copied step are the first of the other's (`CopiedOK`), so no comparison
  finds a difference, and a row one side lacks is one it may still copy. A commit whose
  digest is on no mandate row of the buyer's is the one thing left to find.

They assume that `Null` is no party or note, that amounts are numbers or `Null`,
that the rows ledgers begin with are another program's, that what an altered row
says is no proposal, and that the mark for a row of no deal is no deal's id. The rows
of a step in their order are `RowsAt`: `InOrder` lists a finite set of numbers by
how many smaller ones there are, and its lemmas (what is listed, in what order, and
that it agrees on rows that were only appended) take the place of an induction over
a filter.

Only model-checked: `LiveWriterReturns` and `LiveAdminReturns`, since liveness under
fairness and `ENABLED` are out of the prover's reach, and Reconcile's `FaultIsNamed`.
That one says which finding a fault deserves, and so what the alignment of two tapes
answers at *every* place after one: an account of `Align` on all inputs, with its choice
among the ways to go on, where MATCHED needs only what it means to have found nothing.
Recursive *functions* as such are within reach, as `WalkAgreesHolds` and `MatchedIsMeant`
show: where an induction theorem would take an operator for a parameter, the smallest
counterexample does as well.

## Not modelled

* **Parts of what is modelled.** Once: `verify_integrity`, several keys, another
  host's lease, recycled process ids. Witness: the store's clock, malformed pins, several
  namespaces, the hosted store. Meter: the migration of old databases, usage and
  export, keys that are unusable and denied before anything is read. Roster: caps,
  labels, the retry on Windows. Seam: process supervision, event streams, headers,
  redaction, signing. Reconcile: superseded rows and readings. Pack: the remote
  witness, folded-in deals and readings, zip archives. Deal and Handshake: names of
  agents, the files `pack` writes, the sentences of the position.
* **Fallback ledger** (`record/adapter/_ledger.py`): the chain of Ledger under a
  thread lock, for installations without it.
* **Ledger tools, ballots, approvals, citations, archives, mandate command**
  (`record/ledger/`, `record/receipt/`, `record/mandate_cli.py`): batch formats,
  digests and reports over ledgers; no state of their own.
* **Local server** (`serve/`): its codes and sessions change under one lock with each
  operation inside it, and the token file is created by a link that fails if it is
  there; nothing interleaves.
* **Distill, dedup, continuity, compact, vet, baseline, readings** (`save/`,
  `prove/`): functions and heuristics over text. They are a large share of the
  code, and there is no protocol in them.
* **Remote clients, MCP servers, connect, framework adapters, meter middleware,
  command line, demo, doctor, journal, status, words, shims**: I/O, dispatch,
  printing.
