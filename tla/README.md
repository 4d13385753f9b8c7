# A TLA+ model of agentic-claude-hooks

The repository is a plugin for coding agents: hooks that guard what an agent runs, hooks that inject
context, and an **observability collector** that records every hook event. The collector
(`src/core/observability/server.mjs`, 3,900 of the repository's lines) is where concurrency, failure and
recovery live, so it is modelled most closely; the context hook, the guards and the import of opencode's
history are modelled beside it. This file is the inventory of the system, the plan, and the account of what
is checked and proved.

## 1. Inventory

| Component | State it keeps | Operations | What makes it hard | What makes it correct |
|---|---|---|---|---|
| **Ingest and storage** (server.mjs 101-301, 385-410, 557-725) | `SEQ`, dedup map, deferred callbacks, write queue with its byte count and timer, counters; on disk `events`, the spill file, the archive | POST /events, setImmediate work, 50 ms flush, hourly retention, boot seeding | requests suspended in `readBody`, 202 before the write, failed COMMIT, failed spill, crash between any two callbacks | every acknowledged event is stored, waiting or counted; seq is unique and rows arrive in order; the queue is bounded |
| **Live stream** (727-868) | replay ring, one bounded queue per subscriber | broadcast, GET /stream with a cursor, drain, close, farewell | back-pressure at any frame, drop-oldest, eviction, reconnects | each event at most once and in order, no unannounced loss, bounded memory, a reading client gets what is queued for it |
| **Lifecycle and CLI** (3675-3933) | pidfile, listening socket, signal state | boot, EADDRINUSE probe, shutdown with grace, stop, status, rescan, materialize | two processes overlapping, forced exit | one writer of seq at a time; a graceful stop stores everything |
| **Turn materializer** (2301-2488) | `turns`, `turn_cursor` | sweep (timer, retention, CLI) | events trimmed between sweeps, late usage rows, settle by age, freezing | settled turns are counted once and survive the trim |
| **Turn segmentation** (1939-2299) | none (a fold over a session's events) | `buildTurns` | Stop/prompt arrival race, queued prompts, lost Post | every event in one turn; stable under later events once settled |
| **Transcript tail parser** (1137-1306) | byte bookmark per (session, file), `usage` rows | triggered parse, rescan | chunk boundaries, messages over several lines, crash between chunks, coalesced triggers | each message one row; nothing before the bookmark unread |
| **Query API, statistics, dashboard** (876-1853, 2657-3613) | none | read-only SQL, HTML | pages by seq, lists merged from two tables under one limit, the same sum computed in several places | a paging reader sees each row once; every view of the same rows shows the same numbers |
| **Hook senders** (`send-event`, `lib/obs-client`, `obs-lazy-start`) | none | one POST per hook, spawn the server | collector down, slow, or started twice | never blocks the session |
| **opencode adapter** (`plugin.js`, `backfill.mjs`, `install.mjs`) | denial counter per command, backfill cursor | tool hooks, import of history | second writer of `seq`, crash between COMMIT and cursor | no session twice, no seq taken |
| **Context injection** (`core/context/lib`) | ledger, hub cache, stats files shared by processes | collect, budget, match, refresh, inject | concurrent read-modify-write of files, ETag and body written apart | a doc is not injected twice within its TTL; the ETag names the body on disk |
| **Guards** (`bash-guard`, `git-guard`, `shell-lex`) | none | decide on a command line | directory and branch changing along the line | a protected branch is never written through a sequence |
| **Lint hook, skills, generators** | none | run a linter, draw | - | - |

How they meet: a hook process POSTs an envelope to *ingest*; ingest hands the same record to the *write
queue* and to the *stream*, and triggers the *tail parser*; *retention* calls the *materializer* before it
trims `events`; the *materializer* re-runs *segmentation* over what is stored; *queries* and the dashboard
read the tables and follow the stream; the next *boot* seeds `SEQ` from `events`, which retention trims and
`backfill` extends. `PROJECT.json` lists the hazards of each, at the line where they bite.

## 2. Plan

Modules, in order of how much of the system hangs on them.

1. `Collector`: ingest, queue, flush, retention of events, restarts. *(done; theorems in `CollectorProofs`)*
2. `Stream`, and `Feed`, the abstract specification it implements. *(done; theorems in `StreamProofs`)*
3. `Lifecycle`: several server processes, `obs-lazy-start` and `backfill` over one socket, one pidfile and
   one table. *(done; theorems in `LifecycleProofs`)*
4. `Turns`: `buildTurns` and the attribution of cost, over all short sessions. *(done; theorems in
   `MaterializerProofs`)*
5. `Materializer`, on top of `Turns`: sweep, settle, reconcile, freeze, retention, restarts. *(done; theorems in
   `MaterializerProofs`)*
6. `UsageTail`: bookmark, chunks, triggers, rescan. *(done; theorems in `UsageTailProofs`)*
7. `Reports`: the read side, view against view. *(done but for latency percentiles and request parsing)*
8. `Backfill`: repeated imports beside the live plugin. *(done; theorem in `LifecycleProofs`)*
9. `ContextDocs`: hook processes over mirror, sidecar and ledger; the runner's budget. *(done; theorems in
   `ContextDocsProofs`)*
10. `ContextPlan`: configurations, providers, layers of indexes and the budget of one process. *(done)*
11. `Guards`: git-guard on command lines against what git then does; repeat suppression. *(done; theorems in
    `GuardsProofs`)*

`SequenceFolds` holds what the proofs of six of them share: induction, and what follows from it for folds
over sequences (section 7).

Left, in this order:

* `EventLog`, an abstract specification of ingest (accepted events become rows, in order, each at most once,
  or are counted as lost), implemented by `Collector`; the lemmas of `CollectorProofs` about `Flush` are most
  of what its proof needs.
* Theorems: `InjectsAsConfigured` for `ContextPlan`; `ListedOnce` and `ViewsAgree` for `Reports`.
* `Collector` with `Stream`, for cursors from before a restart; `Backfill --force` with `Materializer`, for
  turn rows whose seqs are gone; `Materializer` over several sessions, for its bounded scan.

## 3. The modules

Who uses whom: `Materializer` and `MCTurns` extend `Turns`; `MCReports` extends `MCTurns`, `Reports` (which
extends `Turns`) and `Backfill`; `MaterializerProofs` extends `Materializer` and `MCTurns`, `LifecycleProofs`
extends `Lifecycle` and `Backfill`; `MCContextHook` puts `ContextDocs` and `ContextPlan` into one run; `Stream`
instantiates `Feed`; the others stand alone. An operator whose comment begins with "Faulty:" is a plausible bug of the operator below it; no specification
uses it, and replacing the right one by it makes the property named in `PROJECT.json` fail.

JavaScript runs one callback at a time. An action is one callback, run to its end or to its first `await`;
what interleaves is which callback runs next, where the process dies, and how each call into SQLite, the
file system or a socket turns out. Payloads, HTTP, JSON and redaction are not in the models: a record is its
identity, its seq, its dedup key and its length.

### `Collector`

| Variable | In the code |
|---|---|
| `SEQ`, `stats` | `SEQ`, `stats` (102-107) |
| `seen`, `stale` | the `seen` map in Map order (182); `stale` is the clock: entries set at or before that seq have expired |
| `reading` | requests suspended at `await readBody` (241) |
| `pend` | `setImmediate` callbacks not yet run (271, 279) |
| `q`, `qBytes`, `qTimer` | the same names (686-689) |
| `events`, `spillFile`, `archive` | the table, `spill.jsonl.gz`, `archive/*.jsonl.gz` |
| `proc`, `db`, `durable` | process state, `db !== null`, `OBS_DURABLE` |
| `acked`, `streamed`, `mark` | history: what was answered 202, what was broadcast, where this process began |

`ReceivePost`, `RejectBody`, `AnswerDuplicate` and `Accept` are the outcomes of `handleEvents` before and
after its await; `RunImmediate` is the deferred callback (`ingestPostAck`, or the broadcast of a durable
process); `TimerFlush`, `RunRetention` and `ServerClosed` are the other three callers of `flush()`; `Boot`
is `startBackend`, with or without a database; `Signal`, `ForceExit` and `Crash` end the process. `Flush`
contains every outcome of the code: nothing queued, no database (dropped and counted), rows that throw, rows
that `INSERT OR IGNORE` skips because their seq or their (tool_use_id, type) is taken, and a BEGIN or COMMIT
that fails and spills the batch -- with or without the spill file being written, and in the case of COMMIT
with counters already advanced.

### `Stream`

`ring`, `ringBytes` and `sub[c]` (the fields of `Subscriber`) are the code's; `wrote` is what the socket was
given, `said` what this process broadcast, and `base` the cursor a connection is owed events from. `Pump`
returns a set of states, because `res.write()` may ask for a drain after any frame or throw at any frame.
`Broadcast` is ring, then every subscriber; `Connect` is the whole synchronous part of `handleStream`, with
`Replay` folding the ring into the queue;
`Drain` the one-shot drain handler. That broadcasts come in seq order is what `Collector` shows
(`StreamedInSeqOrder`).

`Feed` says what a connection may rely on, without ring, queue, byte or back-pressure: the log `said`, and
per connection what it asked for and `got`, where a notice of loss (a `_gap` or a `_dropped` frame) stands
among the seqs. What it gets stays a strictly increasing part of what was said and asked for, and before
every event that comes, each one that was due and did not come has a notice in its place. `Stream!IsAFeed`
maps each `sub[c]` to such a connection, frame by frame of its `wrote`: a data frame is its seq, a notice of
loss is 0, and `_ready`, which says nothing of either, is -1 (`Told`).

`StreamAssumption` lets no frame be larger than the ring (64 MiB) or a subscriber's queue (8 MiB):
`streamFrame` (742-751) leaves the payload out when the data exceed 64 KiB, and what remains is a seq, a time
and four names. Only an event whose names alone take megabytes would break it.

### `Lifecycle`

| Variable | In the code |
|---|---|
| `pc[p]` | how far a process is in `startServer` and `shutdown` (3782-3841) |
| `SEQ[p]`, `q[p]` | each process's `SEQ` and write queue |
| `open[p]` | connections with a request or a stream under way, which `server.close()` waits for |
| `socket`, `pidfile` | who listens on the port, whom `server.pid` names |
| `events` | the one `events` table of the data directory |
| `backfill`, `maxSeq` | how far `backfill --write` is, and the `MAX(seq)` it read (367) |
| `acked`, `ignored`, `served`, `outdated` | history: events acknowledged, acknowledged rows that `INSERT OR IGNORE` dropped, processes that have listened, processes past whose seed somebody else could store rows |

`Start` is a spawn by `obs-lazy-start` (its probe of the port may be outdated, so it does not restrain
anything), by hand or by systemd. `Seed`, `Listen`, `AddressInUse` and `Probed` are the steps of
`startServer`; `Receive` and `Flush` are the ingest path without its failures, which are `Collector`'s;
`Signal`, `Closed` and `ForceExit` are `installShutdown`, and `Kill` any other end. `server.close()` gives
the port up at once, so `Signal` frees `socket` while `Receive` and `Flush` go on for the connections the
process has. `BackfillChecks`, `BackfillReads` and `BackfillWrites` are the import.

### `Turns` and `MCTurns`

`Turns` has `buildTurns` and `attachTurnCosts` as functions of a session's rows and a clock: `PreOf`/`PostOf`
pair the halves of a call anywhere in the session, `Segments` folds the rows into turns (a prompt opens one,
unless it was `Queued` in a running loop; a Stop or Post may be `Raced` by the next prompt), and `BuildTurns`
adds calls with their status, waits, the split of the wall clock, the flags and the tally. `Charged` says
which turn pays for a usage row. Payloads are reduced to what the flags compare. `LoopsAreTurns` and
`ChargedToOne` say of any rows what their turns must be. `MCTurns` lets events arrive one at a time in any
order (`Arrives`), or calls of one turn (`Called`); `SpecTurns` is that specification, its constants bound
how many.

### `Materializer`

One session's `events`, `usage`, `turns`, `turn_cursor` and label. `Sweep` is `turnCandidates` and
`materializeSession`: skip, freeze (`Beheaded`: the first row is above the anchor), or `Reconciled` with a
new `Watermark` and residual. `Tick` is the clock with its sweep, which may fail or be missed; `Retention`
is `runRetention` whole -- sweep, label, trim --; `Rebuild` the CLI's `--rebuild`; `Restart` reseeds `SEQ`
from what is left. Retention by age, by number and by size all trim the oldest rows, so one parameter, how
many, stands for them.

### `UsageTail`

The lines of a main transcript and of subagent files, the `usage` rows, a bookmark per file, and two
processes that parse: the server, on a trigger, and `ingest-usage`. `Trigger` is the schedule with its busy
set, `Begin` the `setImmediate`, `Chunk` one read and one transaction (`Ingested` runs `Fold` over the lines of
the chunk and `Flush` at each change of message, `Upserted` writes the row), `CaughtUp` goes on to the subagent
files, `ChunkFails` and `Crash` are what can go wrong, `Rescan` drops the bookmarks.

### `Reports` and `MCReports`

`Reports` has the read-only endpoints as functions of the tables: `EventsPage`, `SessionList` made of its
live and its archival half, `DrillDown`, `Overview`, `ToolStats`, tokens in every grouping, `Guards`,
`Nudges`, `DbQueries`, `FleetTurns`. Prices are small numbers and rounding is left out. `MCReports`
generates the tables: a behaviour is about sessions of events (`MCTurns`), the tables behind the session
list (with a short materializer and retention), usage rows, custom events, or an import.

### `Backfill`

opencode's own record of one session grows (`Say`, `Work`, `Rest`); `Import` is one run of
`backfill --write`: skipped when the cursor file knows the session, otherwise `BuildRows` appended through
the unique index, after `Cleared` with `--force`; the cursor is written after COMMIT and may not be.
`Live` is the plugin reporting prompts, halves of calls and bus events of the same session.

### `ContextDocs`

| Variable | In the code |
|---|---|
| `mirror`, `sidecar` | the mirror directory and `.hub-cache.json` |
| `ledger`, `torn` | the project's ledger file as it was last written whole, and whether it has been cut off since, or is gone |
| `hook[s]` | the hook process of a session: how far it is, and its copies of sidecar and ledger |
| `server`, `prompts` | the hub's versions (external); how many prompts a session has submitted |
| `context`, `raced`, `forgotten` | history: what was injected, items fetched twice at once, and sessions something of which the ledger has lost |

`Prompt` starts a process, which asks the hub for the index (`IndexStale`), matches (`Match`, any of the
`Candidates`, or none), goes through
the candidates (`Candidate`: skipped, asked for, or read), and ends by saving the ledger, after which the
blocks are cut to the budget and injected. Saving is two steps, because `writeFileSync` cuts the file off
before it writes it: `Truncate`, then `Finish`; `Unsaved` is the write that fails, or leaves the end of another
process's longer text behind, and is swallowed. `LoadLedger` takes what it cannot read for an empty ledger, be
it half-written by a process that goes on or was killed, or deleted with the temporary directory (`Cleared`). `Asked`, `Received`, `Save`, `NoAnswer` are one conditional
request with the two files it writes; `TimesOut` is the runner giving up while the provider runs on;
`Exits` the process ending anywhere.

### `ContextPlan`

What one process of the hook decides, as functions of what it reads: `LoadConfig` merges the default profile
with the user's and the project's list (an entry takes the place of the one it replaces), `SelectProviders`
keeps the ones of this event and adds the bundled ones nobody switched off, `Matched` scans the entries of
the three layers of indexes, `CharBudget` merges what the two configurations say of budgets, event by event,
`BudgetFragments` ranks and cuts, and `RunContext` puts configuration and budget together. A text is its
length and the places of its spaces, because `Cut` trims what it has sliced before it appends the ellipsis.
The actions only produce the inputs: somebody writes a configuration (`Configure`), a budget (`Limit`) or an
index (`Curate`), the plugin ships one (`Ship`), providers come back with texts (`Collect`). Each behaviour is
about a list of providers, about budgets, about indexes or about texts.

### `Guards`

`Compose` makes a command line of segments; `Decide` is `tool.execute.before` up to its first await:
bash-guard's verdict (a choice), then `Verdict`, which is `decideGit` folding `Judge` over the segments with
the directory and the branches it follows, starting from the branches it could read (`seen`) and whether the
text has a subshell; `CountAttempt` the count of identical refusals; `FailOpen` the exception path. Then the line is refused (`Throw`), tried again (`Retry`), or run: `RunCd`, `RunSwitch`,
`RunOther`, `SegmentFails` and `BranchMoves` are the shell, git and other people, and external.

## 4. The runs

| Run | Instance | States | Shows |
|---|---|---|---|
| `collector_ingest` | 2 keys, sizes 1-2, budget 3 bytes, batch 3, dedup cap 1, 3 posts, 2 at once, 1 boot | 0.79 M | types, `QueueBounded`, `ByteBudgetKept`, `NothingLostUncounted`, `CountersAddUp`, `DedupMapSound`, `StreamedInSeqOrder` |
| `collector_restart` | 1 key, size 1, batch 2, 3 events over 2 boots, fair | 0.1 M | `SeqIsFreePrimaryKey`, `RowsArriveInSeqOrder`, `CleanStopLeavesNothingQueued`, `EveryEventLeavesMemory` |
| `collector_reissue` | 3 events, 2 boots | violation | `SeqNeverReissued` does not hold (section 6) |
| `stream_resume` | 1 connection, 2 kinds, sizes 1-2, ring 3 bytes, queue 2 items / 3 bytes, 3 seqs, 2 boots, fair | 86 k | types, `BuffersKept`, `LossAnnouncedInPlace`, `DropCountsAreExact`, `QueuedEventsLeave`, `IsAFeed` |
| `lifecycle_span` | 2 processes and the backfill, 3 events, 1 connection each, fair | 83 k | `LossNeedsOutdatedSeed`, `NoZombie`, `EveryStopEnds` |
| `materializer` | 3 events, 1 call, 1 usage row, clock to 2, 1 fault | 0.52 M | `RowsMatchDrillDown`, `NoHoleUnlessMissed`, `HistoryKept` |
| `materializer_residual` | 3 events, 1 call, 1 usage row, clock to 4, no fault | violation | `CostIdentity` does not hold (section 6) |
| `reports` | sessions of 5 events, turns of 4 calls, 4 stored events of 3 sessions, 2 usage rows, 3 custom events, 3 imports of 2 messages | 0.36 M | `TurnsAreLoops`, `AnsweredTurnsAreFinal`, `TimeSplitSound`, `FlagsAsDocumented`, `ChargedOnce`, `ListedOnce`, `ViewsAgree`, `ImportedOnce` |
| `usage_tail` | 3 lines, of them 1 in a subagent file, 2 disturbances, fair | 0.12 M | `NothingSkipped`, `FollowsTheOneBefore`, `TriggeredIsRead` |
| `context_docs` | 2 sessions, 1 document with a hub, 3 prompts, 2 versions of it, a clock to 3 against a TTL of 2, 1 fault; or 2 configuration entries, budgets of 2 layers for 2 events, 3 index entries over 2 documents and 2 keywords, 3 texts of up to 5 characters | 1.9 M | `ConfirmedIsInjected`, `NotTwiceWithinTtl`, `InjectsAsConfigured` |
| `context_budget` | 2 documents, budget 1, 2 prompts | violation | `SkippedIsInContext` does not hold (section 6) |
| `guards` | lines of 3 segments, 2 checkouts of which one has 2 directories, 2 branches, 1 fault, 3 attempts | 2.7 M | `NothingLandsInSight`, `RefusedForCause`, `RepeatsCounted` |

Why the bounds are enough.

* `Collector`. Every limit of the code is reached: three records of up to two bytes overflow a budget of
  three, so drop-oldest takes none, one or several; three rows fill a batch of three, and two kept rows are
  one short of it; two keys against a cap of one evict, and one key twice meets the TTL on either side. Two
  boots give a seed over rows, over an emptied table and over none.
* `Stream`. A frame of two evicts two of one; a queue of two items overflows by items and, with sizes two
  and one, by bytes before items; with three seqs a reader stalls, drops, drains and drops again. A
  connection never looks at another one, so one is enough, reused after it ends.
* `Lifecycle`. Two processes are a leaving and a starting one, or two that race for the port; the import is
  a third writer. Three events are one lost and one on either side of it. The theorem of section 7 depends
  on neither number.
* `Materializer`. Three events are a prompt, a call and what follows it, or three prompts of which two
  settle; the orphan age is one sweep away in one run and two in the other, so that a turn settles by age,
  by a successor and by the end of the session, before and after a trim of any number of rows.
* `Turns` and `Reports`. What these runs say of turns is proved of sessions of any length (section 7). Five
  events hold a queued prompt between a Pre and its Post with a Stop on either side, and a permission dialog
  within a call; four calls hold each threshold of two with an interruption and a repetition. Four stored events
  over three sessions fill a limit of one and of two from both halves of the list. Two usage rows are
  enough for every grouping to add something up; three imports are one that lost its cursor, one that
  repeats it and one that is forced.
* `UsageTail`. Three lines are a message over a chunk boundary with one before or after it, in one file or
  two; two disturbances are a rescan beside the server, a crash after a failure, and so on.
* `ContextDocs`. Two processes overlap in every order of their file accesses, the two steps of a write
  included; three prompts are two of one session and one of another between them, or three of one. The clock
  goes from 1 to 3: entries are fresh one tick after they were noted and expired after two, for the ledger,
  and expired after one, for the index. Two versions of the document make an ETag stale. To keep the run short
  (`Bounded`), the index keeps its version, and the clock only reaches 3 while the document keeps its own:
  dedup does not look at versions, and an ETag does not look at the clock. One fault is a failed request, a
  timeout, a kill, a failed write or a deleted ledger; two in one behaviour are for the proofs.
* `ContextPlan`. Two entries are the user's against the project's, or two in one file; three index entries
  over two keywords are a document that is shadowed, half shadowed, or in two layers; three texts of up to
  five characters, with spaces anywhere within, meet every budget from nothing to above the cap: whole, cut
  off where the least length or more is left, trimmed to less than that, and dropped. A configuration states
  a budget for this event, for another, for both or for none, and so does the other layer.
* `Guards`. Three segments are a `cd`, a switch and what they lead to.

The constants named `Max...` only bound the exploration, unless the module says that they are the code's.
Behaviours end when the bounds are used up, and a stopped collector really stops, so deadlock is not
checked.

Properties whose conditions are worth reading. `CountersAddUp` and `NothingLostUncounted` need care because
a failed COMMIT leaves rows counted as flushed *and* spilled, ignored rows are counted as flushed, and a
durable process without a database stores nothing and counts nothing (`storeOne` returns); the last is
excepted in the properties and listed as a hazard. `ConfirmedIsInjected` excepts a document that two
processes fetched at once: the older body may be written last and the newer ETag noted last.
`InjectsAsConfigured` excepts an id
that one file lists twice: it is merged by its last entry, while `configEntry` reads its first.
`NotTwiceWithinTtl` excepts a session something of which the ledger has lost, and there are three ways to
that: another session wrote the whole file back from a copy that lacks it (read before it was noted, or from
a file it could not read); the session's own hook found the file cut off, half-written or gone and took it for
empty; or the hook could not write it, and injected the document all the same. The code calls the ledger
best-effort (`ledger.mjs:4-6`), so none of them is a bug; the property says that there is no fourth.
`RowsMatchDrillDown`, `NoHoleUnlessMissed` and `HistoryKept` except a `SEQ` that started over below the
session's seqs, which retention down to an empty table and a restart bring about: events that come then are
below the freeze anchor or the watermark, so a session that has lost its head is not recognised as such, and
one with new events is taken for one already seen. `NothingLandsInSight` lists in its comment what git-guard cannot see. In
each case the history variable marks the exact race, so that the property still says that there is no other.

## 5. Fairness

`Collector` assumes weak fairness of `RunImmediate` and `TimerFlush`: Node's event loop runs queued
`setImmediate` callbacks and due timers as long as the process lives. No request, signal, database outcome
or retention pass is assumed to happen. `Stream` assumes it of `Drain(c)` for the connections in `Readers`,
clients that go on reading their socket. `Lifecycle` assumes it of `Seed` and of
`Listen(p) \/ AddressInUse(p)` (a started process runs on, and `listen()` ends one way or the other), of
`Probed` (`probeHealth` resolves within its one second, whoever holds the port) and of `ForceExit` (the
grace timer, 3786). No client is assumed ever to finish a request, so `Closed` has no fairness. `UsageTail`
assumes it of the server's parse as a whole (`Begin`, `Chunk`, `CaughtUp`), a chain of one immediate and the
reads that follow it, while failures and crashes may happen instead as often as the bound lets them; the
CLI may stop anywhere.

## 6. What the checks found

`docs/agent-dashboard-collector-design.md:184` says that seeding `SEQ` from `MAX(seq)` keeps seq growing
across restarts, so that `Last-Event-ID` and query cursors stay in step. `collector_reissue` shows where it
does not: an event is answered 202 with its seq and streamed, the process dies before the 50 ms flush, the
next process seeds below that seq and gives it to another event. A stream client that resumes after the
first event is past the second. As long as one process at a time uses the table, seq stays unique and
ordered in it (`SeqIsFreePrimaryKey`).

`core/observability/README.md:62-69` says that only settled turns are stored, never the open last turn, and
that `unattributed = session total - sum of settled` keeps the cost identity exact.
`materializer_residual` shows a session whose last turn is settled because it was idle; it resumes, the turn
is open again, and `materializeSession` takes its cost back into the residual but does not delete its row:
the DELETE (2414) spares every turn that exists, where the design
(`docs/agent-dashboard-fleet-turns-design.md:130`) spares the settled ones. Until the turn settles again,
the fleet view counts its cost twice. `RowsMatchDrillDown` is what does hold of the rows.

`core/context/lib/providers/keyword-docs.mjs:33-35` says that a document is skipped so as not to re-inject
what is already in context. `context_budget` shows one that is skipped although it never was in the context:
it is marked as given (263) before `budgetFragments` cuts the blocks to the event's budget, or the runner's
timeout drops them.

Three more observations, which no run states as a property. `budget.mjs:13` says of `MIN_KEEP` that a text
that "would truncate below this" is dropped whole; the code compares the *room* with it (29), and trims after
it has sliced, so a text whose room ends in spaces or empty lines is kept although it gets shorter than that.
`BudgetSound` says what does hold: nothing but spaces is missing of what the room could take.
`core/observability/README.md:129` calls the
listening socket the single-instance lock; it is taken after the seed (3816 before 3834) and given up before
the last flush (3788 before 3789), so two processes can hold overlapping seqs for the length of a shutdown.
`LossNeedsOutdatedSeed` says exactly when that costs an event. And `shutdown` unlinks the pidfile by path,
also when it names a successor by then; `stop` and `status` ask `/health` and do not depend on it.

The materializer's candidate scan leaves a session alone two orphan cutoffs after its last event (2459-2464).
That is late enough for a call to become an orphan, and for the last turn to stop being `open` only as long
as `ACTIVE_MS` is below two cutoffs (`RecheckAssumption`). The two are equal by default (65, 77), but the
cutoff is configurable (`turns.orphan_after_ms`, 3725; `OBS_TURN_ORPHAN_MS`): set below half of `ACTIVE_MS`,
a last turn that an ended session settled as `open` keeps that status in its row for good, while the
drill-down calls it interrupted. The proof of `RowsMatchAlways` is where this came to light; no document
promises otherwise.

## 7. Proofs

Nothing below depends on the bounds of section 4: the theorems hold for every value of the constants that the
named assumptions of the modules allow, and for behaviours of any length.

### Induction, and folds over sequences

Queues, transcripts, command lines and frames are folded over, so most invariants need to know what a fold
does when a sequence grows, shrinks or is cut. The library's induction theorems take a predicate as a
parameter, which no installed backend instantiates. `SequenceFolds` goes another way: finite sets are well
founded under strict inclusion (a library theorem about a *set*), hence every non-empty set of numbers has a
least element (`LeastNumber`), hence a set of numbers that holds 0 and every successor is all of `Nat`
(`Induction`), and the same for sequences by length (`SequenceInduction`). The module has the folded operator
as its CONSTANT and says of `Value(base, s)`: it is the base for the empty sequence, `op` applied to the rest
for an appended element (`ValueAppend`), stays within a set that `op` keeps (`ValueType`), of a concatenation
goes on from the first part (`ValueConcat`), and a sum starting elsewhere is that much larger (`ValueAdds`).
`ValueUnfolded` relates it to `FoldLeft` of the community modules. Each proof module instantiates it with what
it folds: bytes of rows and frames, counts of markers, replayed events, judged segments, rows inserted by an import.

### `CollectorProofs`

Assumed (`CollectorAssumption`): the budget is natural, a record is no larger than the budget, batch and cap
are positive.

* `TypeCorrect` -- `TypeOK`.
* `QueueAlwaysBounded` -- `QueueBounded`, and `CleanStopAlwaysEmpty` -- `CleanStopLeavesNothingQueued`, from
  `QueueInv`: every handler leaves fewer than `BatchRows` rows, therefore the single `flush()` of the next
  handler, of retention or of shutdown empties the queue.
* `ByteBudgetAlwaysKept` -- `ByteBudgetKept`, inductive as it stands once the sum over a queue can be cut at
  any place (`BytesSplit`): the loop that drops rows and the splice of a flush both take a prefix off.
* `SeqAlwaysFree` -- `SeqIsFreePrimaryKey`, and `RowsAlwaysArriveInOrder` -- `RowsArriveInSeqOrder`, from
  `OrderInv`. Neither is inductive as stated: the invariant orders the three places an event passes through
  (deferred, queued, stored) by seq, keeps all of them at or below `SEQ`, and says what of it still holds of
  a process that has no database or is not alive, so that `Boot` can start from it.
* `AlwaysStreamedInOrder` -- `StreamedInSeqOrder`, from `OrderInv` and `StreamedInv`: what this process has
  streamed is at or below `SEQ` and below everything that is still deferred.
* `DedupMapAlwaysSound` -- `DedupMapSound`, from `MapInv`, which names the acknowledged event behind each
  entry by its place in `acked` after `mark`; a refresh of an entry moves it to the end, an eviction takes
  any number off the front.
* `CountersAlwaysAddUp` -- `CountersAddUp`, from `CountersInv`, with one lemma per layer of the write path
  (`CommitEffect`, `SpillEffect`, `FlushEffect`, `EnqueueEffect`) that says how a call moves rows between
  the queue, the table and the counters; the callers only compose them.
* `NeverLostUncounted` -- `NothingLostUncounted`, from `LossInv`. The property compares the number of lost
  events with counters, of which `spilled` also counts rows that are *not* lost, so the invariant puts them
  on the same side: lost events and this process's rows in the spill file together are no more than what the
  counters excuse. Each outcome of a flush is then a statement about how many rows leave the queue for
  neither the table nor the spill file.

`RunRetention`, `ServerClosed`, `TimerFlush` and a full batch share the lemmas about `Flush`.

### `StreamProofs`

Assumed (`StreamAssumption`): budgets are natural, those of a subscriber positive, and any one frame fits.

All of it comes from one invariant, `StreamInv == TypeOK /\ RingInv /\ SubsInv`. `RingInv`: the ring is the
end of a log without holes whose seqs rise to `cast`. `SubsInv` keeps an `Account` of every open connection,
in what it was written, what is queued and what the next marker will count:

* data frames rise from what was written into what is queued, and come from what is owed;
* a missing seq lies in the `_gap`, at a `_dropped` marker ahead of all that is queued, or where the next
  marker will be (`Noticed`);
* the counts of the markers, the frames, and the `_ready` that is there or not add up to what is owed outside
  the gap, and one greeting (`Tally`). `DropCountsAreExact` speaks of what is missing; only the sum over what
  is *owed* is kept by a step that moves a frame from the queue to the socket.

The account is kept by each piece of a handler: taking the head of the queue, writing the marker, queueing a
frame, dropping any number from the front, a replay (by induction over the ring) and a gap. `Pump` and
`Broadcast` compose these, for a drain asked for, or a throw, at any frame. It follows:

* `AlwaysStreamTyped` -- `TypeOK`; `BuffersAlwaysKept` -- `BuffersKept`; `LossAlwaysAnnounced` --
  `LossAnnouncedInPlace`; `DropCountsAlwaysExact` -- `DropCountsAreExact`.
* `StreamIsAFeed` -- `Spec => IsAFeed`, the refinement. An account is honest towards what was said
  (`AccountHonest`), what a connection got only grows (`GotGrows`), and every action is a step of `Feed` or
  stutters (`FeedSteps`): broadcasts, connects and drains are `Serve`, a new process is `Renew`.

### `UsageTailProofs`

* `NothingEverSkipped` -- `NothingSkipped`, and `AlwaysFollowsTheOneBefore` -- `FollowsTheOneBefore`, from
  `TailInv == LinesOk /\ Table(usage) /\ CursorOk /\ ParseOk`. The properties only speak of the table and the
  stored bookmarks; the invariant says the same of the bookmark a *parse under way* holds (`ParseOk`), since
  it becomes the stored one, and of what a bookmark carries on (`Carried`: ids of the last main-chain message
  before it). Rows stay true because a transcript only grows (`Grown`). Within a chunk, `Good` is what holds
  of the fold after n lines: each of them is in the rows, or belongs to the message under way.

### `GuardsProofs`

Assumed (`GuardsAssumption`): checkouts share no directory, the names for "here", "unknown" and "none" are no
directories or branches.

* `RepeatsAlwaysCounted` -- `RepeatsCounted`, from `CountInv`, which says where the count is one ahead.
* `NothingEverLandsInSight` -- `NothingLandsInSight`, and `AlwaysRefusedForCause` -- `RefusedForCause`, from
  `SightInv`. A judgement is `Sound` if, as long as nothing was out of its sight, the directory it follows and
  the branches it knows are the true ones; each kind of segment keeps that. When a line runs, `Follows` says
  that the shell is, after n segments, where the judgement of those n segments said it would be, and on the
  branches it said; so a segment that lands somewhere would have been refused.

### `MaterializerProofs`: the materializer

Assumed (`TurnsAssumption`, `RecheckAssumption`): the cutoffs are natural, and the active window is shorter
than two orphan cutoffs; only `RowsMatchAlways` uses the second.

Two groups of lemmas come first. One is about `Turns` for sessions of any length: a turn is made of the
session's own events (`SegmentsType`, by induction over the fold), and when all events of a session are older
than both cutoffs, nothing that `buildTurns` says of it depends on the clock any more (`CallsAged`,
`StatusAged`, `BuiltAged`, `TurnsAged`). The other is about the watermark: whatever a handler does, the new
watermark has the anchor of the old one and is not ahead of it, or was written for the events as they are
(`MarksFollow`). From these the invariant
`IInv == Stored /\ Told /\ Watermarked /\ Pinned /\ (reseeded \/ Seeded)`, of which the last part holds until
`SEQ` starts over:

* `HistoryKeptAlways` -- `HistoryKept`. The rows of a turn whose events are gone survive because the session
  is recognised as beheaded *whenever it has events*: the anchor is at or below every event that is left
  (`Anchored`), and strictly below once a trim took something (`Headless`), also while the session is empty
  and about to resume. The label is taken before the first prompt can go (`Pinned`).
* `NoHoleAlways` -- `NoHoleUnlessMissed`. A trim follows a sweep that derived the turns anew, or left the
  session out. `CaughtUp` says when the latter happens, and then the settled turns have their rows: they had
  them when the sweep last ran, nothing has come since, and the clock settles no further turn of a session
  that is idle already (`SettledAged`).
* `RowsMatchAlways` -- `RowsMatchDrillDown`, with `InStep` on top of `IInv`: a sweep that derives makes the
  rows match (`DerivedMatch`), and between a sweep that left the session out and the one before it nothing
  the drill-down says has changed (`MatchAged`).

### `MaterializerProofs`: the turns

The second half of the module is about `buildTurns` itself, in `MCTurns`' sessions of any length. `Numbered`
says of a session what the store guarantees: its events are numbered in the order of arrival. Nothing else is
assumed of them; a Post may have no Pre, a Stop no prompt, and ids may repeat.

* `TurnsAlwaysLoops` -- `TurnsAreLoops`, from `LoopsAlwaysTurns`, which holds of any numbered rows. The
  induction is over the events already placed (`Loops`): each opens one turn or lies in exactly one; a turn
  with a prompt, one of whose calls is answered after the next turn began, had seen a Stop before that; a
  prompt lies within a turn only if a call of that turn was made before it and answered after it
  (`PlaceLoops` for one event, `SegmentsLoops` for all).
* `AlwaysChargedOnce` -- `ChargedOnce`, from `AlwaysChargedToOne`: whatever ids a usage row names. A call has
  one Pre, the Pre lies in one turn (`CallInOne`), and the turn charged is the one of the first id that was
  made at all (`FirstHit`).
* `AnsweredAlwaysFinal` -- `AnsweredTurnsAreFinal`, the fact the materializer's settle rule rests on. Its
  invariant adds `Identified`: calls have ids of their own and only calls that were made are answered. A new
  event acts on the turns before it in two ways: as the last of the session, and by answering a call, whose
  Pre then is no longer open when the prompts after it are judged. So the proof compares two folds over the
  same events, one that sees the answer and one that does not: they agree, or they are `Apart` only from the
  turn on that holds the newly answered call (`SegmentsApart`), and a turn whose calls, and those before
  it, are all answered lies ahead of that (`SegmentStands`). That the turn also *reads* the same -- calls,
  status, waits, split, flags, tally -- is `BuiltStands`.
* `FlagsAlwaysDocumented` -- `FlagsAsDocumented`, for a turn of any number of the calls of section 4. Each of the
  two sweeps has an invariant that says what it knows after `n` calls. `DupInv`: there is one original of every
  key seen, never itself a repetition, and, as long as nothing was found, it is the last call of its key: so
  what invalidates a repetition of it invalidates every earlier one, and nothing is missed. `RetryInv`, both
  ways: the count in hand is that of a chain that exists (`InHand`), and no chain that could still grow is
  longer than it (`Counts`); so a chain is reported exactly when there is one. `re-read` is a count, and rests
  on `PartOfSize`, that a finite set has a part of every smaller size.
* `TimeAlwaysSplits` -- `TimeSplitSound`, from `TurnsAlwaysSplit`, which holds of any numbered rows with times.
  Three steps. The sweep: the intervals are put in order of their start (`PutInOrder`), and after each of them
  what is covered so far is a set of `total` instants, all before the open interval, and that interval
  (`MeasuredStep`); so `UnionMs` is the size of the union (`UnionMeasures`). The sizes: those of sets that
  share no instant add up to the size of their union (`SizesAddUp`). The turn: a wait is the size of the part
  of its dialog's span that ends with it (`Part`), and when the dialogs lie apart these parts share no instant
  with each other, with the tool time of other calls, or with that of their own call, from which the wait was
  carved (`TurnSplits`). What that asks of a turn (`Timed`: times are numbers, no event is listed twice, an
  event has one enclosing call at most) holds of every turn of a session (`SegmentTimed`), in whatever order
  the times of its events are. `Clocked`, that events have times, is the invariant beside
  `Numbered`.

### `ContextDocsProofs`

Assumed (`ContextDocsAssumption`): the documents are finitely many, those of the hub are among them, the
index is not one, the TTLs are natural.

* `NoDocumentTwice` -- `NotTwiceWithinTtl`, from `Inv`. What is in a session's context says nothing of what a
  process may still add, so the invariant follows a document there: a session's entry in the ledger is at
  least as late as what it was given (`Recorded`), a process past matching knows at least as much of its own
  session (`Informed`), the document under way is due (`Due`), and the text it has collected holds each
  document once, a TTL later than the context does (`Waiting`) -- all but the types only for sessions of which
  the ledger has lost nothing (`forgotten`). Ten of the fifteen actions of a process touch none of this
  (`QuietSteps`); the other five have a lemma each, or share one, as the two ends of a write do.
* `ConfirmedAlwaysInjected` -- `ConfirmedIsInjected`, from `FreshInv`: of a document no two processes fetched
  at once, the mirror is at most the hub's version and every ETag, in the sidecar or in a process's copy of
  it, at most the mirror's (`Vouched`); what a process holds confirmed is on disk once it is past saving
  (`Truthful`); so what it collects is at least as new (`Grounded`). The order of the two writes, body before
  ETag, is what keeps it when a process dies between them.

### `LifecycleProofs`

For any number of processes and events:

* `LifecycleTypes` -- `TypeOK`, which no run checks: `LockInv` rests on it.
* `LossOnlyFromOutdatedSeed` -- `LossNeedsOutdatedSeed`, from `LockInv`: what a process's stage says of it
  (`StageInv`), and, while nobody with an outdated seed has served, that at most one process serves, that
  its `SEQ` is above every row and its queued rows are free, and that a candidate whose seed is not outdated
  has nobody beside it (`SoleWriter`). The property alone says nothing of a state without loss; the
  invariant says why the next flush loses nothing.

For any number of messages, calls, steps, imports and rows of the plugin, assuming that a row without a call
(`NoCall`) is told from a call's number (`BackfillAssumption`):

* `AlwaysImportedOnce` -- `ImportedOnce`, from `ImportInv`. A call belongs to one message, and its number was
  given once (`Spoken`); the table and the rows last read hold only halves of calls opencode knows (`Filed`):
  so half a call of the plugin stands for the same half of the import, and `INSERT OR IGNORE` drops no row
  that is not there already. While no cursor is lost, each row of the last import is there exactly once or
  the plugin's in its place, and a session the cursor file does not know has never been imported (`Traced`);
  this second half is what the run without `--force` needs, as it clears nothing. Usage is the last import's
  and only grows (`Counted`), what the plugin reported is there or was before it (`Heard`). The transaction is
  a fold of `Inserted` over the rows that were built: `InsertedGrows`, by induction over them, says what the
  table holds at its end, `BuiltOnce` that `BuildRows` has no row twice.

### Only model-checked

The liveness properties (`EveryEventLeavesMemory`, `QueuedEventsLeave`, `NoZombie`, `EveryStopEnds`,
`TriggeredIsRead`), as liveness under fairness is beyond this prover. `ListedOnce`,
`ViewsAgree` and `InjectsAsConfigured`, of `Reports` and `ContextPlan`, compare two computations over whole
tables, and a proof of each is a development of its own.
The three properties of the runs that expect a violation are false, and TLC shows it.

## 8. Not modelled

* In `Collector`: which values redaction replaces; schema migration; rotation of the spill file (which may
  overwrite the previous one); an automatic rollback inside SQLite in the middle of a batch, after which
  later rows would be committed one by one and the batch be spilled as well. Time is only the order in which
  entries expire.
* In `Stream`: the keep-alive comment (it carries no event), truncation of large payloads (a size), HTTP.
* In `Lifecycle`: which client sends what, how a flush fails, durable mode, retention, a process without a
  database (all in `Collector`); `status`, and whom `stop` asks.
* In `Turns`: the flags that compare one number of a built turn with a threshold (long tail, gap heavy, mega
  turn), and the text of markers. In `Reports`: the latency percentile of the overview, the defaults of
  windows and limits, rounding, everything HTML.
* In `Materializer`: several sessions and the limit of sessions per sweep; the recheck window of usage that
  arrived while the collector was down; a change of the segmentation's version. In `UsageTail`: lines longer
  than a chunk, which the parser never gets past; the cap of 32 ids on a bookmark; a rewritten transcript.
* In `Backfill`: opencode's schema and its discovery, the dry run, `install`. In the plugin:
  `permission.ask`, which gives the same verdict a second time; the mode that lets an ask through to the
  user; the clipping of payloads.
* In `ContextDocs` and `ContextPlan`: the statistics file, the syntax of files, how a keyword is looked for in
  a prompt, a provider's params, and the difference between a pointer and a body. The other providers format
  a git or clock reading.
* In `ContextDocs`: a write of the mirror or the sidecar that fails or is torn. In `ContextPlan`: a budget that
  is no number.
* In `Guards`: a segment is a command that git-guard has a rule for, so nothing is said of a push of `HEAD` or
  `--all`, or of a cherry-pick. Lexing (`shell-lex`) and bash-guard's regular expressions are text; a command is its
  segments, bash-guard a verdict.
* Across modules: cursors from before a restart, where the empty new ring sends no `_gap`; turn rows after
  `--force`. Both are on the plan.
* Not at all: the dashboard's browser code, the lint hook, the skills and their drawing scripts (layout and
  text, no state), and the install links.
