------------------------------ MODULE Collector ------------------------------
(***************************************************************************)
(* The ingest and storage half of the observability collector              *)
(* (src/core/observability/server.mjs): POST /events, the in-memory dedup  *)
(* gate, the acknowledgement, the deferred post-ack work, the byte-bounded *)
(* write queue, the batched flush into SQLite with its spill file, the     *)
(* trimming of stored rows, and the process around them: boot (which seeds *)
(* SEQ from the database), graceful shutdown, forced exit and crash.       *)
(*                                                                         *)
(* JavaScript runs one callback at a time, so one action is one callback   *)
(* run to its end or to its first await.  What interleaves is which        *)
(* callback the event loop runs next, the end of the process between any   *)
(* two of them, and the outcome of each call into SQLite or the file       *)
(* system.                                                                 *)
(***************************************************************************)
EXTENDS Naturals, FiniteSets, Sequences, SequencesExt

CONSTANTS
  Keys,        \* dedup keys: a tool_use_id together with a hook_event_type
  NoKey,       \* an event that carries no tool_use_id
  Sizes,       \* lengths JSON.stringify(rec) may have
  QMaxBytes,   \* Q_MAX_BYTES, the byte budget of the write queue
  BatchRows,   \* BATCH_ROWS, the most rows one flush takes
  DedupMax,    \* DEDUP_MAX, the cap of the dedup map
  MaxEvents,   \* bound: events accepted in a behaviour
  MaxPosts,    \* bound: requests one process receives
  MaxReading,  \* bound: requests whose body is being read at once
  MaxBoots     \* bound: times a process is started

ASSUME CollectorAssumption ==
  /\ NoKey \notin Keys
  /\ QMaxBytes \in Nat
  /\ Sizes \subseteq 1 .. QMaxBytes
  /\ BatchRows \in Nat \ {0}
  /\ DedupMax \in Nat \ {0}
  /\ MaxEvents \in Nat /\ MaxPosts \in Nat /\ MaxReading \in Nat /\ MaxBoots \in Nat

VARIABLES
  proc,      \* the process: "up", "closing" (signal seen), "stopped" or "crashed"
  db,        \* the backend opened; FALSE is the degraded mode (db === null)
  durable,   \* OBS_DURABLE of this process
  SEQ,       \* the last sequence number handed out
  seen,      \* the dedup map in Map order: the key and the seq that set its expiry
  stale,     \* entries of seen set at or before this seq have outlived their TTL
  reading,   \* requests suspended in readBody
  pend,      \* setImmediate callbacks not yet run, oldest first
  q,         \* the write queue
  qBytes,    \* its byte count, as the code keeps it
  qTimer,    \* the 50 ms flush timer is armed
  stats,     \* the counters of GET /health
  events,    \* the events table
  spillFile, \* the rows in spill.jsonl.gz
  archive,   \* the rows in archive/*.jsonl.gz
  acked,     \* history: every event a 202 was sent for, in order
  streamed,  \* history: every event handed to the SSE broadcaster
  mark,      \* history: Len(acked) when this process started
  boots      \* bound: processes started so far

memory == <<SEQ, seen, stale, reading, pend, q, qBytes, qTimer, stats>>
disk == <<events, spillFile, archive>>
vars == <<proc, db, durable, memory, disk, acked, streamed, mark, boots>>

(* A record as the ingest path carries it: `id' is its randomUUID.         *)
Rec == [id : Nat, seq : Nat, key : Keys \cup {NoKey}, size : Sizes]

Counters ==
  {"received", "accepted", "duplicate", "rejected", "flushed",
   "dropped_queue", "bad_row", "spilled"}

(* qBytes is left to ByteBudgetKept, which says exactly what it is.        *)
TypeOK ==
  /\ proc \in {"up", "closing", "stopped", "crashed"}
  /\ db \in BOOLEAN /\ durable \in BOOLEAN /\ qTimer \in BOOLEAN
  /\ SEQ \in Nat /\ stale \in Nat /\ reading \in Nat
  /\ mark \in Nat /\ boots \in Nat
  /\ seen \in Seq([key : Keys, seq : Nat])
  /\ pend \in Seq(Rec) /\ q \in Seq(Rec) /\ acked \in Seq(Rec)
  /\ stats \in [Counters -> Nat]
  /\ events \subseteq Rec /\ spillFile \subseteq Rec /\ archive \subseteq Rec
  /\ streamed \subseteq Rec

Alive == proc \in {"up", "closing"}
Elems(s) == {s[i] : i \in DOMAIN s}
Bytes(s) == FoldLeft(LAMBDA total, r : total + r.size, 0, s)
Inc(st, c, n) == [st EXCEPT ![c] = @ + n]

-----------------------------------------------------------------------------
(* Storage.  `table' is what the events table holds afterwards: events',   *)
(* unless the handler goes on to trim it.                                  *)

(* Two rows the events table cannot both hold: seq is its primary key and  *)
(* idx_dedup is unique over rows that have a tool_use_id.                  *)
Conflict(r, s) == r.seq = s.seq \/ (r.key # NoKey /\ r.key = s.key)

(* INSERT OR IGNORE over the batch, row by row: `bad' rows throw, and a    *)
(* row lands exactly when nothing already in the table, or landed from the *)
(* batch before it, conflicts with it.                                     *)
Lands(batch, bad, ins) ==
  \A i \in DOMAIN batch :
    i \in ins <=> /\ i \notin bad
                  /\ \A r \in events : ~Conflict(batch[i], r)
                  /\ \A j \in ins : j < i => ~Conflict(batch[i], batch[j])

(* Faulty: a row that throws is counted as flushed as well.                *)
AfterInsertsCountsBadRows(st, batch, bad) ==
  Inc(Inc(st, "flushed", Len(batch)), "bad_row", Cardinality(bad))

(* The counters after running the inserts of the batch, committed or not:  *)
(* flushed++ follows every run() that did not throw, ignored rows included.*)
AfterInserts(st, batch, bad) ==
  Inc(Inc(st, "flushed", Len(batch) - Cardinality(bad)), "bad_row", Cardinality(bad))

Commit(batch, st, table) ==
  \E bad, ins \in SUBSET DOMAIN batch :
    /\ Lands(batch, bad, ins)
    /\ table = events \cup {batch[i] : i \in ins}
    /\ stats' = AfterInserts(st, batch, bad)
    /\ UNCHANGED spillFile

(* Faulty: the batch is rolled back and forgotten.                         *)
SpillForgotten(batch, st, table) ==
  stats' = st /\ table = events /\ UNCHANGED spillFile

(* BEGIN IMMEDIATE fails before any insert, or COMMIT fails after them     *)
(* all; either way the whole batch goes to the spill file, unless that     *)
(* write fails too.                                                        *)
Spill(batch, st, table) ==
  /\ \/ stats' = Inc(st, "spilled", Len(batch))
     \/ \E bad \in SUBSET DOMAIN batch :
          stats' = Inc(AfterInserts(st, batch, bad), "spilled", Len(batch))
  /\ \/ spillFile' = spillFile \cup Elems(batch)
     \/ UNCHANGED spillFile
  /\ table = events

(* The splice of at most BATCH_ROWS rows that one flush() takes.           *)
BatchOf(queue) == SubSeq(queue, 1, IF Len(queue) < BatchRows THEN Len(queue) ELSE BatchRows)
RestOf(queue) == SubSeq(queue, Len(BatchOf(queue)) + 1, Len(queue))

Flush(queue, bytes, st, table) ==
  /\ q' = RestOf(queue)
  /\ qBytes' = bytes - Bytes(BatchOf(queue))
  /\ qTimer' = (RestOf(queue) # <<>>)
  /\ \/ /\ queue = <<>>
        /\ stats' = st
        /\ table = events /\ UNCHANGED spillFile
     \/ /\ queue # <<>> /\ ~db
        /\ stats' = Inc(st, "dropped_queue", Len(BatchOf(queue)))
        /\ table = events /\ UNCHANGED spillFile
     \/ /\ queue # <<>> /\ db
        /\ \/ Commit(BatchOf(queue), st, table)
           \/ Spill(BatchOf(queue), st, table)

(* Faulty: an `if' where enqueueWrite has a loop.                          *)
DropsAtMostOne(queue, bytes, d) == d = IF bytes > QMaxBytes THEN 1 ELSE 0

(* The drop-oldest loop of enqueueWrite stops after d rows.                *)
DropsOldest(queue, bytes, d) ==
  /\ \A e \in 0 .. d - 1 : bytes - Bytes(SubSeq(queue, 1, e)) > QMaxBytes
  /\ \/ bytes - Bytes(SubSeq(queue, 1, d)) <= QMaxBytes
     \/ d = Len(queue)

(* Faulty: the size trigger is off by one.                                 *)
BatchOverfull(queue) == Len(queue) > BatchRows

BatchFull(queue) == Len(queue) >= BatchRows

EnqueueWrite(r, st) ==
  LET queue == Append(q, r)
      bytes == qBytes + r.size
  IN \E d \in 0 .. Len(queue) :
       LET kept  == SubSeq(queue, d + 1, Len(queue))
           left  == bytes - Bytes(SubSeq(queue, 1, d))
           after == Inc(st, "dropped_queue", d)
       IN /\ DropsOldest(queue, bytes, d)
          /\ \/ BatchFull(kept) /\ Flush(kept, left, after, events')
             \/ /\ ~BatchFull(kept)
                /\ q' = kept
                /\ qBytes' = left
                /\ qTimer' = TRUE
                /\ stats' = after
                /\ UNCHANGED <<events, spillFile>>

(* storeOne of the durable path: no database, nothing done; otherwise the  *)
(* single insert lands, is ignored, or throws.                             *)
StoreOne(r, st) ==
  IF ~db
  THEN stats' = st /\ UNCHANGED <<events, spillFile>>
  ELSE Commit(<<r>>, st, events')

-----------------------------------------------------------------------------
(* Ingest.                                                                 *)

(* dedupHit answers TRUE: the key is in the map and within its TTL.        *)
DedupHit(k) == \E i \in DOMAIN seen : seen[i].key = k /\ seen[i].seq > stale

(* Faulty: the map is never cut back to its cap.                           *)
SeenUncapped(k, s) ==
  IF k = NoKey THEN seen ELSE Append(seen, [key |-> k, seq |-> s])

(* The map after dedupHit answered FALSE.  Map.set on a key already there  *)
(* keeps the key's place; the loop over seen.keys() deletes from the front *)
(* until the size is back under the cap.                                   *)
SeenAfter(k, s) ==
  LET set == IF \E i \in DOMAIN seen : seen[i].key = k
             THEN [i \in DOMAIN seen |->
                     IF seen[i].key = k THEN [key |-> k, seq |-> s] ELSE seen[i]]
             ELSE Append(seen, [key |-> k, seq |-> s])
  IN IF k = NoKey THEN seen
     ELSE IF Len(set) <= DedupMax THEN set
     ELSE SubSeq(set, Len(set) - DedupMax + 1, Len(set))

(* handleEvents up to its await: counted, and refused when the Host header *)
(* or the token is wrong.                                                  *)
ReceivePost ==
  /\ Alive /\ stats["received"] < MaxPosts
  /\ \/ /\ stats' = Inc(Inc(stats, "received", 1), "rejected", 1)
        /\ UNCHANGED reading
     \/ /\ reading < MaxReading
        /\ reading' = reading + 1
        /\ stats' = Inc(stats, "received", 1)
  /\ UNCHANGED <<proc, db, durable, SEQ, seen, stale, pend, q, qBytes, qTimer,
                 disk, acked, streamed, mark, boots>>

(* Faulty: a request is settled again after it was answered.               *)
RejectBodyTwice ==
  /\ Alive
  /\ reading' = reading - 1
  /\ stats' = Inc(stats, "rejected", 1)
  /\ UNCHANGED <<proc, db, durable, SEQ, seen, stale, pend, q, qBytes, qTimer,
                 disk, acked, streamed, mark, boots>>

(* The body never arrives, is too large, is no JSON or names no event type.*)
RejectBody ==
  /\ Alive /\ reading > 0
  /\ reading' = reading - 1
  /\ stats' = Inc(stats, "rejected", 1)
  /\ UNCHANGED <<proc, db, durable, SEQ, seen, stale, pend, q, qBytes, qTimer,
                 disk, acked, streamed, mark, boots>>

(* The body is read and its key was seen within the TTL: 200 duplicate.    *)
AnswerDuplicate(k) ==
  /\ Alive /\ reading > 0
  /\ DedupHit(k)
  /\ reading' = reading - 1
  /\ stats' = Inc(stats, "duplicate", 1)
  /\ UNCHANGED <<proc, db, durable, SEQ, seen, stale, pend, q, qBytes, qTimer,
                 disk, acked, streamed, mark, boots>>

(* Faulty: deferred work is run newest first.                              *)
DeferOnTop(r) == pend' = <<r>> \o pend

(* setImmediate: callbacks run in the order they were deferred.            *)
Defer(r) == pend' = Append(pend, r)

(* The body is read and is new: the next seq, 202, and the rest deferred   *)
(* to setImmediate -- after the insert when the process is durable.        *)
Accept(k, size) ==
  LET r  == [id |-> Len(acked) + 1, seq |-> SEQ + 1, key |-> k, size |-> size]
      st == Inc(stats, "accepted", 1)
  IN /\ Alive /\ reading > 0 /\ Len(acked) < MaxEvents
     /\ ~DedupHit(k)
     /\ reading' = reading - 1
     /\ seen' = SeenAfter(k, SEQ + 1)
     /\ SEQ' = SEQ + 1
     /\ acked' = Append(acked, r)
     /\ Defer(r)
     /\ IF durable
        THEN StoreOne(r, st)
        ELSE stats' = st /\ UNCHANGED <<events, spillFile>>
     /\ UNCHANGED <<proc, db, durable, stale, q, qBytes, qTimer, archive,
                    streamed, mark, boots>>

(* The oldest setImmediate callback: ingestPostAck (queue, then            *)
(* broadcast), or the broadcast alone when the row is stored already.      *)
RunImmediate ==
  /\ Alive /\ pend # <<>>
  /\ pend' = Tail(pend)
  /\ IF durable
     THEN UNCHANGED <<q, qBytes, qTimer, stats, events, spillFile>>
     ELSE EnqueueWrite(Head(pend), stats)
  /\ streamed' = streamed \cup {Head(pend)}
  /\ UNCHANGED <<proc, db, durable, SEQ, seen, stale, reading, archive, acked, mark, boots>>

(* Faulty: without a database the timer callback returns early.            *)
TimerFlushNeedsDb ==
  /\ Alive /\ qTimer /\ db
  /\ Flush(q, qBytes, stats, events')
  /\ UNCHANGED <<proc, db, durable, SEQ, seen, stale, reading, pend, archive,
                 acked, streamed, mark, boots>>

(* The 50 ms timer fires.                                                  *)
TimerFlush ==
  /\ Alive /\ qTimer
  /\ Flush(q, qBytes, stats, events')
  /\ UNCHANGED <<proc, db, durable, SEQ, seen, stale, reading, pend, archive,
                 acked, streamed, mark, boots>>

(* Time passes: dedup entries outlive DEDUP_TTL_MS, oldest set first.      *)
TtlPasses ==
  /\ Alive
  /\ \E i \in DOMAIN seen : seen[i].seq > stale /\ stale' = seen[i].seq
  /\ UNCHANGED <<proc, db, durable, SEQ, seen, reading, pend, q, qBytes, qTimer,
                 stats, disk, acked, streamed, mark, boots>>

(* The hourly pass: one flush, then the oldest rows go page by page to the *)
(* archive and out of the table.  By age the cut may take every row; a     *)
(* DELETE that fails leaves its page in the table as well.                 *)
Oldest(old, table) == \A r \in old, s \in table \ old : r.seq < s.seq

RunRetention ==
  /\ Alive /\ db
  /\ \E table \in SUBSET (events \cup Elems(q)) :
       /\ Flush(q, qBytes, stats, table)
       /\ \E old \in SUBSET table : \E gone \in SUBSET old :
            /\ Oldest(old, table) /\ Oldest(gone, table)
            /\ archive' = archive \cup old
            /\ events' = table \ gone
  /\ UNCHANGED <<proc, db, durable, SEQ, seen, stale, reading, pend,
                 acked, streamed, mark, boots>>

-----------------------------------------------------------------------------
(* The process.                                                            *)

(* What a process holds before it has accepted anything, and what is left  *)
(* of the memory of one that was killed.                                   *)
EmptyMemory ==
  /\ seen' = <<>> /\ stale' = 0 /\ reading' = 0 /\ pend' = <<>>
  /\ q' = <<>> /\ qBytes' = 0 /\ qTimer' = FALSE
  /\ stats' = [c \in Counters |-> 0]

(* Faulty: SEQ continues from the number of rows.                          *)
SeedByCount(opened) == {IF opened THEN Cardinality(events) ELSE 0}

(* startBackend: SEQ continues from MAX(seq), or from 0 over an empty      *)
(* table or without a database.  Everything else starts empty.             *)
Seed(opened) ==
  IF opened /\ events # {}
  THEN {s \in {r.seq : r \in events} : \A r \in events : r.seq <= s}
  ELSE {0}

Boot ==
  /\ ~Alive /\ boots < MaxBoots
  /\ proc' = "up" /\ boots' = boots + 1
  /\ db' \in BOOLEAN /\ durable' \in BOOLEAN
  /\ SEQ' \in Seed(db')
  /\ EmptyMemory
  /\ mark' = Len(acked)
  /\ UNCHANGED <<disk, acked, streamed>>

(* SIGINT, SIGTERM or SIGHUP: no new connection is taken, the open ones    *)
(* are still served.                                                       *)
Signal ==
  /\ proc = "up"
  /\ proc' = "closing"
  /\ UNCHANGED <<db, durable, memory, disk, acked, streamed, mark, boots>>

(* Faulty: the queue is not flushed on the way out.                        *)
ServerClosedUnflushed ==
  /\ proc = "closing" /\ reading = 0 /\ pend = <<>>
  /\ proc' = "stopped"
  /\ UNCHANGED <<db, durable, memory, disk, acked, streamed, mark, boots>>

(* The callback of server.close(): every connection has ended, so no body  *)
(* is being read, and the event loop has run the setImmediate callbacks    *)
(* before it closes sockets.  One flush, and the process exits.            *)
ServerClosed ==
  /\ proc = "closing" /\ reading = 0 /\ pend = <<>>
  /\ proc' = "stopped"
  /\ Flush(q, qBytes, stats, events')
  /\ UNCHANGED <<db, durable, SEQ, seen, stale, reading, pend, archive,
                 acked, streamed, mark, boots>>

MemoryLost ==
  /\ proc' = "crashed"
  /\ SEQ' = 0 /\ EmptyMemory
  /\ UNCHANGED <<db, durable, disk, acked, streamed, mark, boots>>

(* The force-exit backstop of a shutdown that outlives its grace.          *)
ForceExit == proc = "closing" /\ MemoryLost

(* kill -9, out of memory, power.                                          *)
Crash == Alive /\ MemoryLost

Init ==
  /\ proc = "stopped"
  /\ db = FALSE /\ durable = FALSE
  /\ SEQ = 0 /\ seen = <<>> /\ stale = 0 /\ reading = 0 /\ pend = <<>>
  /\ q = <<>> /\ qBytes = 0 /\ qTimer = FALSE
  /\ stats = [c \in Counters |-> 0]
  /\ events = {} /\ spillFile = {} /\ archive = {}
  /\ acked = <<>> /\ streamed = {} /\ mark = 0 /\ boots = 0

Next ==
  \/ ReceivePost
  \/ RejectBody
  \/ \E k \in Keys : AnswerDuplicate(k)
  \/ \E k \in Keys \cup {NoKey}, size \in Sizes : Accept(k, size)
  \/ RunImmediate
  \/ TimerFlush
  \/ TtlPasses
  \/ RunRetention
  \/ Boot
  \/ Signal
  \/ ServerClosed
  \/ ForceExit
  \/ Crash

Spec == Init /\ [][Next]_vars

(* The event loop runs its setImmediate callbacks and its due timers as    *)
(* long as the process lives; nothing obliges clients, signals or the      *)
(* retention interval.                                                     *)
FairSpec == Spec /\ WF_vars(RunImmediate) /\ WF_vars(TimerFlush)

-----------------------------------------------------------------------------
(* Properties.                                                             *)

Ascending(s) == \A i, j \in DOMAIN s : i < j => s[i].seq < s[j].seq

(* Accepted and not yet through INSERT, in the order INSERT will see them. *)
Unstored == q \o (IF durable THEN <<>> ELSE pend)

(* The events this process has accepted.                                   *)
Mine == {acked[i] : i \in mark + 1 .. Len(acked)}

(* INSERT OR IGNORE would drop an event without a word if its seq were     *)
(* taken.  It never is: what waits to be stored is in seq order, above     *)
(* every row of the table and not above SEQ, whatever crashes, failed      *)
(* flushes and trims came before.                                          *)
SeqIsFreePrimaryKey ==
  Alive /\ db =>
    /\ Ascending(Unstored)
    /\ \A i \in DOMAIN Unstored :
         /\ Unstored[i].seq <= SEQ
         /\ \A r \in events : r.seq < Unstored[i].seq
    /\ \A r \in events : r.seq <= SEQ

(* A row enters the table only above every row already there, so that a    *)
(* reader paging GET /events by seq never misses one that arrives late.    *)
RowsArriveInSeqOrder ==
  [][\A r \in events' \ events : \A s \in events : s.seq < r.seq]_vars

(* Within one process, events reach the broadcaster in the order of their  *)
(* seq: setImmediate callbacks run in the order they were queued.          *)
StreamedInSeqOrder ==
  [][\A r \in streamed' \ streamed :
       \A s \in streamed : s.id > mark => s.seq < r.seq]_vars

(* One flush() takes at most BATCH_ROWS rows, yet shutdown and retention   *)
(* call it once: every handler leaves fewer than BATCH_ROWS rows, so that  *)
(* one flush empties the queue, and none without a timer to take it out.   *)
QueueBounded ==
  Alive => Len(q) < BatchRows /\ (q # <<>> => qTimer)

(* The running byte count never drifts from the rows in the queue, and     *)
(* stays within the budget.                                                *)
ByteBudgetKept == Alive => qBytes = Bytes(q) /\ qBytes <= QMaxBytes

(* A shutdown that was not forced leaves nothing it accepted in memory.    *)
CleanStopLeavesNothingQueued == proc = "stopped" => q = <<>> /\ pend = <<>>

(* Every event a process acknowledged is still waiting, on disk, or the    *)
(* same call as one on disk -- or GET /health counts it: dropped from the  *)
(* queue, refused by SQLite, or spilled when the spill file could not be   *)
(* written.  A durable process without a database is excepted: storeOne    *)
(* then returns without counting.                                          *)
OnDisk == events \cup archive \cup spillFile
Kept(r) ==
  \/ r \in Elems(Unstored) \cup OnDisk
  \/ r.key # NoKey /\ \E s \in OnDisk : s.key = r.key
SpillFailed == stats["spilled"] - Cardinality(spillFile \cap Mine)
NothingLostUncounted ==
  proc # "crashed" /\ (db \/ ~durable) =>
    Cardinality({r \in Mine : ~Kept(r)})
      <= stats["dropped_queue"] + stats["bad_row"] + SpillFailed

(* The counters of GET /health add up: every request received is in one    *)
(* class, and every accepted event not waiting was flushed, refused,       *)
(* dropped or spilled -- with overlap only where a failed COMMIT counts a  *)
(* row as flushed and then as spilled.                                     *)
Counted == stats["flushed"] + stats["bad_row"] + stats["dropped_queue"] + Len(Unstored)
CountersAddUp ==
  Alive =>
    /\ stats["received"] = stats["accepted"] + stats["duplicate"] + stats["rejected"] + reading
    /\ stats["accepted"] = Len(acked) - mark
    /\ Counted <= stats["accepted"]
    /\ db \/ ~durable => stats["accepted"] <= Counted + stats["spilled"]

(* The dedup map holds each key once and at most DEDUP_MAX of them, each   *)
(* backed by an event this very process accepted: 200 duplicate is never   *)
(* said of a call whose event a previous process took with it.             *)
DedupMapSound ==
  Alive =>
    /\ Len(seen) <= DedupMax
    /\ \A i, j \in DOMAIN seen : seen[i].key = seen[j].key => i = j
    /\ \A i \in DOMAIN seen :
         \E r \in Mine : r.key = seen[i].key /\ r.seq = seen[i].seq

(* What an acknowledged event waits for happens: it does not stay in the   *)
(* process, between the 202 and the insert, for ever.                      *)
InMemory(n) == n <= Len(acked) /\ acked[n] \in Elems(q \o pend)
EveryEventLeavesMemory ==
  \A n \in 1 .. MaxEvents : InMemory(n) ~> ~InMemory(n)

(* docs/agent-dashboard-collector-design.md:184: seeding SEQ from MAX(seq) *)
(* makes seq keep growing across restarts, so that Last-Event-ID and query *)
(* cursors stay in step.  Stated of what stream clients have seen: an      *)
(* event's seq is not that of an earlier event they were shown.            *)
SeqNeverReissued ==
  \A r \in streamed : \A i \in DOMAIN acked : acked[i].id > r.id => acked[i].seq > r.seq
=============================================================================
