------------------------------- MODULE Stream --------------------------------
(***************************************************************************)
(* The live half of the observability collector                            *)
(* (src/core/observability/server.mjs, "live streaming"): broadcast() into *)
(* the byte-bounded replay ring and to every matching subscriber, the      *)
(* Subscriber with its bounded drop-oldest queue and its drain-aware pump, *)
(* and GET /stream with its cursor, replay, _gap and _ready.               *)
(*                                                                         *)
(* Events come from Collector: accepted under the next SEQ, broadcast one  *)
(* setImmediate later and in SEQ order (Collector!StreamedInSeqOrder).     *)
(* res.write() answers false, or throws, whenever it likes; a 'drain' may  *)
(* follow at any time.                                                     *)
(***************************************************************************)
EXTENDS Integers, FiniteSets, Sequences, SequencesExt

CONSTANTS
  Clients,      \* connections to GET /stream, each reused after it ends
  Readers,      \* those whose client goes on reading
  Kinds,        \* what a filter tells apart: source_app, session_id, event type
  All,          \* the filter of a connection that gives none
  NoCursor,     \* neither Last-Event-ID nor ?since was given
  Sizes,        \* lengths a data frame may have; a control frame has length 1
  RingMaxBytes, \* RING_MAX_BYTES
  SubMaxItems,  \* SUB_MAX_ITEMS
  SubMaxBytes,  \* SUB_MAX_BYTES
  MaxSeq,       \* bound: the highest sequence number accepted
  MaxBoots      \* bound: processes started

ASSUME StreamAssumption ==
  /\ Readers \subseteq Clients
  /\ All \notin Kinds
  /\ NoCursor \notin Nat
  /\ RingMaxBytes \in Nat /\ SubMaxItems \in Nat \ {0} /\ SubMaxBytes \in Nat \ {0}
  /\ Sizes \subseteq 1 .. SubMaxBytes /\ Sizes \subseteq 1 .. RingMaxBytes
  /\ MaxSeq \in Nat /\ MaxBoots \in Nat

VARIABLES
  SEQ,       \* the last sequence number handed out
  cast,      \* the last one broadcast: what is between waits in setImmediate
  ring,      \* the replay ring
  ringBytes, \* its byte count, as the code keeps it
  sub,       \* the Subscriber of each connection
  closing,   \* the shutdown handler has run
  said,      \* history: every event this process broadcast
  boots      \* bound: processes started so far

vars == <<SEQ, cast, ring, ringBytes, sub, closing, said, boots>>

Event == [seq : Nat, kind : Kinds, size : Sizes]

(* A frame on the wire; only data frames carry an id.  A _gap names the    *)
(* cursor it was sent for and the oldest seq kept; a _dropped a count.     *)
Data(e) == [type |-> "data", seq |-> e.seq, n |-> 0, size |-> e.size]
Gap(from, oldest) == [type |-> "_gap", seq |-> oldest, n |-> from, size |-> 1]
Dropped(n) == [type |-> "_dropped", seq |-> 0, n |-> n, size |-> 1]
Ready == [type |-> "_ready", seq |-> SEQ, n |-> 0, size |-> 1]

Frame == [type : {"data", "_gap", "_dropped", "_ready"},
          seq : Nat, n : Nat, size : Sizes \cup {1}]

(* A connection that is closed, or was never opened.                       *)
Off == [open |-> FALSE, filter |-> All, queue |-> <<>>, bytes |-> 0, dropped |-> 0,
        writing |-> FALSE, wrote |-> <<>>, base |-> 0]

TypeOK ==
  /\ SEQ \in Nat /\ cast \in 0 .. SEQ /\ boots \in Nat /\ closing \in BOOLEAN
  /\ ring \in Seq(Event) /\ said \in Seq(Event) /\ ringBytes \in Nat
  /\ sub \in [Clients -> [open : BOOLEAN, filter : Kinds \cup {All},
                          queue : Seq(Frame), bytes : Int, dropped : Nat,
                          writing : BOOLEAN, wrote : Seq(Frame), base : Nat]]

Bytes(s) == FoldLeft(LAMBDA total, x : total + x.size, 0, s)
From(s, i) == SubSeq(s, i, Len(s))
Min2(a, b) == IF a < b THEN a ELSE b

-----------------------------------------------------------------------------
(* Subscriber.  Each operator gives the states one call may leave, since   *)
(* res.write() decides how far the pump gets.                              *)

Matches(s, e) == s.filter \in {All, e.kind}

(* Faulty: the marker is put behind what is queued.                        *)
MarkedLast(s) ==
  IF s.dropped = 0 THEN s
  ELSE [s EXCEPT !.queue = Append(@, Dropped(s.dropped)), !.bytes = @ + 1, !.dropped = 0]

(* Faulty: the count goes on from the last marker.                         *)
MarkedOnly(s) ==
  IF s.dropped = 0 THEN s
  ELSE [s EXCEPT !.queue = <<Dropped(s.dropped)>> \o @, !.bytes = @ + 1]

(* The head of _pump: what was dropped is announced ahead of the queue.    *)
Marked(s) ==
  IF s.dropped = 0 THEN s
  ELSE [s EXCEPT !.queue = <<Dropped(s.dropped)>> \o @, !.bytes = @ + 1, !.dropped = 0]

(* The loop of _pump after k frames; `full' if the last write() asked for  *)
(* a drain.                                                                *)
Wrote(s, k, full) ==
  [s EXCEPT !.wrote = @ \o SubSeq(s.queue, 1, k),
            !.queue = From(s.queue, k + 1),
            !.bytes = @ - Bytes(SubSeq(s.queue, 1, k)),
            !.writing = full]

Pump(s) ==
  IF s.writing \/ ~s.open THEN {s}
  ELSE LET m == Marked(s) IN
       {Wrote(m, Len(m.queue), FALSE)}
         \cup {Wrote(m, k, TRUE) : k \in 1 .. Len(m.queue)}
         \cup {Off : k \in 1 .. Len(m.queue)}   \* a write() threw

Overflow(s) == Len(s.queue) > SubMaxItems \/ s.bytes > SubMaxBytes

DropOldest(s, d) ==
  [s EXCEPT !.queue = From(@, d + 1),
            !.bytes = @ - Bytes(SubSeq(s.queue, 1, d)),
            !.dropped = @ + d]

Enqueue(s, f) ==
  IF ~s.open THEN {s}
  ELSE LET t == [s EXCEPT !.queue = Append(@, f), !.bytes = @ + f.size]
           d == CHOOSE d \in 0 .. Len(t.queue) :
                  /\ ~Overflow(DropOldest(t, d))
                  /\ \A e \in 0 .. d - 1 : Overflow(DropOldest(t, e))
       IN Pump(DropOldest(t, d))

-----------------------------------------------------------------------------
(* Faulty: one event is evicted at most.                                   *)
EvictsAtMostOne(full, d) == d = IF Bytes(full) > RingMaxBytes THEN 1 ELSE 0

(* ringPush evicts the fewest old events that bring it back in budget.     *)
Evicts(full, d) ==
  /\ Bytes(From(full, d + 1)) <= RingMaxBytes
  /\ \A e \in 0 .. d - 1 : Bytes(From(full, e + 1)) > RingMaxBytes

(* What a broadcast does to one subscriber.                                *)
Heard(s, e) == IF Matches(s, e) THEN Enqueue(s, Data(e)) ELSE {s}

(* Faulty: an event can be broadcast ahead of its acceptance.              *)
WaitingAlways == cast <= SEQ

(* A setImmediate callback has yet to run.                                 *)
Waiting == cast < SEQ

(* handleEvents took the next seq; its broadcast is deferred.              *)
Accept ==
  /\ SEQ < MaxSeq
  /\ SEQ' = SEQ + 1
  /\ UNCHANGED <<cast, ring, ringBytes, sub, closing, said, boots>>

(* The deferred broadcast of the oldest event: ring first, then every      *)
(* subscriber it matches, each on its own.                                 *)
Broadcast(kind, size) ==
  LET e    == [seq |-> cast + 1, kind |-> kind, size |-> size]
      full == Append(ring, e)
  IN /\ Waiting
     /\ cast' = cast + 1
     /\ said' = Append(said, e)
     /\ \E d \in 0 .. Len(full) :
          /\ Evicts(full, d)
          /\ ring' = From(full, d + 1)
          /\ ringBytes' = ringBytes + size - Bytes(SubSeq(full, 1, d))
     /\ sub' \in [Clients -> UNION {Heard(sub[c], e) : c \in Clients}]
     /\ \A c \in Clients : sub'[c] \in Heard(sub[c], e)
     /\ UNCHANGED <<SEQ, closing, boots>>

(* Faulty: the replay ignores the filter of the connection.                *)
ReplayUnfiltered(r, e) ==
  IF e.seq <= r.from THEN r
  ELSE [r EXCEPT !.states = UNION {Enqueue(s, Data(e)) : s \in @}]

(* One event of the ring, replayed to what a resumed connection may be by  *)
(* then, if it follows the cursor.                                         *)
Replay(r, e) ==
  IF e.seq <= r.from THEN r
  ELSE [r EXCEPT !.states = UNION {Heard(s, e) : s \in @}]

EvictedSince(from) == ring # <<>> /\ from < Head(ring).seq - 1

(* handleStream: the Subscriber is registered, a resumed one is sent _gap  *)
(* and the replay, and every one _ready -- in one go, between broadcasts.  *)
(* `base' notes what it is owed: what follows its cursor, and in any case  *)
(* every event broadcast from here on.                                     *)
Connect(c, cursor, filter) ==
  LET from   == IF cursor = NoCursor THEN SEQ ELSE Min2(cursor, SEQ)
      s      == [Off EXCEPT !.open = TRUE, !.filter = filter, !.base = Min2(from, cast)]
      warned == IF EvictedSince(from) THEN Enqueue(s, Gap(from, Head(ring).seq)) ELSE {s}
      resume == FoldLeft(Replay, [from |-> from, states |-> warned], ring).states
  IN /\ ~sub[c].open
     /\ \E t \in IF cursor = NoCursor THEN {s} ELSE resume :
          \E s2 \in Enqueue(t, Ready) : sub' = [sub EXCEPT ![c] = s2]
     /\ UNCHANGED <<SEQ, cast, ring, ringBytes, closing, said, boots>>

(* Faulty: the drain handler leaves the pump marked as writing.            *)
DrainStillWriting(c) ==
  /\ sub[c].open /\ sub[c].writing
  /\ \E s \in Pump(sub[c]) : sub' = [sub EXCEPT ![c] = s]
  /\ UNCHANGED <<SEQ, cast, ring, ringBytes, closing, said, boots>>

(* The drain handler of a pump that had to stop.                           *)
Drain(c) ==
  /\ sub[c].open /\ sub[c].writing
  /\ \E s \in Pump([sub[c] EXCEPT !.writing = FALSE]) : sub' = [sub EXCEPT ![c] = s]
  /\ UNCHANGED <<SEQ, cast, ring, ringBytes, closing, said, boots>>

(* The request closes, or a heartbeat finds the socket dead.               *)
Close(c) ==
  /\ sub[c].open
  /\ sub' = [sub EXCEPT ![c] = Off]
  /\ UNCHANGED <<SEQ, cast, ring, ringBytes, closing, said, boots>>

(* The shutdown handler: _bye past the queues, every subscriber closed.    *)
CloseAllSubscribers ==
  /\ ~closing /\ closing' = TRUE
  /\ sub' = [c \in Clients |-> Off]
  /\ UNCHANGED <<SEQ, cast, ring, ringBytes, said, boots>>

(* The process ends, and the next one starts with an empty ring and with   *)
(* SEQ seeded from what had been stored.                                   *)
Restart ==
  /\ boots < MaxBoots /\ boots' = boots + 1
  /\ SEQ' \in 0 .. SEQ /\ cast' = SEQ'
  /\ ring' = <<>> /\ ringBytes' = 0 /\ said' = <<>>
  /\ sub' = [c \in Clients |-> Off]
  /\ closing' = FALSE

Init ==
  /\ SEQ = 0 /\ cast = 0
  /\ ring = <<>> /\ ringBytes = 0 /\ said = <<>>
  /\ sub = [c \in Clients |-> Off]
  /\ closing = FALSE /\ boots = 1

Next ==
  \/ Accept
  \/ \E kind \in Kinds, size \in Sizes : Broadcast(kind, size)
  \/ \E c \in Clients, cursor \in 0 .. MaxSeq + 1 \cup {NoCursor}, filter \in Kinds \cup {All} :
       Connect(c, cursor, filter)
  \/ \E c \in Clients : Drain(c)
  \/ \E c \in Clients : Close(c)
  \/ CloseAllSubscribers
  \/ Restart

Spec == Init /\ [][Next]_vars

(* A client that goes on reading drains its socket in the end; another one *)
(* may stall for ever.                                                     *)
FairSpec == Spec /\ \A c \in Readers : WF_vars(Drain(c))

-----------------------------------------------------------------------------
(* Properties.                                                             *)

Seqs(frames) == {frames[i].seq : i \in {i \in DOMAIN frames : frames[i].type = "data"}}
Holds(frames, type) == \E i \in DOMAIN frames : frames[i].type = type

(* What a connection was owed and has neither been sent nor has queued.    *)
Due(s) == {said[i].seq : i \in {i \in DOMAIN said : said[i].seq > s.base /\ Matches(s, said[i])}}
Missing(s) == Due(s) \ (Seqs(s.wrote) \cup Seqs(s.queue))

(* The ring holds exactly the latest events, whole and within its budget:  *)
(* a replay can have a hole only in front, which is what _gap reports.     *)
RingIsRecentPast ==
  /\ ringBytes = Bytes(ring) /\ ringBytes <= RingMaxBytes
  /\ ring = From(said, Len(said) - Len(ring) + 1)

(* A slow reader costs bounded memory, by the count the code keeps, and    *)
(* whatever it has waiting has a drain to wait for.                        *)
SubscriberBounded ==
  \A c \in Clients :
    LET s == sub[c] IN
    /\ s.bytes = Bytes(s.queue) /\ s.bytes <= SubMaxBytes
    /\ Len(s.queue) <= SubMaxItems
    /\ s.queue # <<>> \/ s.dropped > 0 => s.writing

(* Both buffers of the stream keep their bound, and what the ring keeps is *)
(* what a resuming client can be replayed without a hole.                  *)
BuffersKept == RingIsRecentPast /\ SubscriberBounded

Told(f) == CASE f.type = "data" -> f.seq [] f.type = "_ready" -> -1 [] OTHER -> 0
Got(s) == [i \in DOMAIN s.wrote |-> Told(s.wrote[i])]

(* Stream implements Feed, what a connection got being the frames written  *)
(* to it: one connection is sent each event at most once, in seq order,    *)
(* replayed and live ones together, only those its filter lets through,    *)
(* and a frame never comes after a hole that was not announced.            *)
F == INSTANCE Feed WITH
       last <- cast,
       conn <- [c \in Clients |-> [open |-> sub[c].open, filter |-> sub[c].filter,
                                   base |-> sub[c].base, got |-> Got(sub[c])]]
IsAFeed == F!FeedSpec

(* No silent hole: an event a connection was owed and will not get is      *)
(* within the range of its _gap, or stands where a _dropped marker stands  *)
(* -- or will stand, ahead of everything still queued.                     *)
LossAnnouncedInPlace ==
  \A c \in Clients :
    LET w == sub[c].wrote
        Around(i, q) ==
          \A j \in DOMAIN w : w[j].type = "data" => (j < i => w[j].seq < q) /\ (i < j => q < w[j].seq)
    IN sub[c].open => \A q \in Missing(sub[c]) :
         \/ \E i \in DOMAIN w : w[i].type = "_gap" /\ w[i].n < q /\ q < w[i].seq
         \/ \E i \in DOMAIN w : w[i].type = "_dropped" /\ Around(i, q)
         \/ sub[c].dropped > 0 /\ Around(Len(w) + 1, q) /\ \A r \in Seqs(sub[c].queue) : q < r

(* The counts in the _dropped markers are those of what was dropped: the   *)
(* missing events and, at most once, the _ready frame.                     *)
CountOf(frames) ==
  FoldLeft(LAMBDA total, f : total + (IF f.type = "_dropped" THEN f.n ELSE 0), 0, frames)
Evicted(s) ==
  {q \in Missing(s) : \E i \in DOMAIN s.wrote :
     s.wrote[i].type = "_gap" /\ s.wrote[i].n < q /\ q < s.wrote[i].seq}
DropCountsAreExact ==
  \A c \in Clients :
    LET told == CountOf(sub[c].wrote) + sub[c].dropped
        lost == Cardinality(Missing(sub[c]) \ Evicted(sub[c]))
        kept == Holds(sub[c].wrote, "_ready") \/ Holds(sub[c].queue, "_ready")
    IN sub[c].open => told = lost + (IF kept THEN 0 ELSE 1)

(* What is queued for a client that goes on reading does not stay queued.  *)
Queued(c, q) == q \in Seqs(sub[c].queue)
QueuedEventsLeave ==
  \A c \in Readers : \A q \in 1 .. MaxSeq : Queued(c, q) ~> ~Queued(c, q)
=============================================================================
