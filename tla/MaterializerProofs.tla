------------------------- MODULE MaterializerProofs -------------------------
(***************************************************************************)
(* What holds of Materializer for every cutoff, every number of events and *)
(* any interleaving of hooks, usage, sweeps, trims, rebuilds and restarts; *)
(* and, in the second half, of buildTurns itself (Turns), for the sessions *)
(* and the calls of MCTurns however many they get.                         *)
(***************************************************************************)
EXTENDS Materializer, MCTurns, FiniteSetTheorems, TLAPS

(* The folds of Turns: a session's events put into turns, and a turn's     *)
(* events into calls.                                                      *)
Placed == INSTANCE SequenceFolds WITH op <- PlaceNext
Taken == INSTANCE SequenceFolds WITH op <- TakeNext

(* What a fold of PlaceNext gives is what SequenceFolds says of it, for     *)
(* every starting value and every sequence.                                 *)
LEMMA PlacedIs ==
  ASSUME NEW base, NEW rows
  PROVE  FoldLeft(PlaceNext, base, rows) = Placed!Value(base, rows)
  BY Placed!ValueUnfolded DEF Placed!Unfolded, FoldLeft, MapThenFoldSet, Max

(* The same of a fold of TakeNext.                                          *)
LEMMA TakenIs ==
  ASSUME NEW base, NEW rows
  PROVE  FoldLeft(TakeNext, base, rows) = Taken!Value(base, rows)
  BY Taken!ValueUnfolded DEF Taken!Unfolded, FoldLeft, MapThenFoldSet, Max

-----------------------------------------------------------------------------
(* A turn over the events of S.                                            *)
TurnOf(S, seqs, times) ==
  [virtual : BOOLEAN, turn_seq : seqs, started_at : times, queued : Nat,
   events : Seq(S), stops : Seq(S)]
Turn(S) == TurnOf(S, {0} \cup {r.seq : r \in S}, {r.at : r \in S})

(* A turn with one more of the events is a turn over the same events.       *)
LEMMA MoreEvents ==
  ASSUME NEW S, NEW seqs, NEW times, NEW t \in TurnOf(S, seqs, times), NEW r \in S
  PROVE  [t EXCEPT !.events = Append(@, r),
                   !.stops = IF r.type = "Stop" THEN Append(@, r) ELSE @]
           \in TurnOf(S, seqs, times)
<1>. DEFINE evs == Append(t.events, r)
            sts == IF r.type = "Stop" THEN Append(t.stops, r) ELSE t.stops
<1>1. t.events \in Seq(S) /\ t.stops \in Seq(S)
  BY DEF TurnOf
<1>2. evs \in Seq(S) /\ sts \in Seq(S)
  BY <1>1
<1>. HIDE DEF evs, sts
<1>3. [t EXCEPT !.events = evs, !.stops = sts] \in TurnOf(S, seqs, times)
  BY <1>2 DEF TurnOf
<1>. QED  BY <1>3 DEF evs, sts

(* So is a turn with one more queued prompt.                                *)
LEMMA MoreQueued ==
  ASSUME NEW S, NEW seqs, NEW times, NEW t \in TurnOf(S, seqs, times)
  PROVE  [t EXCEPT !.queued = @ + 1] \in TurnOf(S, seqs, times)
  BY DEF TurnOf

(* A sequence with one more element, and a sequence of one.                 *)
LEMMA OneMore ==
  ASSUME NEW T, NEW s \in Seq(T), NEW x \in T
  PROVE  /\ Append(s, x) \in Seq(T)
         /\ <<x>> \in Seq(T) /\ 1 \in DOMAIN <<x>>
  OBVIOUS

(* A turn opened at an event is a turn over the events.                     *)
LEMMA OpenedType ==
  ASSUME NEW S, NEW r \in S, NEW virtual \in BOOLEAN
  PROVE  Opened(r, virtual) \in Turn(S)
  BY DEF Opened, Turn, TurnOf

(* Putting an event into one of the turns leaves them turns.                *)
LEMMA PutType ==
  ASSUME NEW S, NEW segs \in Seq(Turn(S)), NEW i \in DOMAIN segs, NEW r \in S
  PROVE  Put(segs, i, r) \in Seq(Turn(S)) /\ DOMAIN Put(segs, i, r) = DOMAIN segs
<1>. DEFINE t == [segs[i] EXCEPT !.events = Append(@, r),
                                  !.stops = IF r.type = "Stop" THEN Append(@, r) ELSE @]
<1>1. segs[i] \in Turn(S)
  OBVIOUS
<1>2. t \in Turn(S)
  BY <1>1, MoreEvents DEF Turn
<1>3. Put(segs, i, r) = [segs EXCEPT ![i] = t]
  BY <1>1 DEF Put, Turn, TurnOf
<1>. HIDE DEF t
<1>. QED  BY <1>2, <1>3

(* Placing an event, by whichever branch of buildTurns, leaves the turns    *)
(* turns over the events.                                                   *)
LEMMA PlaceType ==
  ASSUME NEW S, NEW rows, NEW segs \in Seq(Turn(S)), NEW r \in S
  PROVE  Place(rows, segs, r) \in Seq(Turn(S))
<1>. DEFINE n == Len(segs)
<1>0. n \in Nat /\ (n > 0 => n \in DOMAIN segs)
  OBVIOUS
<1>1. CASE r.type = "UserPromptSubmit" /\ n > 0 /\ Queued(rows, Last(segs), r)
  <2>. DEFINE put == Put(segs, n, r)
  <2>1. put \in Seq(Turn(S)) /\ n \in DOMAIN put
    BY <1>0, <1>1, PutType
  <2>2. Place(rows, segs, r) = [put EXCEPT ![n].queued = @ + 1]
    BY <1>1 DEF Place
  <2>. HIDE DEF put, n
  <2>3. put[n] \in Turn(S)
    BY <2>1
  <2>4. [put[n] EXCEPT !.queued = @ + 1] \in Turn(S)
    BY <2>3, MoreQueued DEF Turn
  <2>. QED  BY <2>1, <2>2, <2>4
<1>2. CASE r.type = "UserPromptSubmit" /\ ~(n > 0 /\ Queued(rows, Last(segs), r))
  <2>1. Place(rows, segs, r) = Append(segs, Opened(r, FALSE))
    BY <1>2, Zenon DEF Place
  <2>2. Opened(r, FALSE) \in Turn(S)
    BY OpenedType
  <2>. QED  BY <2>1, <2>2, OneMore
<1>3. CASE r.type # "UserPromptSubmit" /\ n = 0
  <2>. DEFINE one == <<Opened(r, TRUE)>>
  <2>1. Place(rows, segs, r) = Put(one, 1, r)
    BY <1>3 DEF Place
  <2>2. one \in Seq(Turn(S)) /\ 1 \in DOMAIN one
    <3>1. Opened(r, TRUE) \in Turn(S)
      BY OpenedType
    <3>. QED  BY <3>1, OneMore, Zenon
  <2>. HIDE DEF one
  <2>. QED  BY <2>1, <2>2, PutType
<1>4. CASE r.type # "UserPromptSubmit" /\ n # 0 /\ Raced(segs, r)
  <2>1. Place(rows, segs, r) = Put(segs, n - 1, r)
    BY <1>4 DEF Place
  <2>2. n - 1 \in DOMAIN segs
    BY <1>0, <1>4 DEF Raced
  <2>. QED  BY <2>1, <2>2, PutType
<1>5. CASE r.type # "UserPromptSubmit" /\ n # 0 /\ ~Raced(segs, r)
  <2>1. Place(rows, segs, r) = Put(segs, n, r)
    BY <1>5 DEF Place
  <2>. QED  BY <1>0, <1>5, <2>1, PutType
<1>. QED  BY <1>1, <1>2, <1>3, <1>4, <1>5

(* Turns are made of the session's events.                                 *)
LEMMA SegmentsType ==
  ASSUME NEW S, NEW rows \in Seq(S)
  PROVE  Segments(rows) \in Seq(Turn(S))
<1>. DEFINE Acc  == [rows : {rows}, turns : Seq(Turn(S))]
            base == [rows |-> rows, turns |-> <<>>]
<1>1. base \in Acc
  OBVIOUS
<1>2. ASSUME NEW v \in Acc, NEW r \in S PROVE PlaceNext(v, r) \in Acc
  <2>1. v.turns \in Seq(Turn(S)) /\ v.rows = rows
    OBVIOUS
  <2>2. Place(v.rows, v.turns, r) \in Seq(Turn(S))
    BY <2>1, PlaceType
  <2>. QED  BY <2>2 DEF PlaceNext
<1>3. Placed!Value(base, rows) \in Acc
  <2>. HIDE DEF Acc, base
  <2>. QED  BY <1>1, <1>2, Placed!ValueType
<1>4. Segments(rows) = Placed!Value(base, rows).turns
  BY PlacedIs DEF Segments
<1>. QED  BY <1>3, <1>4

(* The PreToolUse rows that count as calls of a turn are events of its own. *)
LEMMA CallPresType ==
  ASSUME NEW S, NEW rows, NEW t, t.events \in Seq(S)
  PROVE  CallPres(rows, t) \in Seq(S)
<1>. DEFINE Acc  == [rows : {rows}, pres : Seq(S)]
            base == [rows |-> rows, pres |-> <<>>]
<1>1. base \in Acc
  OBVIOUS
<1>2. ASSUME NEW v \in Acc, NEW e \in S PROVE TakeNext(v, e) \in Acc
  BY DEF TakeNext
<1>3. Taken!Value(base, t.events) \in Acc
  <2>. HIDE DEF Acc, base
  <2>. QED  BY <1>1, <1>2, Taken!ValueType
<1>4. CallPres(rows, t) = Taken!Value(base, t.events).pres
  BY TakenIs DEF CallPres
<1>. QED  BY <1>3, <1>4

-----------------------------------------------------------------------------
(* What a turn row is made of, and what of it depends on the clock.        *)
LEMMA BuiltIs ==
  ASSUME NEW rows, NEW segs, NEW i, NEW at
  PROVE  /\ Built(rows, segs, i, at).turn_seq = segs[i].turn_seq
         /\ Built(rows, segs, i, at).calls = CallsOf(rows, segs[i], at)
  BY DEF Built

(* The turns of a session, one per segment and in the order of the          *)
(* segments.                                                                *)
LEMMA TurnsAre ==
  ASSUME NEW S, NEW rows \in Seq(S), NEW at
  PROVE  /\ DOMAIN BuildTurns(rows, at) = DOMAIN Segments(rows)
         /\ Len(BuildTurns(rows, at)) = Len(Segments(rows))
         /\ \A i \in DOMAIN Segments(rows) :
              /\ BuildTurns(rows, at)[i] = Built(rows, Segments(rows), i, at)
              /\ BuildTurns(rows, at)[i].turn_seq = Segments(rows)[i].turn_seq
              /\ BuildTurns(rows, at)[i].calls = CallsOf(rows, Segments(rows)[i], at)
<1>. DEFINE segs == Segments(rows)
            n    == Len(segs)
<1>1. n \in Nat /\ DOMAIN segs = 1 .. n
  BY SegmentsType
<1>2. BuildTurns(rows, at) = [i \in DOMAIN segs |-> Built(rows, segs, i, at)]
  BY DEF BuildTurns
<1>. HIDE DEF segs
<1>3. BuildTurns(rows, at) = [i \in 1 .. n |-> Built(rows, segs, i, at)]
  BY <1>1, <1>2
<1>. HIDE DEF n
<1>4. DOMAIN BuildTurns(rows, at) = 1 .. n
  BY <1>3
<1>5. Len(BuildTurns(rows, at)) = n
  <2>. DEFINE all == [i \in 1 .. n |-> Built(rows, segs, i, at)]
  <2>. SUFFICES Len(all) = n
    BY <1>3
  <2>. QED  BY <1>1
<1>6. \A i \in 1 .. n : BuildTurns(rows, at)[i] = Built(rows, segs, i, at)
  BY <1>3
<1>. QED  BY <1>1, <1>4, <1>5, <1>6, BuiltIs DEF segs, n

(* The calls of a turn whose events are all older than the cutoff: no      *)
(* status of theirs will change.                                           *)
LEMMA CallsAged ==
  ASSUME NEW S, NEW rows, NEW t, t.events \in Seq(S),
         NEW from \in Int, NEW to \in Int, from <= to,
         \A e \in S : e.at \in Nat /\ from - e.at >= OrphanMs
  PROVE  /\ CallsOf(rows, t, from) = CallsOf(rows, t, to)
         /\ \A c \in ToSet(CallsOf(rows, t, from)) : c.status # "pending"
<1>. DEFINE pres == CallPres(rows, t)
            Calls(at) == [i \in DOMAIN pres |-> CallOf(rows, t, at, pres[i])]
<1>1. pres \in Seq(S)
  BY CallPresType
<1>2. ASSUME NEW e \in S
      PROVE  /\ CallOf(rows, t, from, e) = CallOf(rows, t, to, e)
             /\ CallOf(rows, t, from, e).status # "pending"
  <2>1. from - e.at >= OrphanMs /\ to - e.at >= OrphanMs
    <3>1. OrphanMs \in Nat /\ e.at \in Nat
      BY TurnsAssumption
    <3>. QED  BY <3>1
  <2>. QED  BY <2>1 DEF CallOf
<1>. HIDE DEF pres
<1>3. \A i \in DOMAIN pres : pres[i] \in S
  BY <1>1
<1>4. Calls(from) = Calls(to)
  BY <1>2, <1>3
<1>5. \A c \in ToSet(Calls(from)) : c.status # "pending"
  BY <1>2, <1>3 DEF ToSet
<1>. QED  BY <1>4, <1>5 DEF CallsOf, pres

(* The status of a turn silent for longer than the active window: the clock *)
(* has no more say in it.                                                   *)
LEMMA StatusAged ==
  ASSUME NEW S, NEW t \in Turn(S), NEW next,
         NEW from \in Int, NEW to \in Int, from <= to,
         \A e \in S : e.at \in Nat /\ from - e.at >= ActiveMs
  PROVE  Status(t, next, from) = Status(t, next, to)
<1>1. /\ t.started_at \in Nat /\ from - t.started_at >= ActiveMs
      /\ t.events \in Seq(S)
  BY DEF Turn, TurnOf
<1>2. LastAt(t) \in Nat /\ from - LastAt(t) >= ActiveMs
  <2>1. CASE t.events = <<>>
    BY <1>1, <2>1 DEF LastAt
  <2>2. CASE t.events # <<>>
    <3>1. Last(t.events) \in S
      BY <1>1, <2>2 DEF Last
    <3>. QED  BY <1>1, <2>2, <3>1 DEF LastAt, Larger
  <2>. QED  BY <2>1, <2>2
<1>3. ~(from - LastAt(t) < ActiveMs) /\ ~(to - LastAt(t) < ActiveMs)
  <2>1. ActiveMs \in Nat
    BY TurnsAssumption
  <2>. QED  BY <1>2, <2>1
<1>. QED  BY <1>3 DEF Status

(* So nothing of the turn changes any more.                                 *)
LEMMA BuiltAged ==
  ASSUME NEW S, NEW rows, NEW segs \in Seq(Turn(S)), NEW i \in DOMAIN segs,
         NEW from \in Int, NEW to \in Int, from <= to,
         \A e \in S : /\ e.at \in Nat
                      /\ from - e.at >= OrphanMs /\ from - e.at >= ActiveMs
  PROVE  Built(rows, segs, i, from) = Built(rows, segs, i, to)
<1>. DEFINE t    == segs[i]
            next == {segs[j] : j \in {i + 1} \cap DOMAIN segs}
<1>1. t \in Turn(S) /\ t.events \in Seq(S)
  <2>1. t \in Turn(S)
    OBVIOUS
  <2>. HIDE DEF t
  <2>. QED  BY <2>1 DEF Turn, TurnOf
<1>2. CallsOf(rows, t, from) = CallsOf(rows, t, to)
  <2>1. \A e \in S : e.at \in Nat /\ from - e.at >= OrphanMs
    OBVIOUS
  <2>. HIDE DEF t, next
  <2>. QED  BY <1>1, <2>1, CallsAged, ZenonT(40)
<1>3. Status(t, next, from) = Status(t, next, to)
  <2>. HIDE DEF t, next
  <2>. QED  BY <1>1, StatusAged
<1>. QED  BY <1>2, <1>3 DEF Built

-----------------------------------------------------------------------------
(* The inductive invariant.                                                *)
Types == {"UserPromptSubmit", "Stop", "SessionEnd", "PreToolUse", "PostToolUse"}
Event == [seq : Nat \ {0}, type : Types, id : (1 .. MaxCalls) \cup {NoId}, agent : BOOLEAN,
          at : Nat, error : BOOLEAN, permission : BOOLEAN, input : {NoInput}]
Mark == [through : Nat, anchor : Nat, epoch : Nat, frozen : BOOLEAN, unattributed : SUBSET Nat]

(* The events are in the order of their seqs and of their arrival.         *)
InOrder(rows) ==
  \A i, j \in DOMAIN rows : i < j => rows[i].seq < rows[j].seq /\ rows[i].at <= rows[j].at
Stored ==
  /\ now \in Nat /\ SEQ \in Nat
  /\ events \in Seq(Event) /\ InOrder(events)
  /\ \A i \in DOMAIN events : events[i].seq <= SEQ /\ events[i].at <= now
  /\ unanswered \subseteq made /\ made \subseteq 1 .. MaxCalls

(* What the model remembers of the run: whether the last sweep saw the      *)
(* tables as they are, whether it failed, whether SEQ started over.         *)
Told == fresh \in BOOLEAN /\ missed \in BOOLEAN /\ reseeded \in BOOLEAN

(* There is one watermark at most, none when nothing was materialized, and *)
(* the usage it has seen is there.                                         *)
Watermarked ==
  /\ IsFiniteSet(usage) /\ \A u \in usage : u.id \in 1 .. Epoch
  /\ cursor \in SUBSET Mark /\ \A c, d \in cursor : c = d
  /\ \A c \in cursor : c.epoch <= Epoch
  /\ turns # {} => cursor # {}

(* Unless SEQ started over, the anchor is below every event that is left,  *)
(* and no event to come will be taken for one already seen.                *)
Anchored ==
  \A c \in cursor : /\ c.anchor \in 1 .. SEQ /\ c.through <= SEQ
                    /\ \A i \in DOMAIN events : c.anchor <= events[i].seq

(* Once rows of turns have lost their events, the session is beheaded for  *)
(* good, even while it is empty.                                           *)
Headless ==
  outlived # {} => /\ cursor # {}
                   /\ \A c \in cursor : \A i \in DOMAIN events : c.anchor < events[i].seq

(* The label is taken before the first prompt can go.                      *)
Pinned ==
  /\ label = 0 => FirstPrompt(events) = opening
  /\ label # 0 => label = opening

-----------------------------------------------------------------------------
(* What the actions do to the events.                                      *)

(* The first and the last of a session's events.                           *)
LEMMA EndsOf ==
  ASSUME NEW rows \in Seq(Event), rows # <<>>, InOrder(rows)
  PROVE  /\ Head(rows) = rows[1] /\ 1 \in DOMAIN rows
         /\ Last(rows) \in Event /\ MaxSeq(rows) = Last(rows).seq
         /\ \A i \in DOMAIN rows : /\ rows[i] \in Event
                                   /\ rows[1].seq <= rows[i].seq
                                   /\ rows[i].seq <= Last(rows).seq
                                   /\ rows[i].at <= Last(rows).at
<1>. DEFINE n == Len(rows)
<1>1. /\ n \in Nat \ {0} /\ DOMAIN rows = 1 .. n /\ Last(rows) = rows[n] /\ Head(rows) = rows[1]
      /\ \A i \in 1 .. n : rows[i] \in Event
  BY DEF Last
<1>2. \A i \in 1 .. n : rows[i].seq \in Nat /\ rows[i].at \in Nat
  BY <1>1 DEF Event
<1>3. ASSUME NEW i \in 1 .. n
      PROVE  /\ rows[1].seq <= rows[i].seq /\ rows[i].seq <= rows[n].seq
             /\ rows[i].at <= rows[n].at
  <2>1. /\ 1 < i => rows[1].seq < rows[i].seq
        /\ i < n => rows[i].seq < rows[n].seq /\ rows[i].at <= rows[n].at
    BY <1>1 DEF InOrder
  <2>. HIDE DEF n
  <2>2. 1 = i \/ 1 < i
    BY <1>1
  <2>3. n = i \/ i < n
    BY <1>1
  <2>. QED  BY <1>1, <1>2, <2>1, <2>2, <2>3
<1>. QED  BY <1>1, <1>3 DEF MaxSeq

(* A stored event is newer than all others.                                *)
LEMMA ReceivedIs ==
  ASSUME ReceiveAny, Stored
  PROVE  \E r \in Event :
           /\ r.seq = SEQ + 1 /\ r.at = now
           /\ events' = Append(events, r) /\ SEQ' = SEQ + 1
           /\ opening' = IF opening = 0 /\ r.type = "UserPromptSubmit" THEN SEQ + 1 ELSE opening
           /\ fresh' = FALSE /\ missed' = FALSE
           /\ UNCHANGED <<now, faults, usage, tables, outlived, holes, reseeded>>
<1>1. ASSUME NEW type \in Types, NEW id \in (1 .. MaxCalls) \cup {NoId}, NEW agent \in BOOLEAN,
             Receive(type, id, agent)
      PROVE  \E r \in Event :
               /\ r.seq = SEQ + 1 /\ r.at = now
               /\ events' = Append(events, r) /\ SEQ' = SEQ + 1
               /\ opening' = IF opening = 0 /\ r.type = "UserPromptSubmit" THEN SEQ + 1 ELSE opening
               /\ fresh' = FALSE /\ missed' = FALSE
               /\ UNCHANGED <<now, faults, usage, tables, outlived, holes, reseeded>>
  <2>. DEFINE r == [seq |-> SEQ + 1, type |-> type, id |-> id, agent |-> agent, at |-> now,
                    error |-> FALSE, permission |-> FALSE, input |-> NoInput]
  <2>1. r \in Event
    BY DEF Stored, Event
  <2>2. r.seq = SEQ + 1 /\ r.at = now /\ r.type = type
    OBVIOUS
  <2>3. /\ events' = Append(events, r) /\ SEQ' = SEQ + 1
        /\ opening' = IF opening = 0 /\ type = "UserPromptSubmit" THEN SEQ + 1 ELSE opening
        /\ fresh' = FALSE /\ missed' = FALSE
        /\ UNCHANGED <<now, faults, usage, tables, outlived, holes, reseeded>>
    BY <1>1 DEF Receive
  <2>. HIDE DEF r
  <2>. QED  BY <2>1, <2>2, <2>3
<1>2. CASE \E type \in {"UserPromptSubmit", "Stop", "SessionEnd"} : Receive(type, NoId, FALSE)
  BY <1>1, <1>2 DEF Types
<1>3. CASE \E id \in 1 .. MaxCalls, agent \in BOOLEAN : Receive("PreToolUse", id, agent)
  BY <1>1, <1>3 DEF Types
<1>4. CASE \E id \in unanswered : id \in 1 .. MaxCalls /\ Receive("PostToolUse", id, FALSE)
  BY <1>1, <1>4 DEF Types
<1>. QED  BY <1>2, <1>3, <1>4 DEF ReceiveAny, Stored

(* What a trim leaves of the events.                                       *)
LEMMA TrimmedIs ==
  ASSUME NEW rows \in Seq(Event), InOrder(rows), NEW n \in 1 .. Len(rows)
  PROVE  LET left == SubSeq(rows, n + 1, Len(rows))
         IN /\ left \in Seq(Event) /\ InOrder(left)
            /\ \A i \in DOMAIN left : /\ i + n \in DOMAIN rows /\ left[i] = rows[i + n]
                                      /\ rows[1].seq < left[i].seq
<1>. DEFINE m    == Len(rows)
            left == SubSeq(rows, n + 1, m)
<1>1. m \in Nat /\ n \in Nat /\ 1 <= n /\ n <= m /\ DOMAIN rows = 1 .. m
  OBVIOUS
<1>2. /\ left \in Seq(Event) /\ DOMAIN left = 1 .. m - n
      /\ \A i \in 1 .. m - n : left[i] = rows[i + n]
  BY <1>1
<1>. HIDE DEF left, m
<1>3. \A i \in 1 .. m - n : i + n \in 1 .. m /\ 1 \in 1 .. m /\ 1 < i + n
  BY <1>1
<1>4. InOrder(left)
  <2>. SUFFICES ASSUME NEW i \in 1 .. m - n, NEW j \in 1 .. m - n, i < j
                PROVE  left[i].seq < left[j].seq /\ left[i].at <= left[j].at
    BY <1>2 DEF InOrder
  <2>1. i + n < j + n /\ i + n \in 1 .. m /\ j + n \in 1 .. m
    BY <1>1, <1>3
  <2>. QED  BY <1>1, <1>2, <2>1 DEF InOrder
<1>5. ASSUME NEW i \in DOMAIN left PROVE rows[1].seq < left[i].seq
  BY <1>1, <1>2, <1>3 DEF InOrder
<1>. QED  BY <1>1, <1>2, <1>3, <1>4, <1>5 DEF left, m

(* A new event at the end leaves the events in order.                       *)
LEMMA AppendedIs ==
  ASSUME NEW rows \in Seq(Event), InOrder(rows), NEW r \in Event,
         \A i \in DOMAIN rows : rows[i].seq < r.seq /\ rows[i].at <= r.at
  PROVE  LET more == Append(rows, r)
         IN /\ more \in Seq(Event) /\ InOrder(more) /\ more # <<>> /\ Last(more) = r
            /\ \A i \in DOMAIN more : more[i] = r \/ (i \in DOMAIN rows /\ more[i] = rows[i])
            /\ rows # <<>> => more[1] = rows[1]
<1>. DEFINE n    == Len(rows)
            more == Append(rows, r)
<1>0. /\ n \in Nat /\ DOMAIN rows = 1 .. n /\ more \in Seq(Event) /\ Len(more) = n + 1
      /\ rows # <<>> => n > 0
  OBVIOUS
<1>1. /\ n \in Nat /\ DOMAIN rows = 1 .. n /\ DOMAIN more = 1 .. n + 1 /\ more[n + 1] = r
      /\ \A i \in 1 .. n : more[i] = rows[i]
      /\ more \in Seq(Event) /\ Len(more) = n + 1 /\ more # <<>>
      /\ rows # <<>> => n > 0
  <2>1. DOMAIN more = 1 .. n + 1 /\ more # <<>>
    BY <1>0
  <2>2. more[n + 1] = r /\ \A i \in 1 .. n : more[i] = rows[i]
    BY <1>0
  <2>. QED  BY <1>0, <2>1, <2>2
<1>. HIDE DEF n, more
<1>2. \A i \in 1 .. n + 1 : i = n + 1 \/ i \in 1 .. n
  BY <1>1
<1>3. InOrder(more)
  <2>. SUFFICES ASSUME NEW i \in 1 .. n + 1, NEW j \in 1 .. n + 1, i < j
                PROVE  more[i].seq < more[j].seq /\ more[i].at <= more[j].at
    BY <1>1 DEF InOrder
  <2>1. i \in 1 .. n
    BY <1>1
  <2>2. CASE j = n + 1
    BY <1>1, <2>1, <2>2
  <2>3. CASE j \in 1 .. n
    BY <1>1, <2>1, <2>3 DEF InOrder
  <2>. QED  BY <1>2, <2>2, <2>3
<1>4. Last(more) = r
  BY <1>1 DEF Last
<1>5. rows # <<>> => more[1] = rows[1]
  BY <1>1
<1>. QED  BY <1>1, <1>2, <1>3, <1>4, <1>5 DEF more

(* What the invariant says of one event.                                    *)
LEMMA EventsAre ==
  ASSUME Stored, NEW i \in DOMAIN events
  PROVE  /\ events[i] \in Event /\ events[i].seq \in Nat \ {0} /\ events[i].at \in Nat
         /\ events[i].seq <= SEQ /\ events[i].at <= now
<1>1. events[i] \in Event
  BY DEF Stored
<1>. QED  BY <1>1 DEF Stored, Event

(* The events stay in order, under SEQ and in the past, whatever happens;   *)
(* after a restart under the highest seq on disk, too.                      *)
LEMMA StoredStep ==
  ASSUME Stored, [Next]_vars
  PROVE  Stored'
<1>1. CASE ReceiveAny
  <2>1. PICK r \in Event :
          /\ r.seq = SEQ + 1 /\ r.at = now
          /\ events' = Append(events, r) /\ SEQ' = SEQ + 1
          /\ UNCHANGED <<now, faults, usage, tables, outlived, holes, reseeded>>
    BY <1>1, ReceivedIs
  <2>2. \A i \in DOMAIN events : events[i] \in Event /\ events[i].seq \in Nat
    BY EventsAre
  <2>3. \A i \in DOMAIN events : events[i].seq < r.seq /\ events[i].at <= r.at
    BY <2>1, <2>2 DEF Stored
  <2>4. /\ events' \in Seq(Event) /\ InOrder(events')
        /\ \A i \in DOMAIN events' :
             events'[i] = r \/ (i \in DOMAIN events /\ events'[i] = events[i])
    BY <2>1, <2>3, AppendedIs DEF Stored
  <2>5. \A i \in DOMAIN events' : events'[i].seq <= SEQ' /\ events'[i].at <= now'
    BY <2>1, <2>2, <2>4 DEF Stored
  <2>6. unanswered' \subseteq made' /\ made' \subseteq 1 .. MaxCalls
    BY <1>1 DEF ReceiveAny, Stored
  <2>. QED  BY <2>1, <2>4, <2>5, <2>6 DEF Stored
<1>2. CASE UsageArrives
  BY <1>2 DEF UsageArrives, Stored
<1>3. CASE Tick
  <2>1. now' = now + 1 /\ UNCHANGED <<SEQ, events, made, unanswered>>
    BY <1>3 DEF Tick, session
  <2>2. \A i \in DOMAIN events : events[i].at \in Nat
    BY EventsAre
  <2>. QED  BY <2>1, <2>2 DEF Stored
<1>4. ASSUME NEW n \in 1 .. MaxEvents, Retention(n) PROVE Stored'
  <2>1. /\ n \in 1 .. Len(events) /\ events' = SubSeq(events, n + 1, Len(events))
        /\ UNCHANGED <<now, SEQ, made, unanswered>>
    BY <1>4 DEF Retention
  <2>2. /\ events' \in Seq(Event) /\ InOrder(events')
        /\ \A i \in DOMAIN events' : i + n \in DOMAIN events /\ events'[i] = events[i + n]
    BY <2>1, TrimmedIs DEF Stored
  <2>. QED  BY <2>1, <2>2 DEF Stored
<1>5. CASE Rebuild
  BY <1>5 DEF Rebuild, Stored, session
<1>6. CASE Restart
  <2>1. UNCHANGED <<now, events, made, unanswered>> /\ SEQ' \in {MaxSeq(events), SEQ}
    BY <1>6 DEF Restart, session
  <2>2. MaxSeq(events) \in Nat /\ \A i \in DOMAIN events : events[i].seq <= MaxSeq(events)
    <3>1. CASE events = <<>>
      BY <3>1 DEF MaxSeq
    <3>2. CASE events # <<>>
      BY <3>2, EndsOf DEF Stored, Event
    <3>. QED  BY <3>1, <3>2
  <2>. QED  BY <2>1, <2>2 DEF Stored
<1>7. CASE UNCHANGED vars
  BY <1>7 DEF vars, session, Stored
<1>. QED  BY <1>1, <1>2, <1>3, <1>4, <1>5, <1>6, <1>7 DEF Next

-----------------------------------------------------------------------------
(* What the actions do to the watermark.                                   *)

(* The usage rows can be counted.                                           *)
LEMMA EpochIs ==
  ASSUME Watermarked
  PROVE  Epoch \in Nat
  BY FS_CardinalityType DEF Watermarked, Epoch

(* The anchor is that of the watermark when there is one.                   *)
LEMMA AnchorIs ==
  ASSUME Watermarked, NEW rows
  PROVE  /\ cursor = {} => Anchor(rows) = Head(rows).seq
         /\ \A c \in cursor : Anchor(rows) = c.anchor
  BY DEF Watermarked, Anchor

(* The watermark a materialization writes is one, and not frozen.           *)
LEMMA MarkIs ==
  ASSUME Stored, Watermarked, events # <<>>, NEW derived
  PROVE  LET d == Watermark(events, derived)
         IN /\ d \in Mark /\ d.through = MaxSeq(events) /\ d.epoch = Epoch
            /\ d.anchor = Anchor(events) /\ ~d.frozen
<1>1. MaxSeq(events) \in Nat /\ Head(events).seq \in Nat
  BY EndsOf DEF Stored, Event
<1>2. Anchor(events) \in Nat
  <2>1. \A c \in cursor : c.anchor \in Nat
    BY DEF Watermarked, Mark
  <2>. QED  BY <1>1, <2>1, AnchorIs
<1>3. {u.id : u \in usage} \in SUBSET Nat
  BY EpochIs DEF Watermarked
<1>4. \A S : {u.id : u \in usage} \ S \in SUBSET Nat
  BY <1>3
<1>. QED  BY <1>1, <1>2, <1>4, EpochIs DEF Watermark, Mark

(* A watermark comes from the one before it, or is new.                    *)
Follows(d) ==
  \/ \E c \in cursor : d.anchor = c.anchor /\ d.through <= c.through /\ d.epoch <= c.epoch
  \/ events # <<>> /\ d.through = MaxSeq(events) /\ d.epoch = Epoch /\ d.anchor = Anchor(events)
MarksFollow ==
  /\ cursor' \in SUBSET Mark /\ \A c, d \in cursor' : c = d
  /\ \A d \in cursor' : Follows(d)
  /\ cursor # {} => cursor' # {}
  /\ turns' # {} => cursor' # {}

(* A watermark left alone follows itself.                                   *)
LEMMA SameFollow ==
  ASSUME Watermarked, UNCHANGED <<turns, cursor>>
  PROVE  MarksFollow
  BY DEF Watermarked, MarksFollow, Follows, Mark

(* A materialization writes a watermark of the events as they are.          *)
LEMMA RederivedFollow ==
  ASSUME Stored, Watermarked, events # <<>>, NEW at, Rederived(events, at)
  PROVE  MarksFollow /\ \A d \in cursor' : ~d.frozen
<1>1. PICK derived : cursor' = {Watermark(events, derived)}
  BY DEF Rederived
<1>2. \A d \in cursor' : /\ d \in Mark /\ d.through = MaxSeq(events) /\ d.epoch = Epoch
                         /\ d.anchor = Anchor(events) /\ ~d.frozen
  BY <1>1, MarkIs
<1>3. cursor' # {} /\ \A c, d \in cursor' : c = d
  BY <1>1
<1>. QED  BY <1>2, <1>3 DEF MarksFollow, Follows

(* A watermark put back, its anchor kept, follows the one it was.           *)
LEMMA ResetFollow ==
  ASSUME Watermarked, NEW c \in cursor, NEW d \in Mark, d.anchor = c.anchor,
         d.through <= c.through, d.epoch <= c.epoch, cursor' = {d}
  PROVE  MarksFollow
  BY DEF MarksFollow, Follows

(* The cursor is a single watermark.                                        *)
LEMMA OneMark ==
  ASSUME Watermarked, cursor # {}
  PROVE  \E c \in Mark : cursor = {c}
  BY DEF Watermarked

(* A sweep leaves things alone, freezes, or derives the turns anew.        *)
LEMMA FrozenIs ==
  ASSUME Watermarked, cursor # {}, cursor' = {[c EXCEPT !.frozen = TRUE] : c \in cursor}
  PROVE  MarksFollow /\ \A d \in cursor' : d.frozen
<1>1. PICK c \in Mark : cursor = {c}
  BY OneMark
<1>. DEFINE d == [c EXCEPT !.frozen = TRUE]
<1>2. /\ d \in Mark /\ d.anchor = c.anchor /\ d.through = c.through /\ d.epoch = c.epoch
      /\ d.frozen /\ c.through \in Nat /\ c.epoch \in Nat
  BY DEF Mark
<1>3. cursor' = {d}
  BY <1>1
<1>. HIDE DEF d
<1>. QED  BY <1>1, <1>2, <1>3, ResetFollow

(* Whatever a sweep does, the watermark follows.                            *)
LEMMA SweepFollow ==
  ASSUME Stored, Watermarked, NEW at, Sweep(events, at)
  PROVE  MarksFollow
<1>1. CASE UNCHANGED <<turns, cursor>>
  BY <1>1, SameFollow
<1>2. CASE /\ Beheaded(events) /\ cursor' = {[c EXCEPT !.frozen = TRUE] : c \in cursor}
  BY <1>2, FrozenIs DEF Beheaded
<1>3. CASE Candidate(events, at) /\ Rederived(events, at)
  BY <1>3, RederivedFollow DEF Candidate
<1>. QED  BY <1>1, <1>2, <1>3 DEF Sweep

(* The watermarks a rebuild puts back to zero.                             *)
LEMMA RebuiltIs ==
  ASSUME Stored, Watermarked, Rebuild
  PROVE  /\ MarksFollow
         /\ \/ events = <<>> /\ UNCHANGED <<turns, fresh>>
            \/ /\ events # <<>> /\ (\A c \in cursor : ~c.frozen) /\ ~Beheaded(events)
               /\ Rederived(events, now)
            \/ /\ events # <<>> /\ UNCHANGED <<turns, fresh>>
               /\ cursor # {} /\ \A d \in cursor' : d.frozen
<1>. DEFINE Reset(c) == IF c.frozen THEN c ELSE [c EXCEPT !.through = 0, !.epoch = 0]
            Froze(c) == [Reset(c) EXCEPT !.frozen = TRUE]
<1>1. ASSUME NEW c \in Mark
      PROVE  /\ Reset(c) \in Mark /\ Reset(c).anchor = c.anchor
             /\ Reset(c).through <= c.through /\ Reset(c).epoch <= c.epoch
             /\ Froze(c) \in Mark /\ Froze(c).anchor = c.anchor /\ Froze(c).frozen
             /\ Froze(c).through <= c.through /\ Froze(c).epoch <= c.epoch
  <2>. DEFINE r == Reset(c)
  <2>1. c.through \in Nat /\ c.epoch \in Nat
    BY DEF Mark
  <2>2. /\ r \in Mark /\ r.anchor = c.anchor /\ r.through <= c.through /\ r.epoch <= c.epoch
    <3>1. CASE c.frozen
      BY <2>1, <3>1
    <3>2. CASE ~c.frozen
      <4>. DEFINE z == [c EXCEPT !.through = 0, !.epoch = 0]
      <4>1. r = z
        BY <3>2
      <4>2. z \in Mark /\ z.anchor = c.anchor /\ z.through = 0 /\ z.epoch = 0
        BY DEF Mark
      <4>. HIDE DEF r, z
      <4>. QED  BY <2>1, <4>1, <4>2
    <3>. QED  BY <3>1, <3>2
  <2>. HIDE DEF Reset
  <2>3. LET f == [r EXCEPT !.frozen = TRUE]
        IN f \in Mark /\ f.anchor = r.anchor /\ f.through = r.through /\ f.epoch = r.epoch
           /\ f.frozen
    BY <2>2 DEF Mark
  <2>. QED  BY <2>2, <2>3
<1>2. CASE events = <<>> /\ cursor' = {Reset(c) : c \in cursor} /\ UNCHANGED <<turns, fresh>>
  <2>1. CASE cursor = {}
    <3>1. UNCHANGED <<turns, cursor>>
      BY <1>2, <2>1
    <3>. QED  BY <1>2, <3>1, SameFollow
  <2>2. CASE cursor # {}
    <3>1. PICK c \in Mark : cursor = {c}
      BY <2>2, OneMark
    <3>2. cursor' = {Reset(c)}
      BY <1>2, <3>1
    <3>. HIDE DEF Reset
    <3>. QED  BY <1>1, <1>2, <3>1, <3>2, ResetFollow
  <2>. QED  BY <2>1, <2>2
<1>3. CASE /\ events # <<>> /\ (\A c \in cursor : ~c.frozen) /\ ~Beheaded(events)
           /\ Rederived(events, now)
  BY <1>3, RederivedFollow
<1>4. CASE /\ events # <<>> /\ (\E c \in cursor : c.frozen \/ Beheaded(events))
           /\ cursor' = {Froze(c) : c \in cursor} /\ UNCHANGED <<turns, fresh>>
  <2>1. PICK c \in Mark : cursor = {c}
    BY <1>4, OneMark
  <2>2. cursor' = {Froze(c)}
    BY <1>4, <2>1
  <2>3. /\ Froze(c) \in Mark /\ Froze(c).anchor = c.anchor /\ Froze(c).frozen
        /\ Froze(c).through <= c.through /\ Froze(c).epoch <= c.epoch
    BY <1>1
  <2>. HIDE DEF Froze
  <2>4. MarksFollow
    BY <2>1, <2>2, <2>3, ResetFollow
  <2>. QED  BY <1>4, <2>1, <2>2, <2>3, <2>4
<1>. QED  BY <1>2, <1>3, <1>4 DEF Rebuild

(* Whatever happens, a watermark is what it was or what it should be.      *)
LEMMA MarksStep ==
  ASSUME Stored, Watermarked, [Next]_vars
  PROVE  MarksFollow
<1>1. CASE ReceiveAny
  <2>1. UNCHANGED tables
    BY <1>1, ReceivedIs
  <2>. QED  BY <2>1, SameFollow DEF tables
<1>2. CASE UsageArrives
  BY <1>2, SameFollow DEF UsageArrives, tables
<1>3. CASE Tick
  BY <1>3, SweepFollow, SameFollow DEF Tick, NoSweep
<1>4. ASSUME NEW n \in 1 .. MaxEvents, Retention(n) PROVE MarksFollow
  BY <1>4, SweepFollow, SameFollow DEF Retention, SweepFirst, NoSweep
<1>5. CASE Rebuild
  BY <1>5, RebuiltIs
<1>6. CASE Restart
  BY <1>6, SameFollow DEF Restart, tables
<1>7. CASE UNCHANGED vars
  BY <1>7, SameFollow DEF vars, tables
<1>. QED  BY <1>1, <1>2, <1>3, <1>4, <1>5, <1>6, <1>7 DEF Next

(* The cursor stays a single watermark, none of it ahead of the usage, and  *)
(* rows never come without it.                                              *)
LEMMA WatermarkedStep ==
  ASSUME Stored, Watermarked, [Next]_vars
  PROVE  Watermarked'
<1>1. MarksFollow
  BY MarksStep
<1>2. /\ IsFiniteSet(usage') /\ (\A u \in usage' : u.id \in 1 .. Epoch')
      /\ Epoch' \in Nat /\ Epoch <= Epoch'
  <2>1. CASE UsageArrives
    <3>. DEFINE u == [id |-> Epoch + 1, emitted |-> SetToSeq(made), follows |-> <<>>,
                      ts |-> now, sidechain |-> FALSE]
    <3>1. usage' = usage \cup {u} /\ u.id = Epoch + 1
      BY <2>1 DEF UsageArrives
    <3>. HIDE DEF u
    <3>2. u \notin usage
      BY <3>1, EpochIs DEF Watermarked
    <3>3. IsFiniteSet(usage') /\ Epoch' = Epoch + 1
      BY <3>1, <3>2, FS_AddElement DEF Watermarked, Epoch
    <3>. QED  BY <3>1, <3>3, EpochIs DEF Watermarked
  <2>2. CASE UNCHANGED usage
    BY <2>2, EpochIs DEF Watermarked, Epoch
  <2>3. UsageArrives \/ UNCHANGED usage
    BY ReceivedIs DEF Next, Tick, Retention, Rebuild, Restart, vars, session
  <2>. QED  BY <2>1, <2>2, <2>3
<1>3. \A d \in cursor' : d.epoch <= Epoch'
  <2>. SUFFICES ASSUME NEW d \in cursor' PROVE d.epoch <= Epoch'
    OBVIOUS
  <2>1. Follows(d) /\ d.epoch \in Nat
    BY <1>1 DEF MarksFollow, Mark
  <2>2. \A c \in cursor : c.epoch \in Nat /\ c.epoch <= Epoch
    BY DEF Watermarked, Mark
  <2>3. d.epoch <= Epoch
    BY <2>1, <2>2, EpochIs DEF Follows
  <2>. QED  BY <1>2, <2>1, <2>3, EpochIs
<1>. QED  BY <1>1, <1>2, <1>3 DEF Watermarked, MarksFollow

(* What the model remembers of the run stays well typed.                    *)
LEMMA ToldStep ==
  ASSUME Stored, Told, [Next]_vars
  PROVE  Told'
<1>1. CASE ReceiveAny
  <2>1. fresh' = FALSE /\ missed' = FALSE /\ reseeded' = reseeded
    BY <1>1, ReceivedIs
  <2>. QED  BY <2>1 DEF Told
<1>2. CASE UsageArrives
  BY <1>2 DEF UsageArrives, Told
<1>3. CASE Tick
  BY <1>3 DEF Tick, NoSweep, Told
<1>4. ASSUME NEW n \in 1 .. MaxEvents, Retention(n) PROVE Told'
  BY <1>4 DEF Retention, NoSweep, Told
<1>5. CASE Rebuild
  BY <1>5 DEF Rebuild, Told
<1>6. CASE Restart
  <2>1. reseeded' \in BOOLEAN
    BY <1>6 DEF Restart, Told
  <2>. QED  BY <1>6, <2>1 DEF Restart, Told
<1>7. CASE UNCHANGED vars
  BY <1>7 DEF vars, history, Told
<1>. QED  BY <1>1, <1>2, <1>3, <1>4, <1>5, <1>6, <1>7 DEF Next

(* SEQ starts over: reseeded says so, and for ever.                        *)
LEMMA SeqGrows ==
  ASSUME Stored, Told, [Next]_vars, ~reseeded'
  PROVE  ~reseeded /\ SEQ <= SEQ'
<1>1. CASE ReceiveAny
  <2>1. SEQ' = SEQ + 1 /\ reseeded' = reseeded
    BY <1>1, ReceivedIs
  <2>. QED  BY <2>1 DEF Stored, Told
<1>2. CASE Restart
  <2>1. reseeded' = (reseeded \/ SEQ' < SEQ) /\ SEQ \in Nat /\ SEQ' \in Nat
    BY <1>2, StoredStep DEF Restart, Stored
  <2>2. ~reseeded /\ ~(SEQ' < SEQ)
    BY <2>1, Zenon
  <2>. QED  BY <2>1, <2>2
<1>3. CASE UNCHANGED <<SEQ, reseeded>>
  BY <1>3 DEF Stored, Told
<1>4. ReceiveAny \/ Restart \/ UNCHANGED <<SEQ, reseeded>>
  BY DEF Next, UsageArrives, Tick, Retention, Rebuild, vars, history
<1>. QED  BY <1>1, <1>2, <1>3, <1>4

(* The events after a step: those that were there, but for a trim, and one *)
(* more with a fresh seq.                                                  *)
LEMMA EventsFollow ==
  ASSUME Stored, [Next]_vars
  PROVE  \A i \in DOMAIN events' :
           events'[i].seq = SEQ + 1 \/ \E j \in DOMAIN events : events'[i] = events[j]
<1>1. CASE ReceiveAny
  <2>1. PICK r \in Event : r.seq = SEQ + 1 /\ r.at = now /\ events' = Append(events, r)
    BY <1>1, ReceivedIs
  <2>2. \A i \in DOMAIN events : events[i].seq < r.seq /\ events[i].at <= r.at
    BY <2>1, EventsAre DEF Stored
  <2>. QED  BY <2>1, <2>2, AppendedIs DEF Stored
<1>2. ASSUME NEW n \in 1 .. MaxEvents, Retention(n)
      PROVE  \A i \in DOMAIN events' : \E j \in DOMAIN events : events'[i] = events[j]
  BY <1>2, TrimmedIs DEF Retention, Stored
<1>3. CASE UNCHANGED events
  BY <1>3
<1>4. ReceiveAny \/ (\E n \in 1 .. MaxEvents : Retention(n)) \/ UNCHANGED events
  BY DEF Next, UsageArrives, Tick, Rebuild, Restart, vars, session
<1>. QED  BY <1>1, <1>2, <1>3, <1>4

(* As long as SEQ does not start over, the anchor stays below what is left  *)
(* of the events.                                                           *)
LEMMA AnchoredStep ==
  ASSUME Stored, Told, Watermarked, Anchored, [Next]_vars, ~reseeded'
  PROVE  Anchored'
<1>1. MarksFollow /\ SEQ \in Nat /\ SEQ' \in Nat /\ SEQ <= SEQ'
  BY MarksStep, SeqGrows, StoredStep DEF Stored
<1>. SUFFICES ASSUME NEW d \in cursor'
              PROVE  /\ d.anchor \in 1 .. SEQ' /\ d.through <= SEQ'
                     /\ \A i \in DOMAIN events' : d.anchor <= events'[i].seq
  BY DEF Anchored
<1>2. d.through \in Nat /\ d.anchor \in Nat /\ Follows(d)
  BY <1>1 DEF MarksFollow, Mark
<1>3. /\ d.anchor \in 1 .. SEQ /\ d.through <= SEQ
      /\ \A i \in DOMAIN events : d.anchor <= events[i].seq
  <2>1. ASSUME NEW c \in cursor, d.anchor = c.anchor, d.through <= c.through
        PROVE  /\ d.anchor \in 1 .. SEQ /\ d.through <= SEQ
               /\ \A i \in DOMAIN events : d.anchor <= events[i].seq
    <3>1. c.through \in Nat
      BY DEF Watermarked, Mark
    <3>. QED  BY <1>1, <1>2, <2>1, <3>1 DEF Anchored
  <2>2. CASE events # <<>> /\ d.through = MaxSeq(events) /\ d.anchor = Anchor(events)
    <3>1. /\ Head(events) = events[1] /\ 1 \in DOMAIN events /\ MaxSeq(events) <= SEQ
          /\ \A i \in DOMAIN events : events[1].seq <= events[i].seq
      <4>1. Last(events) = events[Len(events)] /\ Len(events) \in DOMAIN events
        BY <2>2 DEF Last, Stored
      <4>. QED  BY <2>2, <4>1, EndsOf, EventsAre DEF Stored
    <3>2. events[1].seq \in 1 .. SEQ
      BY <3>1, EventsAre DEF Stored
    <3>3. CASE cursor = {}
      BY <2>2, <3>1, <3>2, <3>3, AnchorIs
    <3>4. CASE cursor # {}
      <4>1. PICK c \in cursor : TRUE
        BY <3>4
      <4>2. d.anchor = c.anchor
        BY <2>2, <4>1, AnchorIs
      <4>. QED  BY <2>2, <3>1, <4>1, <4>2 DEF Anchored
    <3>. QED  BY <3>3, <3>4
  <2>. QED  BY <1>2, <2>1, <2>2 DEF Follows
<1>4. ASSUME NEW i \in DOMAIN events' PROVE d.anchor <= events'[i].seq
  BY <1>1, <1>3, EventsFollow
<1>. QED  BY <1>1, <1>2, <1>3, <1>4

-----------------------------------------------------------------------------
(* The label.                                                              *)
IsPrompt(r) == r.type = "UserPromptSubmit"

(* The first prompt is the prompt with the least seq.                       *)
LEMMA FirstPromptIs ==
  ASSUME NEW rows \in Seq(Event), NEW k \in DOMAIN rows, IsPrompt(rows[k]),
         \A j \in DOMAIN rows : IsPrompt(rows[j]) => rows[k].seq <= rows[j].seq
  PROVE  FirstPrompt(rows) = rows[k].seq
<1>. DEFINE P     == {r \in ToSet(rows) : r.type = "UserPromptSubmit"}
            first == FirstOf(P)
<1>1. \A r \in P : r.seq \in Nat /\ rows[k].seq <= r.seq
  <2>1. \A j \in DOMAIN rows : rows[j] \in Event
    OBVIOUS
  <2>. QED  BY <2>1 DEF ToSet, IsPrompt, Event
<1>2. rows[k] \in P
  BY DEF ToSet, IsPrompt
<1>3. rows[k] \in first /\ \A r \in first : r \in P /\ r.seq <= rows[k].seq
  BY <1>1, <1>2 DEF FirstOf
<1>4. FirstPrompt(rows) = (CHOOSE r \in first : TRUE).seq
  <2>1. first # {}
    BY <1>3
  <2>. QED  BY <2>1 DEF FirstPrompt
<1>. HIDE DEF P, first
<1>5. (CHOOSE r \in first : TRUE) \in first
  BY <1>3
<1>. QED  BY <1>1, <1>2, <1>3, <1>4, <1>5

(* Without a prompt there is no first one.                                  *)
LEMMA NoPrompt ==
  ASSUME NEW rows, \A i \in DOMAIN rows : ~IsPrompt(rows[i])
  PROVE  FirstPrompt(rows) = 0
<1>1. {r \in ToSet(rows) : r.type = "UserPromptSubmit"} = {}
  BY DEF ToSet, IsPrompt
<1>2. FirstOf({}) = {}
  BY DEF FirstOf
<1>. QED  BY <1>1, <1>2 DEF FirstPrompt

(* With one there is a first one: the seqs of the prompts have a least.     *)
LEMMA SomePrompt ==
  ASSUME NEW rows \in Seq(Event), NEW i \in DOMAIN rows, IsPrompt(rows[i])
  PROVE  \E k \in DOMAIN rows :
           /\ IsPrompt(rows[k]) /\ FirstPrompt(rows) = rows[k].seq /\ rows[k].seq \in Nat \ {0}
           /\ \A j \in DOMAIN rows : IsPrompt(rows[j]) => rows[k].seq <= rows[j].seq
<1>. DEFINE T == {rows[j].seq : j \in {j \in DOMAIN rows : IsPrompt(rows[j])}}
<1>1. \A j \in DOMAIN rows : rows[j].seq \in Nat \ {0}
  <2>1. \A j \in DOMAIN rows : rows[j] \in Event
    OBVIOUS
  <2>. QED  BY <2>1 DEF Event
<1>2. T \subseteq Nat /\ T # {}
  BY <1>1
<1>3. PICK x \in T : \A y \in T : x <= y
  <2>. HIDE DEF T
  <2>. QED  BY <1>2, Placed!LeastNumber
<1>4. PICK k \in DOMAIN rows : IsPrompt(rows[k]) /\ x = rows[k].seq
  OBVIOUS
<1>5. \A j \in DOMAIN rows : IsPrompt(rows[j]) => rows[k].seq <= rows[j].seq
  BY <1>3, <1>4
<1>. QED  BY <1>1, <1>4, <1>5, FirstPromptIs

(* The label holds the first prompt from before the trim that could take it *)
(* away.                                                                    *)
LEMMA PinnedStep ==
  ASSUME Stored, Pinned, [Next]_vars
  PROVE  Pinned'
<1>1. CASE ReceiveAny
  <2>1. PICK r \in Event :
          /\ r.seq = SEQ + 1 /\ r.at = now /\ events' = Append(events, r)
          /\ opening' = IF opening = 0 /\ r.type = "UserPromptSubmit" THEN SEQ + 1 ELSE opening
          /\ UNCHANGED label
    BY <1>1, ReceivedIs DEF tables
  <2>. DEFINE more == Append(events, r)
              n    == Len(events)
  <2>2. /\ n \in Nat /\ DOMAIN events = 1 .. n /\ DOMAIN more = 1 .. n + 1
        /\ more \in Seq(Event) /\ more[n + 1] = r /\ \A i \in 1 .. n : more[i] = events[i]
    <3>1. events \in Seq(Event)
      BY DEF Stored
    <3>2. more \in Seq(Event) /\ n \in Nat /\ DOMAIN events = 1 .. n /\ Len(more) = n + 1
      BY <3>1
    <3>3. more[n + 1] = r /\ \A i \in 1 .. n : more[i] = events[i]
      BY <3>1
    <3>. QED  BY <3>2, <3>3
  <2>. HIDE DEF more, n
  <2>3. ASSUME NEW i \in 1 .. n PROVE events[i].seq \in Nat /\ events[i].seq < SEQ + 1
    <3>1. SEQ \in Nat
      BY DEF Stored
    <3>2. i \in DOMAIN events
      BY <2>2
    <3>3. events[i].seq \in Nat \ {0} /\ events[i].seq <= SEQ
      BY <3>2, EventsAre
    <3>. QED  BY <3>1, <3>3
  <2>4. CASE \E i \in DOMAIN events : IsPrompt(events[i])
    <3>1. PICK k \in DOMAIN events :
            /\ IsPrompt(events[k]) /\ FirstPrompt(events) = events[k].seq
            /\ events[k].seq \in Nat \ {0}
            /\ \A j \in DOMAIN events : IsPrompt(events[j]) => events[k].seq <= events[j].seq
      BY <2>4, SomePrompt DEF Stored
    <3>2. k \in DOMAIN more /\ more[k] = events[k]
      BY <2>2
    <3>3. \A j \in DOMAIN more : IsPrompt(more[j]) => more[k].seq <= more[j].seq
      <4>. SUFFICES ASSUME NEW j \in 1 .. n + 1, IsPrompt(more[j])
                    PROVE  events[k].seq <= more[j].seq
        BY <2>2, <3>2
      <4>1. CASE j \in 1 .. n
        BY <2>2, <3>1, <4>1
      <4>2. CASE j = n + 1
        <5>1. more[j].seq = SEQ + 1 /\ k \in 1 .. n
          BY <2>1, <2>2, <4>2
        <5>2. SEQ \in Nat
          BY DEF Stored
        <5>. QED  BY <2>3, <5>1, <5>2
      <4>. QED  BY <2>2, <4>1, <4>2
    <3>4. FirstPrompt(more) = events[k].seq
      BY <2>2, <3>1, <3>2, <3>3, FirstPromptIs
    <3>5. opening' = opening
      BY <2>1, <3>1 DEF Pinned
    <3>. QED  BY <2>1, <3>1, <3>4, <3>5 DEF Pinned, more
  <2>5. CASE \A i \in DOMAIN events : ~IsPrompt(events[i])
    <3>1. FirstPrompt(events) = 0
      BY <2>5, NoPrompt
    <3>2. CASE IsPrompt(r)
      <4>1. \A j \in DOMAIN more : IsPrompt(more[j]) => more[n + 1].seq <= more[j].seq
        BY <2>1, <2>2, <2>5 DEF Stored
      <4>2. FirstPrompt(more) = SEQ + 1
        BY <2>1, <2>2, <3>2, <4>1, FirstPromptIs
      <4>3. label = 0 => opening' = SEQ + 1
        BY <2>1, <3>1, <3>2 DEF Pinned, IsPrompt
      <4>4. label # 0 => opening' = opening
        BY <2>1 DEF Pinned
      <4>. QED  BY <2>1, <4>2, <4>3, <4>4 DEF Pinned, more
    <3>3. CASE ~IsPrompt(r)
      <4>1. \A j \in DOMAIN more : ~IsPrompt(more[j])
        BY <2>2, <2>5, <3>3
      <4>2. FirstPrompt(more) = 0
        BY <4>1, NoPrompt
      <4>3. opening' = opening
        BY <2>1, <3>3 DEF IsPrompt
      <4>. QED  BY <2>1, <3>1, <4>2, <4>3 DEF Pinned, more
    <3>. QED  BY <3>2, <3>3
  <2>. QED  BY <2>4, <2>5
<1>2. ASSUME NEW n \in 1 .. MaxEvents, Retention(n) PROVE Pinned'
  <2>1. /\ n \in 1 .. Len(events) /\ events' = SubSeq(events, n + 1, Len(events))
        /\ label' = (IF label = 0 THEN FirstPrompt(events) ELSE label) /\ opening' = opening
    BY <1>2 DEF Retention
  <2>2. CASE label = 0 /\ FirstPrompt(events) = 0
    <3>1. \A i \in DOMAIN events : ~IsPrompt(events[i])
      BY <2>2, SomePrompt DEF Stored
    <3>2. \A i \in DOMAIN events' : \E j \in DOMAIN events : events'[i] = events[j]
      BY <2>1, TrimmedIs DEF Stored
    <3>3. FirstPrompt(events') = 0
      BY <3>1, <3>2, NoPrompt
    <3>. QED  BY <2>1, <2>2, <3>3 DEF Pinned
  <2>3. CASE ~(label = 0 /\ FirstPrompt(events) = 0)
    BY <2>1, <2>3 DEF Pinned
  <2>. QED  BY <2>2, <2>3
<1>3. CASE UNCHANGED <<events, label, opening>>
  BY <1>3 DEF Pinned
<1>4. ReceiveAny \/ (\E n \in 1 .. MaxEvents : Retention(n)) \/ UNCHANGED <<events, label, opening>>
  BY DEF Next, UsageArrives, Tick, Rebuild, Restart, vars, session, tables
<1>. QED  BY <1>1, <1>2, <1>3, <1>4

-----------------------------------------------------------------------------
(* Of a silent session the clock changes nothing any more: not which turns *)
(* are settled, and, when it is silent long enough, nothing they say.      *)
LEMMA EventsAged ==
  ASSUME NEW rows \in Seq(Event), rows # <<>>, InOrder(rows), NEW d \in Nat,
         NEW from \in Nat, from - Last(rows).at >= d
  PROVE  rows \in Seq(ToSet(rows)) /\ \A e \in ToSet(rows) : e.at \in Nat /\ from - e.at >= d
<1>1. \A i \in DOMAIN rows : rows[i] \in Event /\ rows[i].at <= Last(rows).at
  BY EndsOf
<1>2. \A e \in Event : e.at \in Nat
  BY DEF Event
<1>3. Last(rows).at \in Nat
  BY EndsOf, <1>2
<1>4. ASSUME NEW i \in DOMAIN rows
      PROVE  rows[i].at \in Nat /\ from - rows[i].at >= d
  BY <1>1, <1>2, <1>3
<1>5. rows \in Seq(ToSet(rows))
  <2>1. rows \in [1 .. Len(rows) -> ToSet(rows)] /\ Len(rows) \in Nat
    BY DEF ToSet
  <2>. QED  BY <2>1
<1>. QED  BY <1>4, <1>5 DEF ToSet

(* Which turns of a silent session are settled does not change with the     *)
(* clock, nor what they are keyed by.                                       *)
LEMMA SettledAged ==
  ASSUME NEW rows \in Seq(Event), rows # <<>>, InOrder(rows),
         NEW from \in Nat, NEW to \in Nat, from <= to, Idle(rows, from)
  PROVE  /\ Settled(rows, BuildTurns(rows, from), from) = Settled(rows, BuildTurns(rows, to), to)
         /\ \A i \in Settled(rows, BuildTurns(rows, from), from) :
              BuildTurns(rows, from)[i].turn_seq = BuildTurns(rows, to)[i].turn_seq
<1>. DEFINE S    == ToSet(rows)
            segs == Segments(rows)
            old  == BuildTurns(rows, from)
            new  == BuildTurns(rows, to)
<1>1. OrphanMs \in Nat /\ Last(rows).at \in Nat
  BY TurnsAssumption, EndsOf DEF Event
<1>2. rows \in Seq(S) /\ \A e \in S : e.at \in Nat /\ from - e.at >= OrphanMs
  BY <1>1, EventsAged DEF Idle
<1>3. Idle(rows, to)
  BY <1>1 DEF Idle
<1>. HIDE DEF S
<1>4. segs \in Seq(Turn(S))
  BY <1>2, SegmentsType
<1>5. /\ DOMAIN old = DOMAIN segs /\ DOMAIN new = DOMAIN segs
      /\ \A i \in DOMAIN segs :
           /\ old[i].turn_seq = segs[i].turn_seq /\ old[i].calls = CallsOf(rows, segs[i], from)
           /\ new[i].turn_seq = segs[i].turn_seq /\ new[i].calls = CallsOf(rows, segs[i], to)
  BY <1>2, TurnsAre
<1>. HIDE DEF segs, old, new
<1>6. ASSUME NEW i \in DOMAIN segs
      PROVE  old[i].turn_seq = new[i].turn_seq /\ old[i].calls = new[i].calls
  <2>1. segs[i] \in Turn(S)
    BY <1>4
  <2>2. segs[i].events \in Seq(S)
    BY <2>1 DEF Turn, TurnOf
  <2>3. CallsOf(rows, segs[i], from) = CallsOf(rows, segs[i], to)
    <3>. DEFINE t == segs[i]
    <3>1. t.events \in Seq(S) /\ from \in Int /\ to \in Int
      BY <2>2
    <3>2. \A e \in S : e.at \in Nat /\ from - e.at >= OrphanMs
      BY <1>2
    <3>. HIDE DEF t
    <3>3. CallsOf(rows, t, from) = CallsOf(rows, t, to)
      BY <3>1, <3>2, CallsAged, ZenonT(40)
    <3>. QED  BY <3>3 DEF t
  <2>. QED  BY <1>5, <2>3
<1>7. Settled(rows, old, from) = Settled(rows, new, to)
  BY <1>3, <1>5, <1>6 DEF Settled
<1>8. Settled(rows, old, from) \subseteq DOMAIN old
  BY DEF Settled
<1>. QED  BY <1>5, <1>6, <1>7, <1>8 DEF old, new

(* When it is also silent for longer than the active window, its turns are  *)
(* the same at any later time.                                              *)
LEMMA TurnsAged ==
  ASSUME NEW rows \in Seq(Event), rows # <<>>, InOrder(rows),
         NEW from \in Nat, NEW to \in Nat, from <= to,
         Idle(rows, from), from - Last(rows).at >= ActiveMs
  PROVE  BuildTurns(rows, from) = BuildTurns(rows, to)
<1>. DEFINE S    == ToSet(rows)
            segs == Segments(rows)
<1>1. OrphanMs \in Nat /\ ActiveMs \in Nat
  BY TurnsAssumption
<1>2. rows \in Seq(S) /\ \A e \in S : e.at \in Nat /\ from - e.at >= OrphanMs
  BY <1>1, EventsAged DEF Idle
<1>3. \A e \in S : from - e.at >= ActiveMs
  BY <1>1, EventsAged
<1>. HIDE DEF S
<1>4. segs \in Seq(Turn(S))
  BY <1>2, SegmentsType
<1>. HIDE DEF segs
<1>5. \A i \in DOMAIN segs : Built(rows, segs, i, from) = Built(rows, segs, i, to)
  BY <1>2, <1>3, <1>4, BuiltAged
<1>. QED  BY <1>5 DEF BuildTurns, segs

-----------------------------------------------------------------------------
(* History: what has lost its events stays as it is.                       *)
LEMMA AnchorsFollow ==
  ASSUME Watermarked, MarksFollow, cursor # {}, NEW d \in cursor'
  PROVE  \E c \in cursor : d.anchor = c.anchor
<1>1. Follows(d)
  BY DEF MarksFollow
<1>2. PICK c \in cursor : TRUE
  OBVIOUS
<1>3. Anchor(events) = c.anchor
  BY AnchorIs
<1>. QED  BY <1>1, <1>2, <1>3 DEF Follows

(* A session with rows that outlived their events is recognised as beheaded *)
(* when it has events again.                                                *)
LEMMA BeheadedIs ==
  ASSUME Stored, Anchored, Headless, outlived # {}, events # <<>>
  PROVE  Beheaded(events)
<1>1. PICK c \in cursor : TRUE
  BY DEF Headless
<1>2. Head(events) = events[1] /\ 1 \in DOMAIN events
  BY EndsOf DEF Stored
<1>3. c.anchor > 0 /\ events[1].seq > c.anchor
  <2>1. c.anchor \in 1 .. SEQ /\ c.anchor < events[1].seq
    BY <1>1, <1>2 DEF Anchored, Headless
  <2>2. SEQ \in Nat /\ events[1].seq \in Nat
    BY <1>2, EventsAre DEF Stored
  <2>. QED  BY <2>1, <2>2
<1>. QED  BY <1>1, <1>2, <1>3 DEF Beheaded

(* A sweep does not touch the rows of such a session.                       *)
LEMMA TurnsStay ==
  ASSUME Stored, Anchored, Headless, outlived # {}, NEW at, Sweep(events, at)
  PROVE  turns' = turns
  BY BeheadedIs DEF Sweep, Candidate

(* The events a trim leaves are above the anchor.                          *)
LEMMA AnchorBelow ==
  ASSUME Stored, Watermarked, Anchored, MarksFollow, NEW n \in 1 .. Len(events),
         events' = SubSeq(events, n + 1, Len(events)), NEW d \in cursor', NEW i \in DOMAIN events'
  PROVE  d.anchor < events'[i].seq
<1>1. events # <<>> /\ events \in Seq(Event) /\ InOrder(events)
  BY DEF Stored
<1>2. /\ Head(events) = events[1] /\ 1 \in DOMAIN events
      /\ events[1].seq < events'[i].seq
  <2>1. Head(events) = events[1] /\ 1 \in DOMAIN events
    BY <1>1, EndsOf
  <2>2. events[1].seq < events'[i].seq
    BY <1>1, TrimmedIs
  <2>. QED  BY <2>1, <2>2
<1>3. d.anchor <= events[1].seq
  <2>1. CASE cursor = {}
    <3>1. d.anchor = Head(events).seq
      BY <2>1, AnchorIs DEF MarksFollow, Follows
    <3>. QED  BY <1>2, <3>1, EventsAre
  <2>2. CASE cursor # {}
    BY <1>2, <2>2, AnchorsFollow DEF Anchored
  <2>. QED  BY <2>1, <2>2
<1>4. d.anchor \in Nat /\ events[1].seq \in Nat /\ events'[i].seq \in Nat
  <2>1. \E j \in DOMAIN events : events'[i] = events[j]
    BY <1>1, TrimmedIs
  <2>. QED  BY <1>2, <2>1, EventsAre DEF MarksFollow, Mark
<1>. QED  BY <1>2, <1>3, <1>4

(* Rows that outlived their events stay as they are, and the session stays  *)
(* beheaded.                                                                *)
LEMMA HistoryStep ==
  ASSUME Stored, Told, Watermarked, Anchored, Headless, HistoryOutlivesEvents,
         [Next]_vars, ~reseeded'
  PROVE  Headless' /\ HistoryOutlivesEvents'
<1>1. MarksFollow
  BY MarksStep
<1>2. ASSUME NEW n \in 1 .. MaxEvents, Retention(n)
      PROVE  Headless' /\ HistoryOutlivesEvents'
  <2>. DEFINE gone == {r \in turns' : \E i \in 1 .. n : events[i].seq = r.turn_seq
                                                      \/ (r.turn_seq = 0 /\ i = 1)}
  <2>1. /\ n \in 1 .. Len(events) /\ events' = SubSeq(events, n + 1, Len(events))
        /\ outlived' = outlived \cup gone
        /\ Sweep(events, now) \/ UNCHANGED <<turns, cursor>>
    BY <1>2 DEF Retention, SweepFirst, NoSweep
  <2>2. outlived # {} => turns' = turns
    BY <2>1, TurnsStay
  <2>3. outlived' \subseteq turns'
    BY <2>1, <2>2 DEF HistoryOutlivesEvents
  <2>4. \A d \in cursor' : \A i \in DOMAIN events' : d.anchor < events'[i].seq
    BY <1>1, <2>1, AnchorBelow
  <2>5. outlived' # {} => cursor' # {}
    BY <1>1, <2>3 DEF MarksFollow
  <2>. QED  BY <2>3, <2>4, <2>5 DEF Headless, HistoryOutlivesEvents
<1>3. ASSUME UNCHANGED outlived, outlived # {} => turns' = turns,
             \A i \in DOMAIN events' :
               events'[i].seq = SEQ + 1 \/ \E j \in DOMAIN events : events'[i] = events[j]
      PROVE  Headless' /\ HistoryOutlivesEvents'
  <2>1. HistoryOutlivesEvents'
    BY <1>3 DEF HistoryOutlivesEvents
  <2>2. Headless'
    <3>. SUFFICES ASSUME outlived # {}, NEW d \in cursor', NEW i \in DOMAIN events'
                  PROVE  d.anchor < events'[i].seq
      BY <1>1, <1>3 DEF Headless, MarksFollow
    <3>1. PICK c \in cursor : d.anchor = c.anchor
      BY <1>1, AnchorsFollow DEF Headless
    <3>2. c.anchor \in 1 .. SEQ /\ \A j \in DOMAIN events : c.anchor < events[j].seq
      BY DEF Anchored, Headless
    <3>3. SEQ \in Nat
      BY DEF Stored
    <3>. QED  BY <1>3, <3>1, <3>2, <3>3
  <2>. QED  BY <2>1, <2>2
<1>4. ASSUME UNCHANGED <<outlived, turns>>
      PROVE  Headless' /\ HistoryOutlivesEvents'
  BY <1>3, <1>4, EventsFollow
<1>5. CASE ReceiveAny
  BY <1>4, <1>5, ReceivedIs DEF tables
<1>6. CASE UsageArrives
  BY <1>4, <1>6 DEF UsageArrives, tables
<1>7. CASE Tick
  <2>1. UNCHANGED outlived /\ (Sweep(events, now + 1) \/ turns' = turns)
    BY <1>7 DEF Tick, NoSweep
  <2>2. outlived # {} => turns' = turns
    BY <2>1, TurnsStay
  <2>. QED  BY <1>3, <2>1, <2>2, EventsFollow
<1>8. CASE Rebuild
  <2>1. UNCHANGED <<outlived, events>>
    BY <1>8 DEF Rebuild, session
  <2>2. outlived # {} => turns' = turns
    BY <1>8, RebuiltIs, BeheadedIs
  <2>. QED  BY <1>3, <2>1, <2>2, EventsFollow
<1>9. CASE Restart
  BY <1>4, <1>9 DEF Restart, tables
<1>10. CASE UNCHANGED vars
  BY <1>4, <1>10 DEF vars, tables, history
<1>. QED  BY <1>2, <1>5, <1>6, <1>7, <1>8, <1>9, <1>10 DEF Next

-----------------------------------------------------------------------------
(* A session nobody looks at any more: nothing came since its watermark,   *)
(* and the window in which the clock may settle something has passed, but  *)
(* for the step that ended it.                                             *)
CaughtUp ==
  /\ ~missed /\ Whole /\ cursor # {}
  /\ \A c \in cursor : c.through >= MaxSeq(events) /\ c.epoch >= Epoch
  /\ Idle(events, now) /\ now - Last(events).at >= 2 * OrphanMs - 1

SettledHaveRows ==
  \A i \in Settled(events, BuildTurns(events, now), now) :
    \E r \in turns : r.turn_seq = BuildTurns(events, now)[i].turn_seq

(* The turns are those of the events as they are, at the time they have.   *)
JustDerived ==
  /\ events # <<>> /\ UNCHANGED <<events, usage>> /\ now' \in Nat
  /\ turns' = Reconciled(SettledRows(events, BuildTurns(events, now'), now'),
                         BuildTurns(events, now'))

(* A materialization of a whole session leaves it just derived.             *)
LEMMA DerivedIs ==
  ASSUME events # <<>>, UNCHANGED <<events, usage>>, now' \in Nat, Rederived(events, now')
  PROVE  JustDerived
  BY DEF JustDerived, Rederived

(* A candidate no longer: the window has passed.                           *)
LEMMA NotCandidate ==
  ASSUME Stored, Watermarked, events # <<>>, ~Candidate(events, now'), ~missed, Whole,
         now' \in {now, now + 1}
  PROVE  CaughtUp
<1>1. PICK c \in cursor : /\ ~(c.through < MaxSeq(events)) /\ ~(c.epoch < Epoch)
                          /\ ~(now' - Last(events).at < 2 * OrphanMs)
  BY DEF Candidate, Whole
<1>2. \A d \in cursor : d = c
  BY <1>1 DEF Watermarked
<1>3. /\ MaxSeq(events) \in Nat /\ Last(events).at \in Nat /\ Last(events).at <= now
      /\ now \in Nat /\ OrphanMs \in Nat /\ Epoch \in Nat
  <2>1. Last(events) = events[Len(events)] /\ Len(events) \in DOMAIN events
    BY DEF Stored, Last
  <2>. QED  BY <2>1, EndsOf, EventsAre, EpochIs, TurnsAssumption DEF Stored
<1>4. c.through \in Nat /\ c.epoch \in Nat
  BY <1>1 DEF Watermarked, Mark
<1>5. c.through >= MaxSeq(events) /\ c.epoch >= Epoch
  BY <1>1, <1>3, <1>4
<1>6. now - Last(events).at >= OrphanMs /\ now - Last(events).at >= 2 * OrphanMs - 1
  BY <1>1, <1>3
<1>. QED  BY <1>1, <1>2, <1>5, <1>6 DEF CaughtUp, Idle

(* After a tick on which the sweep ran the turns are just derived, or the   *)
(* session was caught up and is left alone.                                 *)
LEMMA TickFollows ==
  ASSUME Stored, Watermarked, Tick, ~missed', Whole'
  PROVE  JustDerived \/ (CaughtUp /\ UNCHANGED <<events, usage, turns, cursor>> /\ now' = now + 1)
<1>1. /\ now' = now + 1 /\ now' \in Nat /\ Sweep(events, now') /\ missed' = missed
      /\ UNCHANGED <<events, usage>>
  BY DEF Tick, NoSweep, session, Stored
<1>2. events # <<>> /\ \A d \in cursor' : ~d.frozen
  BY <1>1 DEF Whole
<1>3. CASE ~Candidate(events, now') /\ UNCHANGED <<turns, cursor>>
  <2>1. Whole /\ ~missed
    BY <1>1, <1>3 DEF Whole, Beheaded
  <2>. QED  BY <1>1, <1>2, <1>3, <2>1, NotCandidate
<1>4. CASE Beheaded(events) /\ cursor' = {[c EXCEPT !.frozen = TRUE] : c \in cursor}
  <2>1. cursor # {}
    BY <1>4 DEF Beheaded
  <2>2. (\A d \in cursor' : d.frozen) /\ cursor' # {}
    BY <1>4, <2>1, FrozenIs DEF MarksFollow
  <2>. QED  BY <1>2, <2>2
<1>5. CASE Rederived(events, now')
  BY <1>1, <1>2, <1>5, DerivedIs
<1>. QED  BY <1>1, <1>3, <1>4, <1>5 DEF Sweep

(* After a rebuild a whole session has its turns just derived.              *)
LEMMA RebuildFollows ==
  ASSUME Stored, Watermarked, Rebuild, Whole'
  PROVE  JustDerived
<1>1. now' = now /\ now \in Nat /\ UNCHANGED <<events, usage>> /\ events # <<>>
  BY DEF Rebuild, session, Stored, Whole
<1>2. \A d \in cursor' : ~d.frozen
  BY DEF Whole
<1>3. CASE Rederived(events, now)
  BY <1>1, <1>3, DerivedIs
<1>4. CASE cursor # {} /\ \A d \in cursor' : d.frozen
  BY <1>2, <1>4, RebuiltIs DEF MarksFollow
<1>. QED  BY <1>1, <1>3, <1>4, RebuiltIs

(* What a trim leaves is no whole session.                                 *)
LEMMA TrimBeheads ==
  ASSUME Stored, Watermarked, Anchored, MarksFollow, NEW n \in 1 .. Len(events),
         events' = SubSeq(events, n + 1, Len(events)), SEQ' = SEQ, Anchored', cursor' # {}
  PROVE  ~Whole'
<1>. SUFFICES ASSUME events' # <<>> PROVE Beheaded(events)'
  BY DEF Whole
<1>1. PICK d \in cursor' : TRUE
  OBVIOUS
<1>2. /\ events' \in Seq(Event) /\ 1 \in DOMAIN events' /\ Head(events') = events'[1]
  <2>1. events' \in Seq(Event) /\ InOrder(events')
    BY TrimmedIs DEF Stored
  <2>. QED  BY <2>1, EndsOf
<1>3. d.anchor < events'[1].seq
  BY <1>2, AnchorBelow
<1>4. d.anchor \in 1 .. SEQ /\ SEQ \in Nat /\ events'[1].seq \in Nat
  <2>1. events'[1] \in Event
    BY <1>2
  <2>. QED  BY <2>1 DEF Anchored, Stored, Event
<1>5. d.anchor > 0 /\ Head(events').seq > d.anchor
  BY <1>2, <1>3, <1>4
<1>. QED  BY <1>5 DEF Beheaded

(* How a session comes to be caught up: its turns have just been derived,  *)
(* or it was so before.                                                    *)
LEMMA CaughtUpFollows ==
  ASSUME Stored, Told, Watermarked, Anchored, [Next]_vars, ~reseeded', CaughtUp'
  PROVE  \/ JustDerived
         \/ CaughtUp /\ UNCHANGED <<events, usage, turns>> /\ now' \in {now, now + 1}
<1>1. Stored' /\ Anchored' /\ MarksFollow /\ ~missed' /\ Whole' /\ cursor' # {}
  BY StoredStep, AnchoredStep, MarksStep DEF CaughtUp
<1>2. \A d \in cursor' : d.through >= MaxSeq(events') /\ d.epoch >= Epoch'
  BY DEF CaughtUp
<1>3. CASE ReceiveAny
  <2>1. PICK r \in Event :
          /\ r.seq = SEQ + 1 /\ r.at = now /\ events' = Append(events, r) /\ UNCHANGED tables
    BY <1>3, ReceivedIs
  <2>2. PICK c \in cursor : c.through \in Nat /\ c.through >= MaxSeq(events')
    BY <1>1, <1>2, <2>1 DEF tables, Watermarked, Mark
  <2>3. MaxSeq(events') = SEQ + 1
    <3>1. \A i \in DOMAIN events : events[i].seq < r.seq /\ events[i].at <= r.at
      BY <2>1, EventsAre DEF Stored
    <3>2. events' # <<>> /\ Last(events') = r
      BY <2>1, <3>1, AppendedIs DEF Stored
    <3>. QED  BY <2>1, <3>2 DEF MaxSeq
  <2>4. c.through <= SEQ /\ SEQ \in Nat
    BY <2>2 DEF Anchored, Stored
  <2>. QED  BY <2>2, <2>3, <2>4
<1>4. CASE UsageArrives
  <2>1. cursor' = cursor
    BY <1>4 DEF UsageArrives, tables
  <2>2. PICK c \in cursor : c.epoch \in Nat /\ c.epoch >= Epoch' /\ c.epoch <= Epoch
    BY <1>1, <1>2, <2>1 DEF Watermarked, Mark
  <2>3. Epoch' = Epoch + 1
    <3>. DEFINE u == [id |-> Epoch + 1, emitted |-> SetToSeq(made), follows |-> <<>>,
                      ts |-> now, sidechain |-> FALSE]
    <3>1. usage' = usage \cup {u} /\ u.id = Epoch + 1
      BY <1>4 DEF UsageArrives
    <3>. HIDE DEF u
    <3>2. u \notin usage
      BY <3>1, EpochIs DEF Watermarked
    <3>. QED  BY <3>1, <3>2, FS_AddElement DEF Watermarked, Epoch
  <2>. QED  BY <2>2, <2>3, EpochIs
<1>5. CASE Tick
  BY <1>1, <1>5, TickFollows
<1>6. ASSUME NEW n \in 1 .. MaxEvents, Retention(n) PROVE FALSE
  <2>1. /\ n \in 1 .. Len(events) /\ events' = SubSeq(events, n + 1, Len(events)) /\ SEQ' = SEQ
    BY <1>6 DEF Retention
  <2>. QED  BY <1>1, <2>1, TrimBeheads
<1>7. CASE Rebuild
  BY <1>1, <1>7, RebuildFollows
<1>8. CASE UNCHANGED <<now, missed, events, usage, turns, cursor>>
  <2>1. CaughtUp
    BY <1>8 DEF CaughtUp, Whole, Beheaded, Idle, Epoch
  <2>. QED  BY <1>8, <2>1
<1>9. Restart \/ UNCHANGED vars => UNCHANGED <<now, missed, events, usage, turns, cursor>>
  BY DEF Restart, vars, session, tables, history
<1>. QED  BY <1>3, <1>4, <1>5, <1>6, <1>7, <1>8, <1>9 DEF Next

(* And how a sweep that has seen the tables as they are comes about.       *)
LEMMA FreshFollows ==
  ASSUME Stored, Told, Watermarked, [Next]_vars, fresh', ~missed', Whole'
  PROVE  \/ JustDerived
         \/ CaughtUp /\ UNCHANGED <<events, usage, turns>> /\ now' = now + 1
         \/ fresh /\ ~missed /\ Whole /\ UNCHANGED <<events, usage, turns, now>>
<1>1. CASE ReceiveAny
  BY <1>1, ReceivedIs
<1>2. CASE UsageArrives
  BY <1>2 DEF UsageArrives
<1>3. CASE Tick
  BY <1>3, TickFollows
<1>4. ASSUME NEW n \in 1 .. MaxEvents, Retention(n) PROVE FALSE
  BY <1>4 DEF Retention
<1>5. CASE Rebuild
  BY <1>5, RebuildFollows
<1>6. CASE UNCHANGED <<now, fresh, missed, events, usage, turns, cursor>>
  BY <1>6 DEF Whole, Beheaded
<1>7. Restart \/ UNCHANGED vars => UNCHANGED <<now, fresh, missed, events, usage, turns, cursor>>
  BY DEF Restart, vars, session, tables, history
<1>. QED  BY <1>1, <1>2, <1>3, <1>4, <1>5, <1>6, <1>7 DEF Next

(* A row is keyed by the seq of its turn.                                   *)
LEMMA RowSeq ==
  ASSUME NEW all, NEW i, NEW uses
  PROVE  TurnRow(all, i, uses).turn_seq = all[i].turn_seq
  BY DEF TurnRow

(* Turns just derived are those of the drill-down.                         *)
LEMMA DerivedMatch ==
  ASSUME JustDerived
  PROVE  SettledHaveRows' /\ MatchesDrillDown'
<1>. DEFINE all     == BuildTurns(events', now')
            derived == SettledRows(events', all, now')
<1>1. /\ turns' = Reconciled(derived, all) /\ usage' = usage
  BY DEF JustDerived
<1>2. derived \subseteq turns'
  BY <1>1 DEF Reconciled
<1>3. SettledRows(events', all, now') = {TurnRow(all, i, usage) : i \in Settled(events', all, now')}
  BY DEF SettledRows
<1>4. \A r \in derived : \E i \in DOMAIN all : r.turn_seq = all[i].turn_seq
  <2>. HIDE DEF all
  <2>1. Settled(events', all, now') \subseteq DOMAIN all
    BY DEF Settled
  <2>. QED  BY <1>3, <2>1, RowSeq
<1>5. \A i \in Settled(events', all, now') : \E r \in derived : r.turn_seq = all[i].turn_seq
  <2>. HIDE DEF all
  <2>. QED  BY <1>3, RowSeq
<1>6. \A r \in turns' : \E i \in DOMAIN all : r.turn_seq = all[i].turn_seq
  BY <1>1, <1>4 DEF Reconciled
<1>7. {r.turn_seq : r \in turns'} \subseteq {t.turn_seq : t \in ToSet(all)}
  BY <1>6 DEF ToSet
<1>8. SettledRows(events', all, now') = (SettledRows(events, BuildTurns(events, now), now))'
  BY <1>1, <1>3 DEF SettledRows
<1>. QED  BY <1>2, <1>5, <1>7, <1>8 DEF SettledHaveRows, MatchesDrillDown

(* While the clock goes on, the settled turns of such a session have their *)
(* rows, and the rows say what they said.                                  *)
LEMMA RowsStep ==
  ASSUME Stored, Told, Watermarked, Anchored, CaughtUp => SettledHaveRows,
         [Next]_vars, ~reseeded', CaughtUp'
  PROVE  SettledHaveRows'
<1>1. CASE JustDerived
  BY <1>1, DerivedMatch
<1>2. CASE CaughtUp /\ UNCHANGED <<events, usage, turns>> /\ now' \in {now, now + 1}
  <2>1. /\ now \in Nat /\ now' \in Nat /\ now <= now'
        /\ events \in Seq(Event) /\ InOrder(events) /\ events # <<>> /\ Idle(events, now)
    BY <1>2 DEF Stored, CaughtUp, Whole
  <2>. DEFINE old == BuildTurns(events, now)
              new == BuildTurns(events, now')
  <2>2. /\ Settled(events, old, now) = Settled(events, new, now')
        /\ \A i \in Settled(events, old, now) : old[i].turn_seq = new[i].turn_seq
    BY <2>1, SettledAged
  <2>3. \A i \in Settled(events, old, now) : \E r \in turns : r.turn_seq = old[i].turn_seq
    BY <1>2 DEF SettledHaveRows
  <2>4. SettledHaveRows' = \A i \in Settled(events, new, now') :
                             \E r \in turns : r.turn_seq = new[i].turn_seq
    BY <1>2 DEF SettledHaveRows
  <2>. HIDE DEF old, new
  <2>. QED  BY <2>2, <2>3, <2>4
<1>. QED  BY <1>1, <1>2, CaughtUpFollows

(* Rows that match the drill-down still match it a moment later: a caught   *)
(* up session is silent for two orphan cutoffs, which is longer than the    *)
(* active window (RecheckAssumption).                                       *)
LEMMA MatchAged ==
  ASSUME Stored, CaughtUp, MatchesDrillDown, UNCHANGED <<events, usage, turns>>,
         now' \in {now, now + 1}
  PROVE  MatchesDrillDown'
<1>1. /\ now \in Nat /\ now' \in Nat /\ now <= now'
      /\ events \in Seq(Event) /\ InOrder(events) /\ events # <<>> /\ Idle(events, now)
  BY DEF Stored, CaughtUp, Whole
<1>2. now - Last(events).at >= ActiveMs
  <2>1. OrphanMs \in Nat /\ ActiveMs \in Nat /\ ActiveMs < 2 * OrphanMs
    BY TurnsAssumption, RecheckAssumption
  <2>2. now - Last(events).at >= 2 * OrphanMs - 1 /\ Last(events).at \in Nat
    BY <1>1, EndsOf DEF CaughtUp, Event
  <2>. QED  BY <1>1, <2>1, <2>2
<1>. DEFINE old == BuildTurns(events, now)
            new == BuildTurns(events, now')
<1>3. old = new /\ Settled(events, old, now) = Settled(events, new, now')
  BY <1>1, <1>2, TurnsAged, SettledAged
<1>4. /\ SettledRows(events, old, now) \subseteq turns
      /\ {r.turn_seq : r \in turns} \subseteq {t.turn_seq : t \in ToSet(old)}
  BY DEF MatchesDrillDown
<1>. DEFINE Rows(all, at) == {TurnRow(all, i, usage) : i \in Settled(events, all, at)}
<1>5. SettledRows(events, old, now) = Rows(old, now)
  BY DEF SettledRows
<1>6. /\ Rows(new, now') \subseteq turns'
      /\ {r.turn_seq : r \in turns'} \subseteq {t.turn_seq : t \in ToSet(new)}
  <2>. HIDE DEF old, new
  <2>. QED  BY <1>3, <1>4, <1>5
<1>. QED  BY <1>6 DEF MatchesDrillDown, SettledRows

(* A trim after a sweep leaves no settled turn without its row.            *)
LEMMA HolesStep ==
  ASSUME Stored, Watermarked, CaughtUp => SettledHaveRows, holes = {}, [Next]_vars
  PROVE  holes' = {}
<1>1. ASSUME NEW n \in 1 .. MaxEvents, Retention(n),
             ~missed', ~Beheaded(events), \A c \in cursor : ~c.frozen,
             NEW s \in Derived(events, now)
      PROVE  \E r \in turns' : r.turn_seq = s.turn_seq
  <2>. DEFINE all == BuildTurns(events, now)
  <2>1. /\ Sweep(events, now) /\ missed' = missed /\ now' = now /\ now \in Nat
        /\ events # <<>>
    BY <1>1 DEF Retention, SweepFirst, NoSweep, Stored
  <2>2. Whole /\ ~missed
    BY <1>1, <2>1 DEF Whole
  <2>3. PICK i \in Settled(events, all, now) : s.turn_seq = all[i].turn_seq
    BY RowSeq DEF Derived, SettledRows
  <2>4. CASE ~Candidate(events, now) /\ turns' = turns
    <3>1. CaughtUp
      BY <2>1, <2>2, <2>4, NotCandidate
    <3>. QED  BY <2>3, <2>4, <3>1 DEF SettledHaveRows
  <2>5. CASE Rederived(events, now)
    BY <2>5 DEF Rederived, Reconciled, Derived
  <2>. QED  BY <1>1, <2>1, <2>4, <2>5 DEF Sweep
<1>2. ASSUME NEW n \in 1 .. MaxEvents, Retention(n) PROVE holes' = {}
  <2>1. CASE missed' \/ Beheaded(events) \/ \E c \in cursor : c.frozen
    BY <1>2, <2>1 DEF Retention
  <2>2. CASE ~(missed' \/ Beheaded(events) \/ \E c \in cursor : c.frozen)
    <3>1. \A seq \in {r.turn_seq : r \in Derived(events, now)} :
            ~(\A r \in turns' : r.turn_seq # seq)
      BY <1>1, <1>2, <2>2
    <3>. QED  BY <1>2, <2>2, <3>1 DEF Retention
  <2>. QED  BY <2>1, <2>2
<1>3. ReceiveAny \/ (\E n \in 1 .. MaxEvents : Retention(n)) \/ UNCHANGED holes
  BY DEF Next, UsageArrives, Tick, Rebuild, Restart, vars, history
<1>. QED  BY <1>2, <1>3, ReceivedIs

-----------------------------------------------------------------------------
(* All that concerns the seqs holds until SEQ starts over.                 *)
Seeded ==
  /\ Anchored /\ Headless /\ HistoryOutlivesEvents
  /\ CaughtUp => SettledHaveRows
  /\ holes = {}
IInv == Stored /\ Told /\ Watermarked /\ Pinned /\ (reseeded \/ Seeded)

(* The invariant holds at the start.                                        *)
LEMMA InvInit == Init => IInv
<1>. SUFFICES ASSUME Init PROVE IInv
  OBVIOUS
<1>1. Stored
  BY DEF Init, Stored, InOrder
<1>2. Watermarked
  BY FS_EmptySet DEF Init, Watermarked, Epoch
<1>3. Pinned
  BY NoPrompt DEF Init, Pinned
<1>4. Seeded
  BY DEF Init, Seeded, Anchored, Headless, HistoryOutlivesEvents, CaughtUp, Whole
<1>. QED  BY <1>1, <1>2, <1>3, <1>4 DEF Init, Told, IInv

(* And every step keeps it.                                                 *)
LEMMA InvStep == IInv /\ [Next]_vars => IInv'
<1>. SUFFICES ASSUME IInv, [Next]_vars PROVE IInv'
  OBVIOUS
<1>. USE DEF IInv
<1>1. Stored' /\ Told' /\ Watermarked' /\ Pinned'
  BY StoredStep, ToldStep, WatermarkedStep, PinnedStep
<1>2. ASSUME ~reseeded' PROVE Seeded'
  <2>1. Seeded
    BY <1>2, SeqGrows
  <2>2. Anchored' /\ Headless' /\ HistoryOutlivesEvents'
    BY <1>2, <2>1, AnchoredStep, HistoryStep DEF Seeded
  <2>3. CaughtUp' => SettledHaveRows'
    BY <1>2, <2>1, RowsStep DEF Seeded
  <2>4. holes' = {}
    BY <2>1, HolesStep DEF Seeded
  <2>. QED  BY <2>2, <2>3, <2>4 DEF Seeded
<1>. QED  BY <1>1, <1>2

(* server.mjs:521, 636-683: no row of a turn whose events are gone is ever *)
(* changed, and the label is the session's first prompt.                   *)
THEOREM HistoryKeptAlways == Spec => []HistoryKept
<1>1. IInv => HistoryKept
  BY DEF IInv, Seeded, Pinned, HistoryKept
<1>. QED  BY <1>1, InvInit, InvStep, PTL DEF Spec

(* server.mjs:667, "capture settled turns BEFORE their events are          *)
(* trimmed": no settled turn is trimmed without its row.                   *)
THEOREM NoHoleAlways == Spec => []NoHoleUnlessMissed
<1>1. IInv => NoHoleUnlessMissed
  BY DEF IInv, Seeded, NoHoleUnlessMissed
<1>. QED  BY <1>1, InvInit, InvStep, PTL DEF Spec

(* The rows themselves, until they are history.                            *)
InStep ==
  reseeded \/ /\ CaughtUp => MatchesDrillDown
              /\ fresh /\ ~missed /\ Whole => MatchesDrillDown

(* Every step keeps the rows in step with the drill-down.                   *)
LEMMA InStepStep ==
  ASSUME IInv, InStep, [Next]_vars
  PROVE  InStep'
<1>. USE DEF IInv
<1>. SUFFICES ASSUME ~reseeded'
              PROVE  /\ CaughtUp' => MatchesDrillDown'
                     /\ fresh' /\ ~missed' /\ Whole' => MatchesDrillDown'
  BY DEF InStep
<1>1. ~reseeded /\ Seeded
  BY SeqGrows
<1>2. ASSUME CaughtUp' PROVE MatchesDrillDown'
  <2>1. CASE JustDerived
    BY <2>1, DerivedMatch
  <2>2. CASE CaughtUp /\ UNCHANGED <<events, usage, turns>> /\ now' \in {now, now + 1}
    BY <1>1, <2>2, MatchAged DEF InStep
  <2>. QED  BY <1>1, <1>2, <2>1, <2>2, CaughtUpFollows DEF Seeded
<1>3. ASSUME fresh', ~missed', Whole' PROVE MatchesDrillDown'
  <2>1. CASE JustDerived
    BY <2>1, DerivedMatch
  <2>2. CASE CaughtUp /\ UNCHANGED <<events, usage, turns>> /\ now' = now + 1
    BY <1>1, <2>2, MatchAged DEF InStep
  <2>3. CASE fresh /\ ~missed /\ Whole /\ UNCHANGED <<events, usage, turns, now>>
    BY <1>1, <2>3 DEF InStep, MatchesDrillDown, SettledRows
  <2>. QED  BY <1>3, <2>1, <2>2, <2>3, FreshFollows
<1>. QED  BY <1>2, <1>3

(* The turns table is kept in step with what the drill-down derives, and a *)
(* session is left alone only when the clock has no more to say about it.  *)
THEOREM RowsMatchAlways == Spec => []RowsMatchDrillDown
<1>1. Init => InStep
  BY DEF Init, InStep, CaughtUp, Whole
<1>2. InStep => RowsMatchDrillDown
  BY DEF InStep, RowsMatchDrillDown
<1>. QED  BY <1>1, <1>2, InvInit, InvStep, InStepStep, PTL DEF Spec

-----------------------------------------------------------------------------
(* Each event later than the one before it.                                *)
Ascending(rows) == \A i, j \in DOMAIN rows : i < j => rows[i].seq < rows[j].seq

(* What the turns made of the events in S say of them.                     *)
Loops(rows, S, segs) ==
  /\ \A i \in DOMAIN segs :
       /\ ToSet(segs[i].events) \subseteq S /\ ToSet(segs[i].stops) \subseteq S
       /\ segs[i].turn_seq = 0 \/ \E r \in S : segs[i].turn_seq = r.seq
  /\ \A r \in S : \E i \in DOMAIN segs :
       Holds(segs, i, r) /\ \A j \in DOMAIN segs : Holds(segs, j, r) => j = i
  /\ \A i \in DOMAIN segs :
       ~segs[i].virtual /\ i + 1 \in DOMAIN segs
         /\ (\E e \in ToSet(segs[i].events) : Crosses(rows, e, segs[i + 1].turn_seq))
         => \E s \in ToSet(segs[i].stops) : s.seq < segs[i + 1].turn_seq
  /\ \A i \in DOMAIN segs : \A r \in ToSet(segs[i].events) :
       r.type = "UserPromptSubmit" => \E e \in ToSet(segs[i].events) : Crosses(rows, e, r.seq)

(* The turns after an event was put into turn i.                           *)
Grown(old, new, i, r) ==
  /\ DOMAIN new = DOMAIN old
  /\ \A j \in DOMAIN old :
       /\ new[j].turn_seq = old[j].turn_seq /\ new[j].virtual = old[j].virtual
       /\ ToSet(new[j].events) = ToSet(old[j].events) \cup (IF j = i THEN {r} ELSE {})
       /\ ToSet(old[j].stops) \subseteq ToSet(new[j].stops)
       /\ ToSet(new[j].stops) \subseteq ToSet(old[j].stops) \cup {r}

(* What is in a sequence with one more element.                            *)
LEMMA AppendSet ==
  ASSUME NEW T, NEW s \in Seq(T), NEW x
  PROVE  ToSet(Append(s, x)) = ToSet(s) \cup {x}
<1>. DEFINE n == Len(s)
            a == Append(s, x)
<1>1. n \in Nat /\ DOMAIN s = 1 .. n /\ DOMAIN a = 1 .. n + 1 /\ a[n + 1] = x
      /\ \A i \in 1 .. n : a[i] = s[i]
  OBVIOUS
<1>. HIDE DEF n, a
<1>2. \A i \in 1 .. n + 1 : i = n + 1 \/ i \in 1 .. n
  BY <1>1
<1>3. n + 1 \in 1 .. n + 1 /\ \A i \in 1 .. n : i \in 1 .. n + 1
  BY <1>1
<1>. QED  BY <1>1, <1>2, <1>3 DEF ToSet, a

(* Putting an event into a turn adds it to the events of that turn, and to *)
(* no other.                                                               *)
LEMMA PutGrown ==
  ASSUME NEW E, NEW segs \in Seq(Turn(E)), NEW i \in DOMAIN segs, NEW r \in E
  PROVE  Put(segs, i, r) \in Seq(Turn(E)) /\ Grown(segs, Put(segs, i, r), i, r)
<1>. DEFINE t    == segs[i]
            evs  == Append(t.events, r)
            sts  == IF r.type = "Stop" THEN Append(t.stops, r) ELSE t.stops
            more == [t EXCEPT !.events = evs, !.stops = sts]
            new  == Put(segs, i, r)
<1>1. t \in Turn(E)
  OBVIOUS
<1>. HIDE DEF t
<1>2. t.events \in Seq(E) /\ t.stops \in Seq(E)
  BY <1>1 DEF Turn, TurnOf
<1>3. evs \in Seq(E) /\ sts \in Seq(E)
  BY <1>2
<1>4. /\ ToSet(evs) = ToSet(t.events) \cup {r}
      /\ ToSet(t.stops) \subseteq ToSet(sts) /\ ToSet(sts) \subseteq ToSet(t.stops) \cup {r}
  BY <1>2, AppendSet
<1>5. new = [segs EXCEPT ![i] = more]
  BY <1>1 DEF Put, Turn, TurnOf, t
<1>. HIDE DEF evs, sts, new
<1>6. /\ more \in Turn(E) /\ more.events = evs /\ more.stops = sts
      /\ more.turn_seq = t.turn_seq /\ more.virtual = t.virtual
  BY <1>1, <1>3 DEF Turn, TurnOf
<1>. HIDE DEF more
<1>7. new \in Seq(Turn(E)) /\ DOMAIN new = DOMAIN segs
  BY <1>5, <1>6
<1>8. \A j \in DOMAIN segs : new[j] = IF j = i THEN more ELSE segs[j]
  BY <1>5
<1>9. ASSUME NEW j \in DOMAIN segs
      PROVE  /\ new[j].turn_seq = segs[j].turn_seq /\ new[j].virtual = segs[j].virtual
             /\ ToSet(new[j].events) = ToSet(segs[j].events) \cup (IF j = i THEN {r} ELSE {})
             /\ ToSet(segs[j].stops) \subseteq ToSet(new[j].stops)
             /\ ToSet(new[j].stops) \subseteq ToSet(segs[j].stops) \cup {r}
  <2>1. CASE j = i
    BY <1>4, <1>6, <1>8, <2>1 DEF t
  <2>2. CASE j # i
    BY <1>8, <2>2
  <2>. QED  BY <2>1, <2>2
<1>. QED  BY <1>7, <1>9 DEF Grown, new

(* An event that joins a turn keeps every loop a turn, unless it is a      *)
(* prompt that no call of the turn surrounds; and an event that is not a   *)
(* Stop joins the last turn.                                               *)
LEMMA LoopsGrown ==
  ASSUME NEW E, \A e \in E : e.seq \in Nat \ {0}, NEW S \in SUBSET E, NEW r \in E,
         \A s \in S : s.seq < r.seq,
         NEW rows, NEW segs \in Seq(Turn(E)), Loops(rows, S, segs),
         NEW i \in DOMAIN segs, NEW new, Grown(segs, new, i, r),
         r.type = "Stop" \/ i + 1 \notin DOMAIN segs,
         r.type = "UserPromptSubmit" => \E e \in ToSet(segs[i].events) : Crosses(rows, e, r.seq)
  PROVE  Loops(rows, S \cup {r}, new)
<1>. DEFINE In(all, j) == ToSet(all[j].events)
<1>1. \A j \in DOMAIN segs : segs[j].turn_seq # r.seq /\ r \notin In(segs, j)
  BY DEF Loops
<1>2. \A j \in DOMAIN new :
        /\ ToSet(new[j].events) \subseteq S \cup {r} /\ ToSet(new[j].stops) \subseteq S \cup {r}
        /\ new[j].turn_seq = 0 \/ \E s \in S \cup {r} : new[j].turn_seq = s.seq
  <2>. SUFFICES ASSUME NEW j \in DOMAIN new
                PROVE  /\ ToSet(new[j].events) \subseteq S \cup {r}
                       /\ ToSet(new[j].stops) \subseteq S \cup {r}
                       /\ new[j].turn_seq = 0 \/ \E s \in S \cup {r} : new[j].turn_seq = s.seq
    OBVIOUS
  <2>1. /\ j \in DOMAIN segs /\ new[j].turn_seq = segs[j].turn_seq
        /\ ToSet(new[j].events) \subseteq ToSet(segs[j].events) \cup {r}
        /\ ToSet(new[j].stops) \subseteq ToSet(segs[j].stops) \cup {r}
    BY DEF Grown
  <2>2. /\ ToSet(segs[j].events) \subseteq S /\ ToSet(segs[j].stops) \subseteq S
        /\ segs[j].turn_seq = 0 \/ \E s \in S : segs[j].turn_seq = s.seq
    BY <2>1 DEF Loops
  <2>. QED  BY <2>1, <2>2
<1>3. \A s \in S, j \in DOMAIN segs : Holds(new, j, s) <=> Holds(segs, j, s)
  <2>. SUFFICES ASSUME NEW s \in S, NEW j \in DOMAIN segs PROVE Holds(new, j, s) <=> Holds(segs, j, s)
    OBVIOUS
  <2>1. s # r
    OBVIOUS
  <2>2. new[j].turn_seq = segs[j].turn_seq
    BY DEF Grown
  <2>3. In(new, j) = In(segs, j) \cup (IF j = i THEN {r} ELSE {})
    BY DEF Grown
  <2>4. s \in In(new, j) <=> s \in In(segs, j)
    BY <2>1, <2>3
  <2>. QED  BY <2>2, <2>4 DEF Holds
<1>4. \A j \in DOMAIN segs : Holds(new, j, r) <=> j = i
  BY <1>1 DEF Holds, Grown
<1>5. \A s \in S \cup {r} : \E j \in DOMAIN new :
        Holds(new, j, s) /\ \A k \in DOMAIN new : Holds(new, k, s) => k = j
  BY <1>3, <1>4 DEF Loops, Grown
<1>6. ASSUME NEW j \in DOMAIN new, ~new[j].virtual, j + 1 \in DOMAIN new,
             NEW e \in In(new, j), Crosses(rows, e, new[j + 1].turn_seq)
      PROVE  \E s \in ToSet(new[j].stops) : s.seq < new[j + 1].turn_seq
  <2>1. j \in DOMAIN segs /\ j + 1 \in DOMAIN segs /\ ~segs[j].virtual
        /\ new[j + 1].turn_seq = segs[j + 1].turn_seq
    BY <1>6 DEF Grown
  <2>2. e \in In(segs, j)
    BY <1>6, <2>1 DEF Grown, Crosses
  <2>. QED  BY <1>6, <2>1, <2>2 DEF Loops, Grown
<1>7. ASSUME NEW j \in DOMAIN new, NEW s \in In(new, j), s.type = "UserPromptSubmit"
      PROVE  \E e \in In(new, j) : Crosses(rows, e, s.seq)
  BY <1>7 DEF Loops, Grown
<1>. QED  BY <1>2, <1>5, <1>6, <1>7 DEF Loops

(* So does a prompt that opens one: it was not queued, so no call made in  *)
(* the turn before it is answered later, unless a Stop came first.         *)
LEMMA LoopsOpened ==
  ASSUME NEW E, \A e \in E : e.seq \in Nat \ {0}, NEW S \in SUBSET E, NEW r \in E,
         \A s \in S : s.seq < r.seq,
         NEW rows, NEW segs \in Seq(Turn(E)), Loops(rows, S, segs),
         segs # <<>> => ~Queued(rows, Last(segs), r)
  PROVE  /\ Append(segs, Opened(r, FALSE)) \in Seq(Turn(E))
         /\ Loops(rows, S \cup {r}, Append(segs, Opened(r, FALSE)))
<1>. DEFINE n    == Len(segs)
            t    == Opened(r, FALSE)
            new  == Append(segs, t)
<1>1. /\ t \in Turn(E) /\ t.turn_seq = r.seq /\ ToSet(t.events) = {} /\ ToSet(t.stops) = {}
  BY DEF Opened, Turn, TurnOf, ToSet
<1>. HIDE DEF t
<1>2. /\ n \in Nat /\ DOMAIN segs = 1 .. n /\ new \in Seq(Turn(E))
      /\ DOMAIN new = 1 .. n + 1 /\ new[n + 1] = t /\ \A j \in 1 .. n : new[j] = segs[j]
      /\ n > 0 => segs # <<>> /\ Last(segs) = segs[n] /\ segs[n] \in Turn(E)
  <2>1. n \in Nat /\ DOMAIN segs = 1 .. n /\ new \in Seq(Turn(E)) /\ Len(new) = n + 1
    BY <1>1
  <2>2. new[n + 1] = t /\ \A j \in 1 .. n : new[j] = segs[j]
    BY <1>1
  <2>3. n > 0 => segs # <<>> /\ Last(segs) = segs[n] /\ segs[n] \in Turn(E)
    BY DEF Last
  <2>. QED  BY <2>1, <2>2, <2>3
<1>. HIDE DEF n, new
<1>3. \A j \in 1 .. n + 1 : j = n + 1 \/ j \in 1 .. n
  BY <1>2
<1>4. ASSUME NEW j \in 1 .. n PROVE segs[j].turn_seq # r.seq /\ r \notin ToSet(segs[j].events)
  <2>1. /\ ToSet(segs[j].events) \subseteq S
        /\ segs[j].turn_seq = 0 \/ \E s \in S : segs[j].turn_seq = s.seq
    BY <1>2 DEF Loops
  <2>2. r.seq \in Nat \ {0} /\ \A s \in S : s.seq \in Nat /\ s.seq < r.seq
    OBVIOUS
  <2>. QED  BY <2>1, <2>2
<1>5. \A j \in DOMAIN new :
        /\ ToSet(new[j].events) \subseteq S \cup {r} /\ ToSet(new[j].stops) \subseteq S \cup {r}
        /\ new[j].turn_seq = 0 \/ \E s \in S \cup {r} : new[j].turn_seq = s.seq
  BY <1>1, <1>2, <1>3 DEF Loops
<1>6. \A s \in S \cup {r} : \E j \in DOMAIN new :
        Holds(new, j, s) /\ \A k \in DOMAIN new : Holds(new, k, s) => k = j
  <2>1. Holds(new, n + 1, r) /\ \A j \in 1 .. n : ~Holds(new, j, r)
    BY <1>1, <1>2, <1>4 DEF Holds
  <2>2. ASSUME NEW s \in S
        PROVE  ~Holds(new, n + 1, s) /\ \A j \in 1 .. n : Holds(new, j, s) <=> Holds(segs, j, s)
    BY <1>1, <1>2 DEF Holds
  <2>3. n + 1 \in 1 .. n + 1 /\ 1 .. n \subseteq 1 .. n + 1
    BY <1>2
  <2>4. \A s \in S : \E j \in 1 .. n : Holds(segs, j, s) /\ \A k \in 1 .. n : Holds(segs, k, s) => k = j
    BY <1>2 DEF Loops
  <2>5. ASSUME NEW s \in S
        PROVE  \E j \in 1 .. n + 1 : Holds(new, j, s) /\ \A k \in 1 .. n + 1 : Holds(new, k, s) => k = j
    <3>1. PICK j \in 1 .. n : Holds(segs, j, s) /\ \A k \in 1 .. n : Holds(segs, k, s) => k = j
      BY <2>4
    <3>2. Holds(new, j, s) /\ j \in 1 .. n + 1
      BY <2>2, <2>3, <3>1
    <3>3. \A k \in 1 .. n + 1 : Holds(new, k, s) => k = j
      BY <1>3, <2>2, <3>1
    <3>. QED  BY <3>2, <3>3
  <2>6. Holds(new, n + 1, r) /\ \A k \in 1 .. n + 1 : Holds(new, k, r) => k = n + 1
    BY <1>3, <2>1
  <2>7. DOMAIN new = 1 .. n + 1
    BY <1>2
  <2>. HIDE DEF new, n
  <2>. QED  BY <2>3, <2>5, <2>6, <2>7
<1>7. ASSUME NEW j \in DOMAIN new, ~new[j].virtual, j + 1 \in DOMAIN new,
             NEW e \in ToSet(new[j].events), Crosses(rows, e, new[j + 1].turn_seq)
      PROVE  \E s \in ToSet(new[j].stops) : s.seq < new[j + 1].turn_seq
  <2>1. j \in 1 .. n
    BY <1>2, <1>3, <1>7
  <2>2. CASE j + 1 \in 1 .. n
    BY <1>2, <1>7, <2>1, <2>2 DEF Loops
  <2>3. CASE j = n
    <3>1. Last(segs) = segs[n] /\ new[j] = segs[n] /\ segs # <<>> /\ new[j + 1].turn_seq = r.seq
      BY <1>1, <1>2, <2>1, <2>3
    <3>2. segs[n].stops # <<>>
      BY <1>7, <3>1 DEF Queued, Crosses
    <3>3. segs[n].stops \in Seq(E)
      BY <1>2, <2>1, <2>3 DEF Turn, TurnOf
    <3>4. segs[n].stops[1] \in ToSet(segs[n].stops)
      BY <3>2, <3>3 DEF ToSet
    <3>5. segs[n].stops[1] \in S
      BY <1>2, <2>1, <2>3, <3>4 DEF Loops
    <3>. QED  BY <3>1, <3>4, <3>5
  <2>. QED  BY <1>2, <1>3, <1>7, <2>1, <2>2, <2>3
<1>8. ASSUME NEW j \in DOMAIN new, NEW s \in ToSet(new[j].events), s.type = "UserPromptSubmit"
      PROVE  \E e \in ToSet(new[j].events) : Crosses(rows, e, s.seq)
  BY <1>1, <1>2, <1>3, <1>8 DEF Loops
<1>9. Loops(rows, S \cup {r}, new)
  BY <1>5, <1>6, <1>7, <1>8 DEF Loops
<1>. QED  BY <1>2, <1>9 DEF new, t

(* Counting a queued prompt changes nothing else of a turn.                *)
LEMMA OneQueued ==
  ASSUME NEW E, NEW t \in Turn(E)
  PROVE  LET more == [t EXCEPT !.queued = @ + 1]
         IN /\ more \in Turn(E) /\ more.events = t.events /\ more.stops = t.stops
            /\ more.turn_seq = t.turn_seq /\ more.virtual = t.virtual
<1>. DEFINE T == TurnOf(E, {0} \cup {r.seq : r \in E}, {r.at : r \in E})
            more == [t EXCEPT !.queued = @ + 1]
<1>1. t \in T /\ more \in T
  BY MoreQueued DEF Turn
<1>2. /\ more.events = t.events /\ more.stops = t.stops
      /\ more.turn_seq = t.turn_seq /\ more.virtual = t.virtual
  BY <1>1 DEF TurnOf
<1>. HIDE DEF more
<1>. QED  BY <1>1, <1>2 DEF Turn, more

(* Wherever the fold has got to, the turns are loops.                      *)
LEMMA PlaceLoops ==
  ASSUME NEW E, \A e \in E : e.seq \in Nat \ {0}, NEW S \in SUBSET E, NEW r \in E,
         \A s \in S : s.seq < r.seq,
         NEW rows, NEW segs \in Seq(Turn(E)), Loops(rows, S, segs)
  PROVE  /\ Place(rows, segs, r) \in Seq(Turn(E))
         /\ Loops(rows, S \cup {r}, Place(rows, segs, r))
<1>. DEFINE n == Len(segs)
<1>0. /\ n \in Nat /\ DOMAIN segs = 1 .. n /\ n + 1 \notin DOMAIN segs /\ (n > 0 => n \in DOMAIN segs)
      /\ n > 0 <=> segs # <<>>
      /\ Last(segs) = segs[n]
  BY DEF Last
<1>1. CASE r.type = "UserPromptSubmit" /\ n > 0 /\ Queued(rows, Last(segs), r)
  <2>. DEFINE put == Put(segs, n, r)
              new == Place(rows, segs, r)
  <2>1. put \in Seq(Turn(E)) /\ Grown(segs, put, n, r) /\ n \in DOMAIN put
    <3>. HIDE DEF n
    <3>1. n \in DOMAIN segs
      BY <1>0, <1>1
    <3>2. put \in Seq(Turn(E)) /\ Grown(segs, put, n, r)
      BY <3>1, PutGrown
    <3>. HIDE DEF put
    <3>. QED  BY <3>1, <3>2 DEF Grown
  <2>2. new = [put EXCEPT ![n].queued = @ + 1]
    BY <1>1 DEF Place
  <2>3. \E e \in ToSet(segs[n].events) : Crosses(rows, e, r.seq)
    <3>1. PICK e \in ToSet(segs[n].events) :
            e.type = "PreToolUse" /\ \E p \in PostOf(rows, e.id) : p.seq > r.seq
      BY <1>0, <1>1 DEF Queued
    <3>2. e \in S
      BY <1>0, <1>1 DEF Loops
    <3>. QED  BY <3>1, <3>2 DEF Crosses
  <2>. HIDE DEF put, new
  <2>4. put[n] \in Turn(E)
    BY <2>1
  <2>. DEFINE t == [put[n] EXCEPT !.queued = @ + 1]
  <2>5. /\ t \in Turn(E) /\ t.events = put[n].events /\ t.stops = put[n].stops
        /\ t.turn_seq = put[n].turn_seq /\ t.virtual = put[n].virtual
    BY <2>4, OneQueued
  <2>6. new = [put EXCEPT ![n] = t]
    BY <2>2
  <2>. HIDE DEF t
  <2>7. /\ new \in Seq(Turn(E)) /\ DOMAIN new = DOMAIN put
        /\ \A j \in DOMAIN put : new[j] = IF j = n THEN t ELSE put[j]
    BY <2>1, <2>5, <2>6
  <2>8. \A j \in DOMAIN put : /\ new[j].events = put[j].events /\ new[j].stops = put[j].stops
                              /\ new[j].turn_seq = put[j].turn_seq /\ new[j].virtual = put[j].virtual
    BY <2>5, <2>7
  <2>9. Grown(segs, new, n, r)
    BY <2>1, <2>7, <2>8 DEF Grown
  <2>. QED  BY <1>0, <1>1, <2>3, <2>7, <2>9, LoopsGrown DEF new
<1>2. CASE r.type = "UserPromptSubmit" /\ ~(n > 0 /\ Queued(rows, Last(segs), r))
  <2>1. Place(rows, segs, r) = Append(segs, Opened(r, FALSE))
    BY <1>2, Zenon DEF Place
  <2>2. segs # <<>> => ~Queued(rows, Last(segs), r)
    BY <1>0, <1>2
  <2>. DEFINE opened == Append(segs, Opened(r, FALSE))
  <2>3. opened \in Seq(Turn(E)) /\ Loops(rows, S \cup {r}, opened)
    BY <2>2, LoopsOpened, Zenon
  <2>. QED  BY <2>1, <2>3
<1>3. CASE r.type # "UserPromptSubmit" /\ n = 0
  <2>. DEFINE one == <<Opened(r, TRUE)>>
  <2>1. Place(rows, segs, r) = Put(one, 1, r)
    BY <1>3 DEF Place
  <2>2. /\ one \in Seq(Turn(E)) /\ DOMAIN one = {1} /\ one[1].turn_seq = 0 /\ one[1].virtual
        /\ ToSet(one[1].events) = {} /\ ToSet(one[1].stops) = {}
    BY DEF Opened, Turn, TurnOf, ToSet
  <2>. HIDE DEF one
  <2>3. S = {}
    BY <1>0, <1>3 DEF Loops
  <2>4. Loops(rows, S, one)
    BY <2>2, <2>3 DEF Loops
  <2>5. Put(one, 1, r) \in Seq(Turn(E)) /\ Grown(one, Put(one, 1, r), 1, r)
    BY <2>2, PutGrown
  <2>6. 1 \in DOMAIN one /\ 1 + 1 \notin DOMAIN one
    BY <2>2
  <2>. QED  BY <1>3, <2>1, <2>2, <2>4, <2>5, <2>6, LoopsGrown
<1>4. CASE r.type # "UserPromptSubmit" /\ n # 0 /\ Raced(segs, r)
  <2>1. Place(rows, segs, r) = Put(segs, n - 1, r) /\ r.type = "Stop" /\ n - 1 \in DOMAIN segs
    BY <1>0, <1>4 DEF Place, Raced
  <2>2. Put(segs, n - 1, r) \in Seq(Turn(E)) /\ Grown(segs, Put(segs, n - 1, r), n - 1, r)
    BY <2>1, PutGrown
  <2>. QED  BY <2>1, <2>2, LoopsGrown
<1>5. CASE r.type # "UserPromptSubmit" /\ n # 0 /\ ~Raced(segs, r)
  <2>1. Place(rows, segs, r) = Put(segs, n, r) /\ n \in DOMAIN segs
    BY <1>0, <1>5 DEF Place
  <2>2. Put(segs, n, r) \in Seq(Turn(E)) /\ Grown(segs, Put(segs, n, r), n, r)
    BY <2>1, PutGrown
  <2>. QED  BY <1>0, <1>5, <2>1, <2>2, LoopsGrown
<1>. QED  BY <1>1, <1>2, <1>3, <1>4, <1>5

(* So they are when the fold has seen the whole session.                   *)
LEMMA SegmentsLoops ==
  ASSUME NEW E, \A e \in E : e.seq \in Nat \ {0}, NEW rows \in Seq(E), Ascending(rows)
  PROVE  Segments(rows) \in Seq(Turn(E)) /\ Loops(rows, ToSet(rows), Segments(rows))
<1>. DEFINE base   == [rows |-> rows, turns |-> <<>>]
            At(u)  == Placed!Value(base, u)
            Sound(u) == /\ At(u).rows = rows /\ At(u).turns \in Seq(Turn(E))
                        /\ At(u) = [rows |-> rows, turns |-> At(u).turns]
                        /\ Loops(rows, ToSet(u), At(u).turns)
            T      == {u \in Seq(E) : Ascending(u) => Sound(u)}
<1>1. <<>> \in T
  <2>1. At(<<>>) = base
    BY Placed!ValueEmpty
  <2>2. ToSet(<<>>) = {}
    BY DEF ToSet
  <2>. HIDE DEF At
  <2>3. At(<<>>).rows = rows /\ At(<<>>).turns = <<>>
    BY <2>1
  <2>4. Loops(rows, {}, <<>>)
    BY DEF Loops
  <2>5. <<>> \in Seq(Turn(E)) /\ <<>> \in Seq(E)
    OBVIOUS
  <2>6. At(<<>>) = [rows |-> rows, turns |-> At(<<>>).turns]
    BY <2>1, <2>3
  <2>7. Sound(<<>>)
    BY <2>2, <2>3, <2>4, <2>5, <2>6
  <2>. HIDE DEF Sound
  <2>. QED  BY <2>5, <2>7
<1>2. ASSUME NEW u \in T \cap Seq(E), NEW r \in E PROVE Append(u, r) \in T
  <2>. SUFFICES ASSUME Ascending(Append(u, r)) PROVE Append(u, r) \in Seq(E) /\ Sound(Append(u, r))
    OBVIOUS
  <2>. DEFINE n == Len(u)
              a == Append(u, r)
  <2>1. /\ n \in Nat /\ DOMAIN u = 1 .. n /\ DOMAIN a = 1 .. n + 1 /\ a[n + 1] = r /\ a \in Seq(E)
        /\ \A i \in 1 .. n : a[i] = u[i]
    OBVIOUS
  <2>2. Ascending(u) /\ \A i \in 1 .. n : u[i].seq < r.seq
    <3>. HIDE DEF a, n
    <3>1. \A i \in 1 .. n : i \in 1 .. n + 1 /\ n + 1 \in 1 .. n + 1 /\ i < n + 1
      BY <2>1
    <3>2. \A i, j \in 1 .. n + 1 : i < j => a[i].seq < a[j].seq
      BY <2>1 DEF Ascending, a
    <3>. QED  BY <2>1, <3>1, <3>2 DEF Ascending
  <2>3. ToSet(u) \in SUBSET E /\ \A s \in ToSet(u) : s.seq < r.seq
    BY <2>1, <2>2 DEF ToSet
  <2>4. Sound(u)
    BY <2>2
  <2>. DEFINE old == At(u).turns
  <2>5. At(a) = PlaceNext(At(u), r)
    BY Placed!ValueAppend
  <2>. HIDE DEF At
  <2>6. /\ old \in Seq(Turn(E)) /\ Loops(rows, ToSet(u), old)
        /\ At(u) = [rows |-> rows, turns |-> old]
    BY <2>4
  <2>7. At(a) = [rows |-> rows, turns |-> Place(rows, old, r)]
    <3>. HIDE DEF old
    <3>. QED  BY <2>5, <2>6 DEF PlaceNext
  <2>8. ToSet(a) = ToSet(u) \cup {r}
    BY AppendSet
  <2>9. Place(rows, old, r) \in Seq(Turn(E)) /\ Loops(rows, ToSet(a), Place(rows, old, r))
    <3>. DEFINE S == ToSet(u)
    <3>1. S \in SUBSET E /\ (\A s \in S : s.seq < r.seq) /\ Loops(rows, S, old)
      BY <2>3, <2>6
    <3>. HIDE DEF old, a, S
    <3>2. Place(rows, old, r) \in Seq(Turn(E)) /\ Loops(rows, S \cup {r}, Place(rows, old, r))
      BY <2>6, <3>1, PlaceLoops, Zenon
    <3>. QED  BY <2>8, <3>2 DEF S
  <2>. HIDE DEF old, a
  <2>10. Sound(a)
    BY <2>7, <2>9
  <2>. QED  BY <2>1, <2>10 DEF a
<1>3. rows \in T
  <2>. HIDE DEF T
  <2>1. Seq(E) \subseteq T
    BY <1>1, <1>2, Placed!SequenceInduction
  <2>. QED  BY <2>1
<1>4. Segments(rows) = At(rows).turns
  BY PlacedIs DEF Segments
<1>. HIDE DEF At
<1>. QED  BY <1>3, <1>4

(* However many events of whatever kind a session has, and however calls,  *)
(* prompts and Stops interleave: a loop that ran on past a prompt is one   *)
(* turn, and only such a loop is (buildTurns' queued merge).               *)
THEOREM LoopsAlwaysTurns ==
  ASSUME NEW E, \A e \in E : e.seq \in Nat \ {0}, NEW rows \in Seq(E), Ascending(rows)
  PROVE  LoopsAreTurns(rows)
<1>. DEFINE segs == Segments(rows)
            n == Len(segs)
<1>1. segs \in Seq(Turn(E)) /\ Loops(rows, ToSet(rows), segs)
  BY SegmentsLoops
<1>2. n \in Nat /\ DOMAIN segs = 1 .. n /\ \A i \in 1 .. n - 1 : i \in 1 .. n /\ i + 1 \in 1 .. n
  BY <1>1
<1>. HIDE DEF segs, n
<1>3. ASSUME NEW r \in ToSet(rows)
      PROVE  Cardinality({i \in DOMAIN segs : Holds(segs, i, r)}) = 1
  <2>1. PICK i \in DOMAIN segs : Holds(segs, i, r) /\ \A j \in DOMAIN segs : Holds(segs, j, r) => j = i
    BY <1>1 DEF Loops
  <2>2. {j \in DOMAIN segs : Holds(segs, j, r)} = {i}
    BY <2>1
  <2>. QED  BY <2>2, FS_Singleton
<1>. QED  BY <1>1, <1>2, <1>3 DEF Loops, LoopsAreTurns, segs, n

(* A sequence is a sequence of its own elements.                           *)
LEMMA SeqOfOwn ==
  ASSUME NEW E, NEW s \in Seq(E)
  PROVE  s \in Seq(ToSet(s))
<1>1. s \in [1 .. Len(s) -> ToSet(s)] /\ Len(s) \in Nat
  BY DEF ToSet
<1>. QED  BY <1>1

(* The calls of a turn are events of its own, and the first Pres of their  *)
(* ids in the session.                                                     *)
LEMMA CallPresAre ==
  ASSUME NEW E, NEW rows, NEW t, t.events \in Seq(E)
  PROVE  CallPres(rows, t) \in Seq({e \in ToSet(t.events) : IsCall(rows, e)})
<1>. DEFINE S    == ToSet(t.events)
            C    == {e \in S : IsCall(rows, e)}
            Acc  == [rows : {rows}, pres : Seq(C)]
            base == [rows |-> rows, pres |-> <<>>]
<1>0. t.events \in Seq(S)
  BY SeqOfOwn
<1>1. base \in Acc
  OBVIOUS
<1>2. ASSUME NEW v \in Acc, NEW e \in S PROVE TakeNext(v, e) \in Acc
  <2>. HIDE DEF S
  <2>1. v.pres \in Seq(C) /\ v.rows = rows
    OBVIOUS
  <2>2. CASE IsCall(rows, e)
    <3>1. e \in C
      BY <2>2
    <3>. HIDE DEF C
    <3>. QED  BY <2>1, <2>2, <3>1 DEF TakeNext
  <2>3. CASE ~IsCall(rows, e)
    BY <2>1, <2>3 DEF TakeNext
  <2>. QED  BY <2>2, <2>3
<1>3. Taken!Value(base, t.events) \in Acc
  <2>. HIDE DEF Acc, base, S
  <2>. QED  BY <1>0, <1>1, <1>2, Taken!ValueType
<1>4. CallPres(rows, t) = Taken!Value(base, t.events).pres
  BY TakenIs DEF CallPres
<1>. QED  BY <1>3, <1>4

(* An id has one first Pre at most.                                        *)
LEMMA PreOne ==
  ASSUME NEW E, \A e \in E : e.seq \in Nat \ {0}, NEW rows \in Seq(E), Ascending(rows),
         NEW id, NEW d \in PreOf(rows, id), NEW e \in PreOf(rows, id)
  PROVE  d = e /\ d \in ToSet(rows)
<1>1. /\ d \in ToSet(rows) /\ e \in ToSet(rows) /\ d.seq <= e.seq /\ e.seq <= d.seq
  BY DEF PreOf, Half, FirstOf
<1>2. PICK i \in DOMAIN rows, j \in DOMAIN rows : d = rows[i] /\ e = rows[j]
  BY <1>1 DEF ToSet
<1>3. rows[i] \in E /\ rows[j] \in E /\ i \in Nat /\ j \in Nat
  OBVIOUS
<1>4. ~(i < j) /\ ~(j < i)
  BY <1>1, <1>2, <1>3 DEF Ascending
<1>. QED  BY <1>1, <1>2, <1>3, <1>4

(* A call belongs to one turn.                                             *)
LEMMA CallInOne ==
  ASSUME NEW E, \A e \in E : e.seq \in Nat \ {0}, NEW rows \in Seq(E), Ascending(rows), NEW at,
         NEW i \in DOMAIN BuildTurns(rows, at), NEW j \in DOMAIN BuildTurns(rows, at),
         NEW c \in ToSet(BuildTurns(rows, at)[i].calls),
         NEW d \in ToSet(BuildTurns(rows, at)[j].calls), c.id = d.id
  PROVE  i = j
<1>. DEFINE segs == Segments(rows)
            all  == BuildTurns(rows, at)
<1>1. segs \in Seq(Turn(E)) /\ Loops(rows, ToSet(rows), segs)
  BY SegmentsLoops
<1>2. DOMAIN all = DOMAIN segs /\ \A k \in DOMAIN segs : all[k].calls = CallsOf(rows, segs[k], at)
  BY DEF BuildTurns, Built
<1>. HIDE DEF segs, all
<1>3. ASSUME NEW k \in DOMAIN segs, NEW x \in ToSet(CallsOf(rows, segs[k], at))
      PROVE  \E e \in ToSet(segs[k].events) : e \in PreOf(rows, x.id)
  <2>. DEFINE t == segs[k]
              pres == CallPres(rows, t)
  <2>1. t \in Turn(E)
    BY <1>1
  <2>2. t.events \in Seq(E)
    BY <2>1 DEF Turn, TurnOf
  <2>. HIDE DEF t
  <2>3. pres \in Seq({e \in ToSet(t.events) : IsCall(rows, e)})
    BY <2>2, CallPresAre
  <2>4. CallsOf(rows, t, at) = [n \in DOMAIN pres |-> CallOf(rows, t, at, pres[n])]
    BY DEF CallsOf
  <2>. HIDE DEF pres
  <2>5. PICK n \in DOMAIN pres : x = CallOf(rows, t, at, pres[n])
    BY <2>4 DEF ToSet, t
  <2>6. pres[n] \in ToSet(t.events) /\ IsCall(rows, pres[n])
    BY <2>3
  <2>7. x.id = pres[n].id
    BY <2>5 DEF CallOf
  <2>. QED  BY <2>6, <2>7 DEF IsCall, t
<1>4. c \in ToSet(CallsOf(rows, segs[i], at)) /\ d \in ToSet(CallsOf(rows, segs[j], at))
  BY <1>2 DEF all
<1>5. PICK e \in ToSet(segs[i].events) : e \in PreOf(rows, c.id)
  BY <1>2, <1>3, <1>4 DEF all
<1>6. PICK f \in ToSet(segs[j].events) : f \in PreOf(rows, d.id)
  BY <1>2, <1>3, <1>4 DEF all
<1>7. e = f /\ e \in ToSet(rows)
  BY <1>5, <1>6, PreOne
<1>8. Holds(segs, i, e) /\ Holds(segs, j, e)
  BY <1>7 DEF Holds
<1>. QED  BY <1>1, <1>2, <1>7, <1>8 DEF Loops, all

(* The turn of the first call that is found.                               *)
LEMMA FirstHit ==
  ASSUME NEW built, NEW X, NEW ids \in Seq(X),
         \A i, j \in DOMAIN built : \A c \in ToSet(built[i].calls), d \in ToSet(built[j].calls) :
           c.id = d.id => i = j
  PROVE  /\ \A i, j \in TurnsOf(built, ids) : i = j
         /\ \A i \in DOMAIN built : ids # <<>> /\ (\E c \in ToSet(built[i].calls) : c.id = ids[1])
              => TurnsOf(built, ids) = {i}
<1>. DEFINE Has(i, id) == \E c \in ToSet(built[i].calls) : c.id = id
            hits == {k \in DOMAIN ids : \E i \in DOMAIN built : Has(i, ids[k])}
<1>1. DOMAIN ids \subseteq Nat /\ \A k \in DOMAIN ids : 1 <= k
  OBVIOUS
<1>2. TurnsOf(built, ids)
        = {i \in DOMAIN built : \E k \in hits : Has(i, ids[k]) /\ \A h \in hits : k <= h}
  BY DEF TurnsOf
<1>3. \A i, j \in DOMAIN built : \A id : Has(i, id) /\ Has(j, id) => i = j
  OBVIOUS
<1>4. hits \subseteq DOMAIN ids /\ \A k \in DOMAIN ids, i \in DOMAIN built : Has(i, ids[k]) => k \in hits
  OBVIOUS
<1>. HIDE DEF Has, hits
<1>5. ASSUME NEW i \in TurnsOf(built, ids), NEW j \in TurnsOf(built, ids) PROVE i = j
  <2>1. PICK k \in hits : Has(i, ids[k]) /\ \A h \in hits : k <= h
    BY <1>2
  <2>2. PICK l \in hits : Has(j, ids[l]) /\ \A h \in hits : l <= h
    BY <1>2
  <2>3. k = l
    BY <1>1, <1>4, <2>1, <2>2
  <2>. QED  BY <1>2, <1>3, <2>1, <2>2, <2>3
<1>6. ASSUME NEW i \in DOMAIN built, ids # <<>>, Has(i, ids[1]) PROVE i \in TurnsOf(built, ids)
  <2>1. 1 \in DOMAIN ids
    BY <1>6
  <2>2. 1 \in hits /\ \A h \in hits : 1 <= h
    BY <1>1, <1>4, <1>6, <2>1
  <2>. QED  BY <1>2, <1>6, <2>2
<1>. QED  BY <1>5, <1>6 DEF Has

(* A set whose elements are all the same has one at most.                  *)
LEMMA AtMostOne ==
  ASSUME NEW T, \A i, j \in T : i = j
  PROVE  Cardinality(T) <= 1
<1>1. CASE T = {}
  <2>1. Cardinality({}) = 0
    BY FS_EmptySet
  <2>. QED  BY <1>1, <2>1
<1>2. CASE T # {}
  <2>1. PICK x \in T : TRUE
    BY <1>2
  <2>2. T = {x}
    BY <2>1
  <2>3. Cardinality({x}) = 1
    BY FS_Singleton
  <2>. QED  BY <2>2, <2>3
<1>. QED  BY <1>1, <1>2

(* Whatever calls a usage row names, and whenever it was written: it is    *)
(* charged to one turn at most, by the calls it made before those it       *)
(* answers (attributeCost).                                                *)
THEOREM AlwaysChargedToOne ==
  ASSUME NEW E, \A e \in E : e.seq \in Nat \ {0}, NEW rows \in Seq(E), Ascending(rows), NEW at,
         NEW X, NEW Y, NEW emitted \in Seq(X), NEW follows \in Seq(X), NEW ts \in Y
  PROVE  ChargedToOne(BuildTurns(rows, at), [emitted |-> emitted, follows |-> follows, ts |-> ts])
<1>. DEFINE built == BuildTurns(rows, at)
            u  == [emitted |-> emitted, follows |-> follows, ts |-> ts]
            u0 == [emitted |-> emitted, follows |-> <<>>, ts |-> ts]
            byEmitted == TurnsOf(built, emitted)
            byFollows == TurnsOf(built, follows)
            byTime == {i \in DOMAIN built : built[i].started_at <= ts /\ ts <= built[i].ended_at}
            first  == {i \in byTime : \A j \in byTime : i <= j}
<1>1. \A i, j \in DOMAIN built : \A c \in ToSet(built[i].calls), d \in ToSet(built[j].calls) :
        c.id = d.id => i = j
  BY CallInOne
<1>2. DOMAIN built \subseteq Nat
  BY SegmentsLoops DEF BuildTurns
<1>. HIDE DEF built
<1>3. \A i, j \in byEmitted : i = j
  BY <1>1, FirstHit
<1>4. \A i, j \in byFollows : i = j
  BY <1>1, FirstHit
<1>5. \A i, j \in first : i = j
  BY <1>2
<1>6. \A i \in DOMAIN built :
        emitted # <<>> /\ (\E c \in ToSet(built[i].calls) : c.id = emitted[1]) => byEmitted = {i}
  BY <1>1, FirstHit
<1>7. Charged(built, u) = IF byEmitted # {} THEN byEmitted
                          ELSE IF emitted = <<>> /\ byFollows # {} THEN byFollows
                          ELSE first
  BY DEF Charged
<1>8. emitted # <<>> => Charged(built, u0) = IF byEmitted # {} THEN byEmitted ELSE first
  BY DEF Charged
<1>9. [u EXCEPT !.follows = <<>>] = u0 /\ u.emitted = emitted
  OBVIOUS
<1>. HIDE DEF byEmitted, byFollows, first, u, u0
<1>10. Cardinality(Charged(built, u)) <= 1
  BY <1>3, <1>4, <1>5, <1>7, AtMostOne
<1>11. emitted # <<>> => Charged(built, u) = Charged(built, u0)
  BY <1>7, <1>8
<1>12. ASSUME NEW i \in DOMAIN built, emitted # <<>>, \E c \in ToSet(built[i].calls) : c.id = emitted[1]
       PROVE  Charged(built, u) = {i}
  BY <1>6, <1>7, <1>12
<1>13. ChargedToOne(built, u)
  BY <1>9, <1>10, <1>11, <1>12 DEF ChargedToOne
<1>. QED  BY <1>13 DEF built, u

(* The events of MCTurns are numbered as they arrive.                      *)
Numbered ==
  arrived \in Seq(ToSet(arrived)) /\ \A i \in DOMAIN arrived : arrived[i].seq = i

(* They stay so with every step.                                           *)
LEMMA NumberedStep == Numbered /\ [NextTurns]_turnVars => Numbered'
<1>. SUFFICES ASSUME Numbered, NEW r, r.seq = Len(arrived) + 1, arrived' = Append(arrived, r)
              PROVE  Numbered'
  BY DEF Numbered, NextTurns, Arrives, Called, Row, turnVars
<1>. DEFINE E == ToSet(arrived) \cup {r}
            n == Len(arrived)
<1>1. arrived \in Seq(E) /\ r \in E
  BY DEF Numbered
<1>. HIDE DEF E
<1>2. /\ n \in Nat /\ DOMAIN arrived = 1 .. n
      /\ Append(arrived, r) \in Seq(E) /\ DOMAIN Append(arrived, r) = 1 .. n + 1
      /\ \A i \in 1 .. n : Append(arrived, r)[i] = arrived[i]
      /\ Append(arrived, r)[n + 1] = r
  BY <1>1
<1>3. \A i \in 1 .. n + 1 : i = n + 1 \/ i \in 1 .. n
  BY <1>2
<1>4. arrived' \in Seq(ToSet(arrived'))
  BY <1>2, SeqOfOwn
<1>. QED  BY <1>2, <1>3, <1>4 DEF Numbered

(* So they are always.                                                     *)
LEMMA NumberedAlways == SpecTurns => []Numbered
<1>1. InitTurns => Numbered
  BY DEF InitTurns, Numbered, ToSet
<1>. QED  BY <1>1, NumberedStep, PTL DEF SpecTurns

(* What the theorems above ask of a session.                               *)
LEMMA NumberedAscends ==
  ASSUME Numbered
  PROVE  /\ \A e \in ToSet(arrived) : e.seq \in Nat \ {0}
         /\ arrived \in Seq(ToSet(arrived)) /\ Ascending(arrived)
<1>1. DOMAIN arrived = 1 .. Len(arrived) /\ Len(arrived) \in Nat
  BY DEF Numbered
<1>. QED  BY <1>1 DEF Numbered, Ascending, ToSet

(* A turn is a loop, whatever events arrive and in whatever order.         *)
THEOREM TurnsAlwaysLoops == SpecTurns => []TurnsAreLoops
<1>1. Numbered => TurnsAreLoops
  BY NumberedAscends, LoopsAlwaysTurns DEF TurnsAreLoops
<1>. QED  BY <1>1, NumberedAlways, PTL

(* A usage row is paid for once, whatever events arrive.                   *)
THEOREM AlwaysChargedOnce == SpecTurns => []ChargedOnce
<1>1. Numbered => ChargedOnce
  <2>. SUFFICES ASSUME Numbered,
                       NEW emitted \in {<<id>> : id \in Pres \cup {0}} \cup {<<>>},
                       NEW follows \in {<<id>> : id \in Pres \cup {0}} \cup {<<>>},
                       NEW ts \in {1, Clock}
                PROVE  ChargedToOne(Turns, [emitted |-> emitted, follows |-> follows, ts |-> ts])
    BY DEF ChargedOnce
  <2>1. \A ids \in {<<id>> : id \in Pres \cup {0}} \cup {<<>>} : ids \in Seq(Pres \cup {0})
    <3>. DEFINE I == Pres \cup {0}
    <3>1. <<>> \in Seq(I) /\ \A id \in I : <<id>> \in Seq(I)
      <4>. HIDE DEF I
      <4>. QED  OBVIOUS
    <3>. QED  BY <3>1
  <2>. QED  BY <2>1, NumberedAscends, AlwaysChargedToOne DEF Turns
<1>. QED  BY <1>1, NumberedAlways, PTL

-----------------------------------------------------------------------------
(* Putting an event into turn k leaves the other turns alone.              *)
LEMMA PutKeeps ==
  ASSUME NEW E, NEW segs \in Seq(Turn(E)), NEW k \in DOMAIN segs, NEW r \in E
  PROVE  LET new == Put(segs, k, r)
         IN /\ new \in Seq(Turn(E)) /\ DOMAIN new = DOMAIN segs
            /\ \A j \in DOMAIN segs : j # k => new[j] = segs[j]
            /\ new[k].turn_seq = segs[k].turn_seq
            /\ ToSet(segs[k].events) \subseteq ToSet(new[k].events)
<1>. DEFINE new == Put(segs, k, r)
<1>1. new \in Seq(Turn(E)) /\ Grown(segs, new, k, r)
  BY PutGrown
<1>2. \A j \in DOMAIN segs : j # k => new[j] = segs[j]
  BY DEF Put
<1>. HIDE DEF new
<1>. QED  BY <1>1, <1>2 DEF Grown, new

(* The turns from m on may have changed, those before it have not.         *)
KeptBelow(old, new, m) ==
  /\ m \in DOMAIN new /\ \A j \in 1 .. m - 1 : new[j] = old[j]
  /\ new[m].turn_seq = old[m].turn_seq
  /\ ToSet(old[m].events) \subseteq ToSet(new[m].events)

(* An event that is put into turn m or a later one, or opens one.          *)
LEMMA PlaceBehind ==
  ASSUME NEW E, NEW rows, NEW segs \in Seq(Turn(E)), NEW r \in E, NEW m \in DOMAIN segs,
         r.type # "UserPromptSubmit" /\ Raced(segs, r) => m # Len(segs)
  PROVE  KeptBelow(segs, Place(rows, segs, r), m)
<1>. DEFINE n == Len(segs)
            new == Place(rows, segs, r)
<1>1. n \in Nat /\ DOMAIN segs = 1 .. n /\ m \in 1 .. n /\ n # 0 /\ Last(segs) = segs[n] /\ n \in DOMAIN segs
  BY DEF Last
<1>. HIDE DEF n
<1>2. ASSUME NEW k \in DOMAIN segs, m <= k PROVE KeptBelow(segs, Put(segs, k, r), m)
  <2>. DEFINE put == Put(segs, k, r)
  <2>1. /\ put \in Seq(Turn(E)) /\ DOMAIN put = DOMAIN segs
        /\ \A j \in DOMAIN segs : j # k => put[j] = segs[j]
        /\ put[k].turn_seq = segs[k].turn_seq
        /\ ToSet(segs[k].events) \subseteq ToSet(put[k].events)
    BY PutKeeps
  <2>. HIDE DEF put
  <2>2. \A j \in 1 .. m - 1 : j \in DOMAIN segs /\ j # k
    BY <1>1, <1>2
  <2>3. m # k => put[m] = segs[m]
    BY <2>1
  <2>. QED  BY <2>1, <2>2, <2>3 DEF KeptBelow, put
<1>3. CASE r.type = "UserPromptSubmit" /\ Queued(rows, Last(segs), r)
  <2>. DEFINE put == Put(segs, n, r)
  <2>1. new = [put EXCEPT ![n].queued = @ + 1]
    <3>1. Len(segs) > 0
      BY <1>1 DEF n
    <3>. QED  BY <1>3, <3>1, Zenon DEF Place, n
  <2>2. KeptBelow(segs, put, m) /\ put \in Seq(Turn(E)) /\ n \in DOMAIN put
    BY <1>1, <1>2, PutKeeps
  <2>. HIDE DEF put, new
  <2>3. put[n] \in Turn(E)
    BY <2>2
  <2>. DEFINE t == [put[n] EXCEPT !.queued = @ + 1]
  <2>4. t.events = put[n].events /\ t.turn_seq = put[n].turn_seq
    BY <2>3, OneQueued
  <2>5. new = [put EXCEPT ![n] = t]
    BY <2>1
  <2>. HIDE DEF t
  <2>6. DOMAIN new = DOMAIN put /\ \A j \in DOMAIN put : new[j] = IF j = n THEN t ELSE put[j]
    BY <2>2, <2>5
  <2>7. DOMAIN put = 1 .. n
    <3>1. DOMAIN put = DOMAIN segs
      BY <1>1, PutKeeps DEF put
    <3>. QED  BY <1>1, <3>1
  <2>8. \A j \in 1 .. m - 1 : j \in DOMAIN put /\ j # n
    BY <1>1, <2>7
  <2>. QED  BY <2>2, <2>4, <2>6, <2>8 DEF KeptBelow, new
<1>4. CASE r.type = "UserPromptSubmit" /\ ~Queued(rows, Last(segs), r)
  <2>. DEFINE t == Opened(r, FALSE)
  <2>1. new = Append(segs, t)
    BY <1>1, <1>4 DEF Place, n
  <2>2. t \in Turn(E)
    BY OpenedType
  <2>. HIDE DEF t, new
  <2>3. DOMAIN new = 1 .. n + 1 /\ \A j \in 1 .. n : new[j] = segs[j]
    BY <2>1, <2>2 DEF n
  <2>4. m \in 1 .. n + 1 /\ \A j \in 1 .. m - 1 : j \in 1 .. n
    BY <1>1
  <2>. QED  BY <1>1, <2>3, <2>4 DEF KeptBelow, new
<1>5. CASE r.type # "UserPromptSubmit" /\ Raced(segs, r)
  <2>1. new = Put(segs, n - 1, r)
    BY <1>1, <1>5 DEF Place, n
  <2>2. n - 1 \in DOMAIN segs /\ m <= n - 1
    <3>1. n >= 2
      BY <1>5 DEF Raced, n
    <3>2. m # n
      BY <1>5 DEF n
    <3>. QED  BY <1>1, <3>1, <3>2
  <2>. QED  BY <1>2, <2>1, <2>2
<1>6. CASE r.type # "UserPromptSubmit" /\ ~Raced(segs, r)
  <2>1. new = Put(segs, n, r)
    BY <1>1, <1>6 DEF Place, n
  <2>. QED  BY <1>1, <1>2, <2>1
<1>. QED  BY <1>3, <1>4, <1>5, <1>6

(* Pre and Post of an id are the same with one event more, unless it is the *)
(* first of its kind and id.                                               *)
LEMMA HalfLater ==
  ASSUME NEW E, NEW rows \in Seq(E), NEW r \in E,
         \A e \in E : e.seq \in Nat, \A e \in ToSet(rows) : e.seq < r.seq,
         NEW type, NEW id, r.type = type /\ r.id = id => Half(rows, type, id) # {}
  PROVE  Half(Append(rows, r), type, id) = Half(rows, type, id)
<1>. DEFINE F(S) == {e \in S : e.type = type /\ e.id = id}
            S == ToSet(rows)
<1>1. ToSet(Append(rows, r)) = S \cup {r} /\ S \subseteq E
  <2>1. ToSet(Append(rows, r)) = S \cup {r}
    BY AppendSet
  <2>2. S \subseteq E
    BY DEF ToSet
  <2>. QED  BY <2>1, <2>2
<1>2. CASE id = NoId
  BY <1>2 DEF Half
<1>3. CASE id # NoId
  <2>. HIDE DEF S
  <2>1. Half(Append(rows, r), type, id) = FirstOf(F(S \cup {r})) /\ Half(rows, type, id) = FirstOf(F(S))
    BY <1>1, <1>3 DEF Half, S
  <2>2. CASE r.type = type /\ r.id = id
    <3>1. PICK f \in F(S) : \A e \in F(S) : f.seq <= e.seq
      BY <2>1, <2>2 DEF FirstOf
    <3>2. F(S \cup {r}) = F(S) \cup {r}
      BY <2>2
    <3>3. f.seq < r.seq /\ \A e \in F(S) : e.seq \in Nat /\ e.seq < r.seq
      BY <1>1, <3>1 DEF S
    <3>. HIDE DEF F
    <3>4. r.seq \in Nat /\ f.seq \in Nat
      BY <3>1, <3>3
    <3>5. ASSUME NEW e PROVE e \in FirstOf(F(S) \cup {r}) <=> e \in FirstOf(F(S))
      BY <3>1, <3>3, <3>4 DEF FirstOf
    <3>6. FirstOf(F(S) \cup {r}) = FirstOf(F(S))
      BY <3>5 DEF FirstOf
    <3>. QED  BY <2>1, <3>2, <3>6
  <2>3. CASE ~(r.type = type /\ r.id = id)
    <3>1. F(S \cup {r}) = F(S)
      BY <2>3
    <3>. QED  BY <2>1, <3>1
  <2>. QED  BY <2>2, <2>3
<1>. QED  BY <1>2, <1>3

-----------------------------------------------------------------------------
(* The calls that an event more answers.                                   *)
Newly(E, rows, later) ==
  {d \in E : d.type = "PreToolUse" /\ PostOf(later, d.id) # PostOf(rows, d.id)}

(* Two ways to make turns of the same events: they differ, if at all, from *)
(* the turn on that has one of the calls.                                  *)
Apart(calls, old, new) ==
  \E m \in DOMAIN old \cap DOMAIN new :
    /\ \E d \in calls : d \in ToSet(old[m].events) /\ d \in ToSet(new[m].events)
    /\ \A j \in 1 .. m - 1 : new[j] = old[j]
    /\ new[m].turn_seq = old[m].turn_seq

(* A turn that has a call is not passed over for a Stop.                   *)
LEMMA PlacedBehindCall ==
  ASSUME NEW E, NEW rows, NEW segs \in Seq(Turn(E)), NEW r \in E, NEW m \in DOMAIN segs,
         NEW d \in ToSet(segs[m].events), d.type = "PreToolUse"
  PROVE  KeptBelow(segs, Place(rows, segs, r), m)
<1>1. Raced(segs, r) => m # Len(segs)
  BY DEF Raced, Last
<1>. QED  BY <1>1, PlaceBehind

(* They stay so with one event more.                                       *)
LEMMA ApartStep ==
  ASSUME NEW E, NEW rows, NEW later, NEW old \in Seq(Turn(E)), NEW new \in Seq(Turn(E)), NEW r \in E,
         old = new \/ Apart(Newly(E, rows, later), old, new)
  PROVE  LET o == Place(rows, old, r)
             n == Place(later, new, r)
         IN o = n \/ Apart(Newly(E, rows, later), o, n)
<1>. DEFINE W == Newly(E, rows, later)
            o == Place(rows, old, r)
            n == Place(later, new, r)
<1>1. ASSUME NEW m \in DOMAIN old \cap DOMAIN new, NEW d \in W,
             d \in ToSet(old[m].events), d \in ToSet(new[m].events),
             \A j \in 1 .. m - 1 : new[j] = old[j], new[m].turn_seq = old[m].turn_seq
      PROVE  Apart(W, o, n)
  <2>1. d.type = "PreToolUse"
    BY DEF Newly
  <2>. HIDE DEF W
  <2>2. KeptBelow(old, o, m) /\ KeptBelow(new, n, m)
    BY <1>1, <2>1, PlacedBehindCall
  <2>. HIDE DEF o, n
  <2>. QED  BY <1>1, <2>2 DEF KeptBelow, Apart
<1>2. CASE Apart(W, old, new)
  BY <1>1, <1>2 DEF Apart
<1>3. CASE old = new /\ old # <<>>
  <2>. DEFINE k == Len(old)
  <2>1. k \in DOMAIN old /\ Last(old) = old[k] /\ old[k] \in Turn(E)
    BY <1>3 DEF Last
  <2>. HIDE DEF k
  <2>2. old[k].events \in Seq(E)
    BY <2>1 DEF Turn, TurnOf
  <2>3. CASE \E d \in W : d \in ToSet(old[k].events)
    BY <1>1, <1>3, <2>1, <2>3
  <2>4. CASE \A d \in W : d \notin ToSet(old[k].events)
    <3>1. ToSet(old[k].events) \subseteq E
      BY <2>2 DEF ToSet
    <3>2. \A e \in ToSet(old[k].events) : e.type = "PreToolUse" => PostOf(rows, e.id) = PostOf(later, e.id)
      BY <2>4, <3>1 DEF Newly
    <3>3. Queued(rows, old[k], r) = Queued(later, old[k], r)
      BY <3>2 DEF Queued
    <3>. QED  BY <1>3, <2>1, <3>3 DEF Place
  <2>. QED  BY <2>3, <2>4
<1>4. CASE old = new /\ old = <<>>
  <2>1. Len(old) = 0
    BY <1>4
  <2>. QED  BY <1>4, <2>1 DEF Place
<1>. QED  BY <1>2, <1>3, <1>4

(* So they are for a whole session, as buildTurns sees it when the answer  *)
(* has not come, and when it has.                                          *)
LEMMA SegmentsApart ==
  ASSUME NEW E, NEW rows \in Seq(E), NEW r \in E
  PROVE  LET later == Append(rows, r)
         IN \E mid \in Seq(Turn(E)) :
              /\ Segments(rows) = mid \/ Apart(Newly(E, rows, later), Segments(rows), mid)
              /\ Segments(later) = Place(later, mid, r)
<1>. DEFINE later == Append(rows, r)
            W == Newly(E, rows, later)
            A(u) == Placed!Value([rows |-> rows, turns |-> <<>>], u)
            B(u) == Placed!Value([rows |-> later, turns |-> <<>>], u)
            Acc(all) == [rows : {all}, turns : Seq(Turn(E))]
            T == {u \in Seq(E) : A(u).turns = B(u).turns \/ Apart(W, A(u).turns, B(u).turns)}
<1>1. ASSUME NEW all, NEW u \in Seq(E)
      PROVE  Placed!Value([rows |-> all, turns |-> <<>>], u) \in Acc(all)
  <2>. DEFINE base == [rows |-> all, turns |-> <<>>]
  <2>1. base \in Acc(all)
    OBVIOUS
  <2>2. ASSUME NEW v \in Acc(all), NEW e \in E PROVE PlaceNext(v, e) \in Acc(all)
    <3>1. v.turns \in Seq(Turn(E)) /\ v.rows = all
      OBVIOUS
    <3>2. Place(v.rows, v.turns, e) \in Seq(Turn(E))
      BY <3>1, PlaceType
    <3>. QED  BY <3>2 DEF PlaceNext
  <2>. HIDE DEF Acc, base
  <2>3. Placed!Value(base, u) \in Acc(all)
    BY <2>1, <2>2, Placed!ValueType
  <2>. QED  BY <2>3 DEF base
<1>2. \A u \in Seq(E) : A(u) \in Acc(rows) /\ B(u) \in Acc(later)
  BY <1>1
<1>. HIDE DEF later
<1>3. ASSUME NEW u \in Seq(E), NEW e \in E
      PROVE  /\ A(Append(u, e)).turns = Place(rows, A(u).turns, e)
             /\ B(Append(u, e)).turns = Place(later, B(u).turns, e)
  <2>1. A(Append(u, e)) = PlaceNext(A(u), e) /\ B(Append(u, e)) = PlaceNext(B(u), e)
    BY Placed!ValueAppend
  <2>. HIDE DEF A, B
  <2>2. A(u) \in Acc(rows) /\ B(u) \in Acc(later)
    BY <1>2
  <2>. QED  BY <2>1, <2>2 DEF PlaceNext
<1>4. <<>> \in T
  <2>1. A(<<>>).turns = <<>> /\ B(<<>>).turns = <<>>
    BY Placed!ValueEmpty
  <2>. QED  BY <2>1
<1>. HIDE DEF A, B
<1>5. ASSUME NEW u \in T \cap Seq(E), NEW e \in E PROVE Append(u, e) \in T
  <2>1. A(u).turns \in Seq(Turn(E)) /\ B(u).turns \in Seq(Turn(E))
    BY <1>2
  <2>2. A(u).turns = B(u).turns \/ Apart(W, A(u).turns, B(u).turns)
    OBVIOUS
  <2>. DEFINE o == Place(rows, A(u).turns, e)
              n == Place(later, B(u).turns, e)
  <2>3. o = n \/ Apart(W, o, n)
    BY <2>1, <2>2, ApartStep
  <2>4. Append(u, e) \in Seq(E)
    OBVIOUS
  <2>. QED  BY <1>3, <2>3, <2>4
<1>6. rows \in T
  <2>. HIDE DEF T
  <2>1. Seq(E) \subseteq T
    BY <1>4, <1>5, Placed!SequenceInduction
  <2>. QED  BY <2>1
<1>7. Segments(rows) = A(rows).turns /\ Segments(later) = B(later).turns
  BY PlacedIs DEF Segments, A, B
<1>8. B(later).turns = Place(later, B(rows).turns, r)
  BY <1>3 DEF later
<1>9. B(rows).turns \in Seq(Turn(E))
  BY <1>2
<1>. QED  BY <1>6, <1>7, <1>8, <1>9 DEF later

(* A turn none of whose calls, and of those of the turns before it, is     *)
(* newly answered is the same turn, and as long, whatever comes but a Stop. *)
LEMMA SegmentStands ==
  ASSUME NEW E, NEW rows \in Seq(E), NEW r \in E, r.type # "Stop",
         NEW i \in Nat \ {0}, i + 1 \in DOMAIN Segments(rows),
         \A j \in 1 .. i : \A d \in Newly(E, rows, Append(rows, r)) :
           d \notin ToSet(Segments(rows)[j].events)
  PROVE  LET old == Segments(rows)
             new == Segments(Append(rows, r))
         IN /\ i \in DOMAIN new /\ i + 1 \in DOMAIN new
            /\ new[i] = old[i] /\ new[i + 1].turn_seq = old[i + 1].turn_seq
<1>. DEFINE later == Append(rows, r)
            W   == Newly(E, rows, later)
            old == Segments(rows)
            new == Segments(later)
<1>1. PICK mid \in Seq(Turn(E)) : (old = mid \/ Apart(W, old, mid)) /\ new = Place(later, mid, r)
  BY SegmentsApart
<1>2. \A j \in 1 .. i : \A d \in W : d \notin ToSet(old[j].events)
  OBVIOUS
<1>3. old \in Seq(Turn(E))
  BY SegmentsType
<1>. HIDE DEF later, W, old, new
<1>4. i + 1 \in DOMAIN mid /\ mid[i] = old[i] /\ mid[i + 1].turn_seq = old[i + 1].turn_seq
  <2>1. CASE old = mid
    BY <2>1 DEF old
  <2>2. CASE Apart(W, old, mid)
    <3>1. PICK m \in DOMAIN old \cap DOMAIN mid :
            /\ \E d \in W : d \in ToSet(old[m].events)
            /\ \A j \in 1 .. m - 1 : mid[j] = old[j]
            /\ mid[m].turn_seq = old[m].turn_seq
      BY <2>2 DEF Apart
    <3>2. m \in Nat \ {0} /\ DOMAIN mid = 1 .. Len(mid) /\ m <= Len(mid) /\ Len(mid) \in Nat
      OBVIOUS
    <3>3. m > i
      BY <1>2, <3>1, <3>2
    <3>4. i \in 1 .. m - 1 /\ (i + 1 \in 1 .. m - 1 \/ i + 1 = m) /\ i + 1 \in DOMAIN mid
      BY <3>2, <3>3
    <3>. QED  BY <3>1, <3>4
  <2>. QED  BY <1>1, <2>1, <2>2
<1>5. /\ Len(mid) \in DOMAIN mid /\ DOMAIN mid = 1 .. Len(mid)
      /\ i \in 1 .. Len(mid) - 1 /\ (i + 1 \in 1 .. Len(mid) - 1 \/ i + 1 = Len(mid))
  BY <1>4
<1>6. KeptBelow(mid, new, Len(mid))
  BY <1>1, <1>5, PlaceBehind, Zenon DEF Raced
<1>7. /\ Len(mid) \in DOMAIN new /\ \A j \in 1 .. Len(mid) - 1 : new[j] = mid[j]
      /\ new[Len(mid)].turn_seq = mid[Len(mid)].turn_seq
  BY <1>6 DEF KeptBelow
<1>8. new \in Seq(Turn(E))
  <2>1. later \in Seq(E)
    BY DEF later
  <2>. QED  BY <2>1, SegmentsType DEF new
<1>9. i \in DOMAIN new /\ i + 1 \in DOMAIN new
  <2>. DEFINE k == Len(mid)
              l == Len(new)
  <2>1. DOMAIN new = 1 .. l /\ l \in Nat /\ k \in Nat
    BY <1>8
  <2>2. k \in 1 .. l /\ i \in 1 .. k - 1
    BY <1>5, <1>7, <2>1, Zenon
  <2>. HIDE DEF k, l
  <2>. QED  BY <2>1, <2>2
<1>. QED  BY <1>4, <1>5, <1>7, <1>9, Zenon DEF new, old, later

(* The calls of a turn are all its Pres that are the first of their id.    *)
LEMMA CallPresAll ==
  ASSUME NEW E, NEW rows, NEW t, t.events \in Seq(E)
  PROVE  ToSet(CallPres(rows, t)) = {e \in ToSet(t.events) : IsCall(rows, e)}
<1>. DEFINE base == [rows |-> rows, pres |-> <<>>]
            Acc  == [rows : {rows}, pres : Seq(E)]
            V(u) == Taken!Value(base, u)
            T    == {u \in Seq(E) : ToSet(V(u).pres) = {e \in ToSet(u) : IsCall(rows, e)}}
<1>1. ASSUME NEW u \in Seq(E) PROVE V(u) \in Acc
  <2>1. base \in Acc
    OBVIOUS
  <2>2. ASSUME NEW v \in Acc, NEW e \in E PROVE TakeNext(v, e) \in Acc
    BY DEF TakeNext
  <2>. HIDE DEF Acc, base
  <2>. QED  BY <2>1, <2>2, Taken!ValueType
<1>2. <<>> \in T
  <2>1. V(<<>>).pres = <<>> /\ ToSet(<<>>) = {}
    BY Taken!ValueEmpty DEF ToSet
  <2>. QED  BY <2>1
<1>3. ASSUME NEW u \in T \cap Seq(E), NEW e \in E PROVE Append(u, e) \in T
  <2>1. V(Append(u, e)) = TakeNext(V(u), e)
    BY Taken!ValueAppend
  <2>. HIDE DEF V
  <2>2. V(u) \in Acc /\ ToSet(V(u).pres) = {x \in ToSet(u) : IsCall(rows, x)}
    BY <1>1
  <2>3. V(u).pres \in Seq(E) /\ V(u).rows = rows
    BY <2>2
  <2>4. V(Append(u, e)).pres = IF IsCall(rows, e) THEN Append(V(u).pres, e) ELSE V(u).pres
    BY <2>1, <2>2, <2>3 DEF TakeNext
  <2>5. ToSet(Append(u, e)) = ToSet(u) \cup {e} /\ ToSet(Append(V(u).pres, e)) = ToSet(V(u).pres) \cup {e}
    BY <2>3, AppendSet
  <2>6. ToSet(V(Append(u, e)).pres) = {x \in ToSet(u) \cup {e} : IsCall(rows, x)}
    BY <2>2, <2>4, <2>5
  <2>. QED  BY <2>5, <2>6
<1>. HIDE DEF V
<1>4. t.events \in T
  <2>. HIDE DEF T
  <2>1. Seq(E) \subseteq T
    BY <1>2, <1>3, Taken!SequenceInduction
  <2>. QED  BY <2>1
<1>5. CallPres(rows, t) = V(t.events).pres
  BY TakenIs DEF CallPres, V
<1>. QED  BY <1>4, <1>5

(* One step of the fold that takes them.                                   *)
LEMMA TakeNextIs ==
  ASSUME NEW rows, NEW pres, NEW e
  PROVE  TakeNext([rows |-> rows, pres |-> pres], e)
           = [rows |-> rows, pres |-> IF IsCall(rows, e) THEN Append(pres, e) ELSE pres]
<1>1. CASE IsCall(rows, e)
  BY <1>1 DEF TakeNext
<1>2. CASE ~IsCall(rows, e)
  BY <1>2 DEF TakeNext
<1>. QED  BY <1>1, <1>2

(* They are the same calls, in the same order, wherever the same Pres are  *)
(* the first of their id.                                                  *)
LEMMA CallPresSame ==
  ASSUME NEW E, NEW rows, NEW later, NEW t, t.events \in Seq(E),
         \A e \in ToSet(t.events) : IsCall(rows, e) <=> IsCall(later, e)
  PROVE  CallPres(rows, t) = CallPres(later, t)
<1>. DEFINE S    == ToSet(t.events)
            A(u) == Taken!Value([rows |-> rows, pres |-> <<>>], u)
            B(u) == Taken!Value([rows |-> later, pres |-> <<>>], u)
            Same(u) == /\ A(u) = [rows |-> rows, pres |-> A(u).pres]
                       /\ B(u) = [rows |-> later, pres |-> A(u).pres]
            T    == {u \in Seq(S) : Same(u)}
<1>1. <<>> \in T
  <2>1. A(<<>>) = [rows |-> rows, pres |-> <<>>] /\ B(<<>>) = [rows |-> later, pres |-> <<>>]
    BY Taken!ValueEmpty
  <2>. QED  BY <2>1
<1>2. ASSUME NEW u \in T \cap Seq(S), NEW e \in S PROVE Append(u, e) \in T
  <2>. HIDE DEF S
  <2>1. A(Append(u, e)) = TakeNext(A(u), e) /\ B(Append(u, e)) = TakeNext(B(u), e)
    BY Taken!ValueAppend
  <2>. HIDE DEF A, B
  <2>2. IsCall(rows, e) <=> IsCall(later, e)
    BY DEF S
  <2>. DEFINE pres == A(u).pres
  <2>3. A(u) = [rows |-> rows, pres |-> pres] /\ B(u) = [rows |-> later, pres |-> pres]
    OBVIOUS
  <2>. HIDE DEF pres
  <2>. DEFINE more == IF IsCall(rows, e) THEN Append(pres, e) ELSE pres
  <2>4. A(Append(u, e)) = [rows |-> rows, pres |-> more]
    BY <2>1, <2>3, TakeNextIs
  <2>5. B(Append(u, e)) = [rows |-> later, pres |-> more]
    BY <2>1, <2>2, <2>3, TakeNextIs
  <2>. HIDE DEF more
  <2>6. A(Append(u, e)).pres = more
    BY <2>4
  <2>7. Append(u, e) \in Seq(S)
    OBVIOUS
  <2>. QED  BY <2>4, <2>5, <2>6, <2>7
<1>3. t.events \in T
  <2>1. t.events \in Seq(S)
    BY SeqOfOwn
  <2>. HIDE DEF T, S
  <2>2. Seq(S) \subseteq T
    BY <1>1, <1>2, Taken!SequenceInduction
  <2>. QED  BY <2>1, <2>2
<1>4. CallPres(rows, t) = A(t.events).pres /\ CallPres(later, t) = B(t.events).pres
  BY TakenIs DEF CallPres
<1>. HIDE DEF A, B
<1>. QED  BY <1>3, <1>4

(* A turn whose calls are answered, and that another has followed, reads   *)
(* the same when a Post has come whose Pre is of another turn, or a Pre    *)
(* with an id of its own.                                                  *)
LEMMA BuiltStands ==
  ASSUME NEW E, NEW rows, NEW later, NEW old \in Seq(Turn(E)), NEW new, NEW i \in DOMAIN old,
         i + 1 \in DOMAIN old, i \in DOMAIN new, i + 1 \in DOMAIN new,
         new[i] = old[i], new[i + 1].turn_seq = old[i + 1].turn_seq,
         \A e \in ToSet(old[i].events) :
           /\ e.type = "PreToolUse" => PostOf(later, e.id) = PostOf(rows, e.id)
           /\ e.type \in {"PreToolUse", "PostToolUse"} => PreOf(later, e.id) = PreOf(rows, e.id),
         NEW at
  PROVE  Built(later, new, i, at) = Built(rows, old, i, at)
<1>. DEFINE t == old[i]
            oldNext == {old[j] : j \in {i + 1} \cap DOMAIN old}
            newNext == {new[j] : j \in {i + 1} \cap DOMAIN new}
<1>1. oldNext = {old[i + 1]} /\ newNext = {new[i + 1]}
  OBVIOUS
<1>2. t.events \in Seq(E)
  <2>1. t \in Turn(E)
    OBVIOUS
  <2>. HIDE DEF t
  <2>. QED  BY <2>1 DEF Turn, TurnOf
<1>3. \A e \in ToSet(t.events) :
        /\ e.type = "PreToolUse" => PostOf(later, e.id) = PostOf(rows, e.id)
        /\ e.type \in {"PreToolUse", "PostToolUse"} => PreOf(later, e.id) = PreOf(rows, e.id)
  OBVIOUS
<1>4. new[i] = t /\ \A x : (\A s \in newNext : x < s.turn_seq) <=> (\A s \in oldNext : x < s.turn_seq)
  BY <1>1
<1>5. newNext # {} /\ oldNext # {}
  BY <1>1
<1>. HIDE DEF t, oldNext, newNext
<1>6. Status(t, newNext, at) = Status(t, oldNext, at)
  BY <1>5 DEF Status
<1>7. EndedAt(later, t, newNext) = EndedAt(rows, t, oldNext)
  <2>. DEFINE stop  == Last(t.stops)
              calls == {e \in ToSet(t.events) : e.seq > stop.seq /\ ~e.agent /\ e.type = "PreToolUse"}
              o == UNION {PostOf(rows, e.id) : e \in calls}
              n == UNION {PostOf(later, e.id) : e \in calls}
              oldEnds == {stop.at} \cup {e.at : e \in calls} \cup
                         {p.at : p \in {p \in o : \A s \in oldNext : p.seq < s.turn_seq}}
              newEnds == {stop.at} \cup {e.at : e \in calls} \cup
                         {p.at : p \in {p \in n : \A s \in newNext : p.seq < s.turn_seq}}
  <2>1. o = n
    BY <1>3
  <2>2. oldEnds = newEnds
    <3>. HIDE DEF o, n, calls, stop
    <3>1. {p \in n : \A s \in newNext : p.seq < s.turn_seq} = {p \in o : \A s \in oldNext : p.seq < s.turn_seq}
      BY <1>4, <2>1
    <3>. QED  BY <3>1
  <2>3. /\ EndedAt(rows, t, oldNext) = IF t.virtual \/ t.stops = <<>> THEN LastAt(t)
                                       ELSE CHOOSE m \in oldEnds : \A x \in oldEnds : x <= m
        /\ EndedAt(later, t, newNext) = IF t.virtual \/ t.stops = <<>> THEN LastAt(t)
                                        ELSE CHOOSE m \in newEnds : \A x \in newEnds : x <= m
    BY DEF EndedAt
  <2>. HIDE DEF oldEnds, newEnds
  <2>. QED  BY <2>2, <2>3
<1>8. \A e \in ToSet(t.events) : IsCall(rows, e) <=> IsCall(later, e)
  BY <1>3 DEF IsCall
<1>9. CallsOf(later, t, at) = CallsOf(rows, t, at)
  <2>. DEFINE pres == CallPres(rows, t)
  <2>1. CallPres(later, t) = pres
    BY <1>2, <1>8, CallPresSame
  <2>2. \A k \in DOMAIN pres : pres[k] \in ToSet(t.events) /\ IsCall(rows, pres[k])
    <3>1. pres \in Seq({e \in ToSet(t.events) : IsCall(rows, e)})
      BY <1>2, CallPresAre
    <3>. QED  BY <3>1
  <2>3. \A k \in DOMAIN pres : CallOf(later, t, at, pres[k]) = CallOf(rows, t, at, pres[k])
    BY <1>3, <2>2 DEF CallOf, IsCall
  <2>. HIDE DEF pres
  <2>. QED  BY <2>1, <2>3 DEF CallsOf, pres
<1>10. Unpaired(later, t) = Unpaired(rows, t)
  BY <1>3, <1>8 DEF Unpaired
<1>. QED  BY <1>4, <1>6, <1>7, <1>9, <1>10 DEF Built, t, oldNext, newNext

-----------------------------------------------------------------------------
(* Calls have ids of their own, and only calls that were made are answered, *)
(* but for those whose Pre was lost.                                       *)
Identified ==
  /\ Cardinality(Pres) \in Nat /\ Pres = 1 .. Cardinality(Pres)
  /\ Posts \subseteq Pres \cup {0}
  /\ \A d, e \in ToSet(arrived) :
       d.type = "PreToolUse" /\ e.type = "PreToolUse" /\ d.id = e.id => d = e

(* What an event that arrives looks like.                                  *)
Comes(r) ==
  /\ r.seq = Len(arrived) + 1 /\ arrived' = Append(arrived, r)
  /\ r.type = "PreToolUse" => r.id = Cardinality(Pres) + 1
  /\ r.type = "PostToolUse" => r.id \in Pres \cup {0}
  /\ r.at \in {Clock, Clock + 1}

(* Nothing else changes arrived.                                           *)
LEMMA ArrivesIs ==
  ASSUME [NextTurns]_turnVars, arrived' # arrived
  PROVE  \E r : Comes(r)
<1>1. Arrives
  BY DEF NextTurns, Called, turnVars
<1>2. PICK type, id, agent, at : /\ arrived' = Append(arrived, Row(type, id, agent, at))
                                 /\ type = "PreToolUse" => id = Cardinality(Pres) + 1
                                 /\ type = "PostToolUse" => id \in Pres \cup {0}
                                 /\ at \in {Clock, Clock + 1}
  <2>. DEFINE Is(type, id, agent, at) ==
                /\ arrived' = Append(arrived, Row(type, id, agent, at))
                /\ type = "PreToolUse" => id = Cardinality(Pres) + 1
                /\ type = "PostToolUse" => id \in Pres \cup {0}
                /\ at \in {Clock, Clock + 1}
  <2>1. CASE \E type \in {"UserPromptSubmit", "Stop", "Notification"} :
               arrived' = Append(arrived, Row(type, NoId, FALSE, Clock + 1))
    <3>1. PICK type \in {"UserPromptSubmit", "Stop", "Notification"} :
            arrived' = Append(arrived, Row(type, NoId, FALSE, Clock + 1))
      BY <2>1
    <3>2. Is(type, NoId, FALSE, Clock + 1)
      BY <3>1
    <3>. QED  BY <3>2
  <2>2. CASE arrived' = Append(arrived, Row("Stop", NoId, FALSE, Clock))
    <3>1. Is("Stop", NoId, FALSE, Clock)
      BY <2>2
    <3>. QED  BY <3>1
  <2>3. CASE \E agent \in BOOLEAN :
               arrived' = Append(arrived, Row("PreToolUse", Cardinality(Pres) + 1, agent, Clock + 1))
    <3>1. PICK agent \in BOOLEAN : Is("PreToolUse", Cardinality(Pres) + 1, agent, Clock + 1)
      BY <2>3
    <3>. QED  BY <3>1
  <2>4. CASE \E id \in (Pres \ Posts) \cup {NoId} :
               arrived' = Append(arrived, Row("GuardDecision", id, FALSE, Clock + 1))
    <3>1. PICK id \in (Pres \ Posts) \cup {NoId} : Is("GuardDecision", id, FALSE, Clock + 1)
      BY <2>4
    <3>. QED  BY <3>1
  <2>5. CASE \E id \in (Pres \cup {0}) \ Posts :
               arrived' = Append(arrived, Row("PostToolUse", id, FALSE, Clock + 1))
    <3>1. PICK id \in (Pres \cup {0}) \ Posts : Is("PostToolUse", id, FALSE, Clock + 1)
      BY <2>5
    <3>. QED  BY <3>1
  <2>. QED  BY <1>1, <2>1, <2>2, <2>3, <2>4, <2>5 DEF Arrives
<1>. QED  BY <1>2 DEF Comes, Row

(* The ids stay so with every step.                                        *)
LEMMA IdentifiedStep == Numbered /\ Identified /\ [NextTurns]_turnVars => Identified'
<1>. SUFFICES ASSUME Numbered, Identified, [NextTurns]_turnVars PROVE Identified'
  OBVIOUS
<1>1. CASE arrived' = arrived
  BY <1>1 DEF Identified, Pres, Posts
<1>2. CASE arrived' # arrived
  <2>1. PICK r : Comes(r)
    BY <1>2, ArrivesIs
  <2>2. ToSet(arrived') = ToSet(arrived) \cup {r}
    BY <2>1, AppendSet DEF Numbered, Comes
  <2>. DEFINE n == Cardinality(Pres)
  <2>3. n \in Nat /\ Pres = 1 .. n /\ Posts \subseteq Pres \cup {0}
    BY DEF Identified
  <2>4. Cardinality(1 .. n) = n /\ Cardinality(1 .. n + 1) = n + 1
    <3>. HIDE DEF n
    <3>1. Cardinality(1 .. n) = IF 1 > n THEN 0 ELSE n - 1 + 1
      BY <2>3, FS_Interval
    <3>2. Cardinality(1 .. n + 1) = IF 1 > n + 1 THEN 0 ELSE n + 1 - 1 + 1
      BY <2>3, FS_Interval
    <3>. QED  BY <2>3, <3>1, <3>2
  <2>5. CASE r.type = "PreToolUse"
    <3>1. Pres' = Pres \cup {r.id} /\ Posts' = Posts
      BY <2>2, <2>5 DEF Pres, Posts
    <3>2. r.id = n + 1
      BY <2>1, <2>5 DEF Comes
    <3>. HIDE DEF n
    <3>3. Pres' = 1 .. n + 1
      BY <2>3, <3>1, <3>2
    <3>4. \A d \in ToSet(arrived) : d.type = "PreToolUse" => d.id # r.id
      <4>1. \A d \in ToSet(arrived) : d.type = "PreToolUse" => d.id \in Pres
        BY DEF Pres
      <4>. QED  BY <2>3, <3>2, <4>1
    <3>5. Cardinality(Pres)' = n + 1
      BY <2>4, <3>3
    <3>6. (Cardinality(Pres) \in Nat /\ Pres = 1 .. Cardinality(Pres))'
      BY <2>3, <3>3, <3>5
    <3>7. (Posts \subseteq Pres \cup {0})'
      BY <2>3, <3>1
    <3>8. (\A d, e \in ToSet(arrived) :
             d.type = "PreToolUse" /\ e.type = "PreToolUse" /\ d.id = e.id => d = e)'
      BY <2>2, <3>4 DEF Identified
    <3>. QED  BY <3>6, <3>7, <3>8 DEF Identified
  <2>6. CASE r.type = "PostToolUse"
    <3>1. Pres' = Pres /\ Posts' = Posts \cup {r.id}
      BY <2>2, <2>6 DEF Pres, Posts
    <3>2. r.id \in Pres \cup {0}
      BY <2>1, <2>6 DEF Comes
    <3>. QED  BY <2>2, <2>6, <3>1, <3>2 DEF Identified
  <2>7. CASE r.type \notin {"PreToolUse", "PostToolUse"}
    <3>1. Pres' = Pres /\ Posts' = Posts
      BY <2>2, <2>7 DEF Pres, Posts
    <3>. QED  BY <2>2, <2>7, <3>1 DEF Identified
  <2>. QED  BY <2>5, <2>6, <2>7
<1>. QED  BY <1>1, <1>2

(* What a call of an answered turn is paired with is settled.              *)
LEMMA AnsweredPaired ==
  ASSUME Numbered, Identified, NEW r, Comes(r), NEW at,
         NEW j \in DOMAIN Segments(arrived), Answered(BuildTurns(arrived, at)[j]),
         NEW e \in ToSet(Segments(arrived)[j].events)
  PROVE  /\ e.type = "PreToolUse" => PostOf(arrived', e.id) = PostOf(arrived, e.id)
         /\ e.type \in {"PreToolUse", "PostToolUse"} => PreOf(arrived', e.id) = PreOf(arrived, e.id)
<1>. DEFINE S    == ToSet(arrived)
            E    == S \cup {r}
            t    == Segments(arrived)[j]
            calls == CallsOf(arrived, t, at)
<1>1. arrived \in Seq(S) /\ arrived' = Append(arrived, r) /\ r \in E
  BY DEF Numbered, Comes
<1>2. /\ \A x \in S : x.seq \in Nat /\ x.seq < r.seq
      /\ \A x \in E : x.seq \in Nat
  <2>1. /\ Len(arrived) \in Nat /\ DOMAIN arrived = 1 .. Len(arrived)
        /\ \A i \in DOMAIN arrived : arrived[i].seq = i
        /\ r.seq = Len(arrived) + 1
    BY DEF Numbered, Comes
  <2>. QED  BY <2>1 DEF ToSet
<1>3. t.events \in Seq(S) /\ BuildTurns(arrived, at)[j].calls = calls
  <2>1. Segments(arrived) \in Seq(Turn(S))
    BY <1>1, SegmentsType
  <2>2. t \in Turn(S)
    BY <2>1
  <2>3. BuildTurns(arrived, at)[j].calls = calls
    BY <1>1, TurnsAre
  <2>. HIDE DEF t
  <2>. QED  BY <2>2, <2>3 DEF Turn, TurnOf
<1>4. e \in S
  BY <1>3 DEF ToSet
<1>5. arrived \in Seq(E)
  <2>. HIDE DEF S
  <2>. QED  BY <1>1
<1>. HIDE DEF S, E, t
<1>6. ASSUME e.type = "PreToolUse" PROVE PostOf(arrived', e.id) = PostOf(arrived, e.id)
  <2>1. CASE e.id = NoId
    BY <2>1 DEF PostOf, Half
  <2>2. CASE e.id # NoId
    <3>1. \A d \in S : d.type = "PreToolUse" /\ d.id = e.id => d = e
      BY <1>4, <1>6 DEF Identified, S
    <3>2. {d \in S : d.type = "PreToolUse" /\ d.id = e.id} = {e}
      BY <1>4, <1>6, <3>1
    <3>3. PreOf(arrived, e.id) = FirstOf({e})
      BY <2>2, <3>2 DEF PreOf, Half, S
    <3>4. e \in PreOf(arrived, e.id)
      BY <1>2, <1>4, <3>3 DEF FirstOf
    <3>5. e \in ToSet(CallPres(arrived, t))
      <4>1. ToSet(CallPres(arrived, t)) = {x \in ToSet(t.events) : IsCall(arrived, x)}
        BY <1>3, CallPresAll
      <4>2. e \in ToSet(t.events) /\ IsCall(arrived, e)
        BY <1>6, <3>4 DEF IsCall, t
      <4>. QED  BY <4>1, <4>2
    <3>. DEFINE pres == CallPres(arrived, t)
    <3>6. PICK k \in DOMAIN pres : pres[k] = e
      BY <3>5 DEF ToSet
    <3>7. calls[k] = CallOf(arrived, t, at, e) /\ k \in DOMAIN calls
      BY <3>6 DEF CallsOf
    <3>8. CallOf(arrived, t, at, e) \in ToSet(calls)
      BY <3>7 DEF ToSet
    <3>9. CallOf(arrived, t, at, e).post # {}
      BY <1>3, <3>8 DEF Answered
    <3>10. PostOf(arrived, e.id) # {}
      BY <3>9 DEF CallOf
    <3>. QED  BY <1>1, <1>2, <1>5, <3>10, HalfLater DEF PostOf, S
  <2>. QED  BY <2>1, <2>2
<1>7. ASSUME e.type \in {"PreToolUse", "PostToolUse"} PROVE PreOf(arrived', e.id) = PreOf(arrived, e.id)
  <2>1. e.id \in Pres \cup {0}
    BY <1>4, <1>7 DEF Pres, Posts, Identified, S
  <2>2. r.type = "PreToolUse" => r.id # e.id
    <3>1. r.type = "PreToolUse" => r.id = Cardinality(Pres) + 1
      BY DEF Comes
    <3>2. Cardinality(Pres) \in Nat /\ Pres = 1 .. Cardinality(Pres)
      BY DEF Identified
    <3>. QED  BY <2>1, <3>1, <3>2
  <2>. QED  BY <1>1, <1>2, <1>5, <2>2, HalfLater DEF PreOf, S
<1>. QED  BY <1>6, <1>7 DEF t

(* An event but a Stop leaves what was answered alone.                     *)
LEMMA AnsweredStep ==
  ASSUME Numbered, Identified, [NextTurns]_turnVars
  PROVE  AnsweredStay
<1>. DEFINE at  == Now
            old == BuildTurns(arrived, at)
            new == BuildTurns(arrived', at)
<1>. SUFFICES ASSUME arrived' # arrived, Last(arrived').type # "Stop",
                     NEW i \in 1 .. Len(old) - 1, \A j \in 1 .. i : Answered(old[j])
              PROVE  old[i] \in ToSet(new)
  BY DEF AnsweredStay
<1>1. PICK r : Comes(r)
  BY ArrivesIs
<1>. DEFINE E == ToSet(arrived) \cup {r}
            segs  == Segments(arrived)
            later == Segments(arrived')
<1>2. arrived \in Seq(E) /\ r \in E /\ arrived' = Append(arrived, r) /\ Last(arrived') = r
  <2>1. arrived \in Seq(ToSet(arrived)) /\ arrived' = Append(arrived, r)
    BY <1>1 DEF Numbered, Comes
  <2>. DEFINE S == ToSet(arrived)
  <2>. HIDE DEF S
  <2>2. arrived \in Seq(S \cup {r})
    BY <2>1 DEF S
  <2>3. Last(arrived') = r
    BY <2>1 DEF Last
  <2>. QED  BY <2>1, <2>2, <2>3 DEF S
<1>3. arrived' \in Seq(E)
  BY <1>2
<1>4. /\ DOMAIN old = DOMAIN segs /\ Len(old) = Len(segs)
      /\ \A j \in DOMAIN segs : old[j] = Built(arrived, segs, j, at)
  BY <1>2, TurnsAre
<1>5. /\ DOMAIN new = DOMAIN later
      /\ \A j \in DOMAIN later : new[j] = Built(arrived', later, j, at)
  BY <1>3, TurnsAre
<1>6. segs \in Seq(Turn(E))
  BY <1>2, SegmentsType
<1>7. /\ i \in Nat \ {0} /\ i + 1 \in DOMAIN segs
      /\ \A j \in 1 .. i : j \in DOMAIN segs /\ Answered(old[j])
  <2>. HIDE DEF old, segs
  <2>1. DOMAIN segs = 1 .. Len(segs) /\ Len(segs) \in Nat
    BY <1>6
  <2>. QED  BY <1>4, <2>1
<1>8. ASSUME NEW j \in 1 .. i, NEW e \in ToSet(segs[j].events)
      PROVE  /\ e.type = "PreToolUse" => PostOf(arrived', e.id) = PostOf(arrived, e.id)
             /\ e.type \in {"PreToolUse", "PostToolUse"} => PreOf(arrived', e.id) = PreOf(arrived, e.id)
  BY <1>1, <1>7, AnsweredPaired
<1>9. \A j \in 1 .. i : \A d \in Newly(E, arrived, arrived') : d \notin ToSet(segs[j].events)
  BY <1>8 DEF Newly
<1>10. r.type # "Stop"
  BY <1>2
<1>. HIDE DEF E, at, old, new
<1>11. /\ i \in DOMAIN later /\ i + 1 \in DOMAIN later
       /\ later[i] = segs[i] /\ later[i + 1].turn_seq = segs[i + 1].turn_seq
  BY <1>2, <1>7, <1>9, <1>10, SegmentStands
<1>. HIDE DEF segs, later
<1>12. Built(arrived', later, i, at) = Built(arrived, segs, i, at)
  BY <1>6, <1>7, <1>8, <1>11, BuiltStands
<1>13. new[i] = old[i] /\ i \in DOMAIN new
  BY <1>4, <1>5, <1>7, <1>11, <1>12
<1>. QED  BY <1>13 DEF ToSet

(* A turn that another has followed and whose calls, like those of the     *)
(* turns before it, are all answered is never read differently later on,   *)
(* but for a Stop: what the materializer's settle rule counts on.          *)
THEOREM AnsweredAlwaysFinal == SpecTurns => AnsweredTurnsAreFinal
<1>1. InitTurns => Identified
  <2>. SUFFICES ASSUME arrived = <<>> PROVE Identified
    BY DEF InitTurns
  <2>1. ToSet(arrived) = {} /\ Pres = {} /\ Posts = {}
    BY DEF ToSet, Pres, Posts
  <2>2. Cardinality({}) = 0
    BY FS_EmptySet
  <2>. QED  BY <2>1, <2>2 DEF Identified
<1>. QED  BY <1>1, NumberedAlways, IdentifiedStep, AnsweredStep, PTL DEF SpecTurns, AnsweredTurnsAreFinal

-----------------------------------------------------------------------------
(* The flags of a turn's calls.                                            *)
Repeated == INSTANCE SequenceFolds WITH op <- DupStep
Retried == INSTANCE SequenceFolds WITH op <- RetryStep

(* The same of a fold of DupStep, and of RetryStep.                        *)
LEMMA RepeatedIs ==
  ASSUME NEW base, NEW calls
  PROVE  FoldLeft(DupStep, base, calls) = Repeated!Value(base, calls)
  BY Repeated!ValueUnfolded DEF Repeated!Unfolded, FoldLeft, MapThenFoldSet, Max

LEMMA RetriedIs ==
  ASSUME NEW base, NEW calls
  PROVE  FoldLeft(RetryStep, base, calls) = Retried!Value(base, calls)
  BY Retried!ValueUnfolded DEF Retried!Unfolded, FoldLeft, MapThenFoldSet, Max

Key(k) == main[k].input.key

(* What the sweep over the first n calls knows: an original of every key,  *)
(* the last of its calls while nothing was found to be repeated.           *)
DupInv(n, acc) ==
  /\ acc \in [calls : {main}, first : SUBSET (1 .. n), dups : SUBSET ((1 .. n) \X (1 .. n))]
  /\ \A p, q \in acc.first : Key(p) = Key(q) => p = q
  /\ \A p \in acc.first : Key(p) # NoKey /\ \A c \in acc.dups : c[1] # p
  /\ \A k \in 1 .. n : Key(k) # NoKey =>
       \E p \in acc.first : Key(p) = Key(k) /\ (acc.dups = {} => k <= p)
  /\ \A d \in acc.dups : d[2] < d[1] /\ Repeats(d[1], d[2]) /\ \A c \in acc.dups : c[1] # d[2]
  /\ acc.dups = {} => \A k \in 1 .. n : \A j \in 1 .. k - 1 : ~Repeats(k, j)

(* The sweep over the calls of a turn, one call at a time.                 *)
LEMMA DupStepInv ==
  ASSUME NEW n \in Nat, NEW acc, DupInv(n, acc)
  PROVE  DupInv(n + 1, DupStep(acc, n + 1))
<1>. DEFINE k == n + 1
            x == main[k].input
            prev == {j \in acc.first : Key(j) = x.key}
            new == DupStep(acc, k)
<1>1. /\ acc \in [calls : {main}, first : SUBSET (1 .. n), dups : SUBSET ((1 .. n) \X (1 .. n))]
      /\ acc.calls = main /\ acc.first \subseteq 1 .. n
      /\ acc.dups \subseteq (1 .. n) \X (1 .. n)
  BY DEF DupInv
<1>2. /\ \A p, q \in acc.first : Key(p) = Key(q) => p = q
      /\ \A p \in acc.first : Key(p) # NoKey /\ \A c \in acc.dups : c[1] # p
  BY DEF DupInv
<1>3. \A i \in 1 .. n : Key(i) # NoKey =>
        \E p \in acc.first : Key(p) = Key(i) /\ (acc.dups = {} => i <= p)
  BY DEF DupInv
<1>4. /\ \A d \in acc.dups : d[2] < d[1] /\ Repeats(d[1], d[2]) /\ \A c \in acc.dups : c[1] # d[2]
      /\ acc.dups = {} => \A i \in 1 .. n : \A j \in 1 .. i - 1 : ~Repeats(i, j)
  BY DEF DupInv
<1>5. k \in Nat /\ k \notin 1 .. n /\ 1 .. k = (1 .. n) \cup {k} /\ x.key = Key(k)
      /\ \A i \in 1 .. n : i < k
  BY DEF Key
<1>6. new = IF x.key = NoKey THEN acc
            ELSE IF prev = {} THEN [acc EXCEPT !.first = @ \cup {k}]
            ELSE IF \E p \in prev : \E j \in p + 1 .. k - 1 : Invalidates(main[j], x)
            THEN [acc EXCEPT !.first = (@ \ prev) \cup {k}]
            ELSE [acc EXCEPT !.dups = @ \cup {<<k, CHOOSE p \in prev : TRUE>>}]
  BY <1>1 DEF DupStep, Key
<1>7. Key(k) # NoKey <=> x.key # NoKey
  BY <1>5
<1>. SUFFICES DupInv(k, new)
  BY DEF new, k
<1>. HIDE DEF k, x, prev, new
<1>8. CASE x.key = NoKey
  <2>1. new = acc
    BY <1>6, <1>8
  <2>2. \A j : ~Repeats(k, j)
    BY <1>5, <1>8 DEF Repeats, Key
  <2>3. new \in [calls : {main}, first : SUBSET (1 .. k), dups : SUBSET ((1 .. k) \X (1 .. k))]
    BY <1>1, <1>5, <2>1
  <2>4. \A i \in 1 .. k : Key(i) # NoKey =>
          \E p \in new.first : Key(p) = Key(i) /\ (new.dups = {} => i <= p)
    BY <1>3, <1>5, <1>8, <2>1
  <2>5. new.dups = {} => \A i \in 1 .. k : \A j \in 1 .. i - 1 : ~Repeats(i, j)
    BY <1>4, <1>5, <2>1, <2>2
  <2>. QED  BY <1>2, <1>4, <2>1, <2>3, <2>4, <2>5 DEF DupInv
<1>9. CASE x.key # NoKey /\ prev = {}
  <2>1. new = [acc EXCEPT !.first = @ \cup {k}]
    BY <1>6, <1>9
  <2>2. /\ new.first = acc.first \cup {k} /\ new.dups = acc.dups
        /\ new \in [calls : {main}, first : SUBSET (1 .. k), dups : SUBSET ((1 .. k) \X (1 .. k))]
    BY <1>1, <1>5, <2>1
  <2>3. \A j \in 1 .. n : Key(j) # Key(k)
    BY <1>3, <1>5, <1>9 DEF prev
  <2>4. \A j \in 1 .. n : ~Repeats(k, j)
    BY <2>3 DEF Repeats, Key
  <2>5. \A p, q \in new.first : Key(p) = Key(q) => p = q
    BY <1>1, <1>2, <2>2, <2>3
  <2>6. \A p \in new.first : Key(p) # NoKey /\ \A c \in new.dups : c[1] # p
    BY <1>1, <1>2, <1>5, <1>9, <2>2
  <2>7. \A i \in 1 .. k : Key(i) # NoKey =>
          \E p \in new.first : Key(p) = Key(i) /\ (new.dups = {} => i <= p)
    BY <1>3, <1>5, <2>2
  <2>8. new.dups = {} => \A i \in 1 .. k : \A j \in 1 .. i - 1 : ~Repeats(i, j)
    BY <1>4, <1>5, <2>2, <2>4 DEF k
  <2>. QED  BY <1>4, <2>2, <2>5, <2>6, <2>7, <2>8 DEF DupInv
<1>10. ASSUME NEW p \in prev PROVE prev = {p} /\ p \in 1 .. n /\ Key(p) = Key(k)
  BY <1>1, <1>2, <1>5, <1>10 DEF prev
<1>11. CASE /\ x.key # NoKey /\ prev # {}
            /\ \E p \in prev : \E j \in p + 1 .. k - 1 : Invalidates(main[j], x)
  <2>. PICK p \in prev : \E j \in p + 1 .. k - 1 : Invalidates(main[j], x)
    BY <1>11
  <2>1. prev = {p} /\ p \in 1 .. n /\ Key(p) = Key(k)
    BY <1>10
  <2>2. new = [acc EXCEPT !.first = (@ \ prev) \cup {k}]
    BY <1>6, <1>11
  <2>3. /\ new.first = (acc.first \ {p}) \cup {k} /\ new.dups = acc.dups
        /\ new \in [calls : {main}, first : SUBSET (1 .. k), dups : SUBSET ((1 .. k) \X (1 .. k))]
    BY <1>1, <1>5, <2>1, <2>2
  <2>4. acc.dups = {} => \A j \in 1 .. n : ~Repeats(k, j)
    <3>. SUFFICES ASSUME acc.dups = {}, NEW j \in 1 .. n, Repeats(k, j) PROVE FALSE
      OBVIOUS
    <3>1. Key(j) = Key(k) /\ Key(j) # NoKey
      BY DEF Repeats, Key
    <3>2. j <= p
      <4>. PICK q \in acc.first : Key(q) = Key(j) /\ j <= q
        BY <1>3, <3>1
      <4>1. q = p
        BY <1>2, <2>1, <3>1 DEF prev
      <4>. QED  BY <4>1
    <3>3. \A i \in p + 1 .. k - 1 : i \in j + 1 .. k - 1
      BY <1>5, <2>1, <3>2
    <3>. QED  BY <3>3 DEF Repeats, x
  <2>5. \A a, b \in new.first : Key(a) = Key(b) => a = b
    <3>1. \A a \in acc.first \ {p} : Key(a) # Key(k)
      BY <1>2, <2>1 DEF prev
    <3>. QED  BY <1>2, <2>3, <3>1
  <2>6. \A a \in new.first : Key(a) # NoKey /\ \A c \in new.dups : c[1] # a
    BY <1>1, <1>2, <1>5, <1>11, <2>3
  <2>7. \A i \in 1 .. k : Key(i) # NoKey =>
          \E a \in new.first : Key(a) = Key(i) /\ (new.dups = {} => i <= a)
    <3>. SUFFICES ASSUME NEW i \in 1 .. k, Key(i) # NoKey
                  PROVE  \E a \in new.first : Key(a) = Key(i) /\ (new.dups = {} => i <= a)
      OBVIOUS
    <3>1. CASE Key(i) = Key(k)
      BY <1>5, <2>3, <3>1
    <3>2. CASE Key(i) # Key(k)
      BY <1>3, <1>5, <2>1, <2>3, <3>2
    <3>. QED  BY <3>1, <3>2
  <2>8. new.dups = {} => \A i \in 1 .. k : \A j \in 1 .. i - 1 : ~Repeats(i, j)
    BY <1>4, <1>5, <2>3, <2>4 DEF k
  <2>. QED  BY <1>4, <2>3, <2>5, <2>6, <2>7, <2>8 DEF DupInv
<1>12. CASE /\ x.key # NoKey /\ prev # {}
            /\ ~ \E p \in prev : \E j \in p + 1 .. k - 1 : Invalidates(main[j], x)
  <2>. DEFINE p == CHOOSE p \in prev : TRUE
  <2>1. p \in prev
    BY <1>12
  <2>. HIDE DEF p
  <2>2. p \in 1 .. n /\ Key(p) = Key(k) /\ p \in acc.first
    BY <1>10, <2>1 DEF prev
  <2>3. /\ new.first = acc.first /\ new.dups = acc.dups \cup {<<k, p>>}
        /\ new \in [calls : {main}, first : SUBSET (1 .. k), dups : SUBSET ((1 .. k) \X (1 .. k))]
    <3>1. new = [acc EXCEPT !.dups = @ \cup {<<k, p>>}]
      BY <1>6, <1>12 DEF p
    <3>2. new.first = acc.first /\ new.dups = acc.dups \cup {<<k, p>>} /\ new.calls = acc.calls
          /\ new \in [calls : {main}, first : SUBSET (1 .. n),
                      dups : {acc.dups \cup {<<k, p>>}}]
      BY <1>1, <3>1
    <3>3. acc.dups \cup {<<k, p>>} \in SUBSET ((1 .. k) \X (1 .. k))
      BY <1>1, <1>5, <2>2
    <3>. QED  BY <1>5, <3>2, <3>3
  <2>4. Repeats(k, p)
    BY <1>5, <1>12, <2>1, <2>2 DEF Repeats, Key, x
  <2>5. \A d \in new.dups : d[2] < d[1] /\ Repeats(d[1], d[2]) /\ \A c \in new.dups : c[1] # d[2]
    <3>1. \A d \in acc.dups : d[1] \in 1 .. n /\ d[2] \in 1 .. n
      BY <1>1
    <3>2. p < k /\ p # k
      BY <1>5, <2>2
    <3>3. \A c \in new.dups : c \in acc.dups \/ (c[1] = k /\ c[2] = p)
      BY <2>3
    <3>. QED  BY <1>2, <1>4, <1>5, <2>2, <2>4, <3>1, <3>2, <3>3
  <2>6. \A a \in new.first : Key(a) # NoKey /\ \A c \in new.dups : c[1] # a
    BY <1>1, <1>2, <1>5, <2>3
  <2>7. new.dups # {}
    BY <2>3
  <2>8. \A i \in 1 .. k : Key(i) # NoKey => \E a \in new.first : Key(a) = Key(i)
    BY <1>3, <1>5, <2>2, <2>3
  <2>. QED  BY <1>2, <2>3, <2>5, <2>6, <2>7, <2>8 DEF DupInv
<1>. QED  BY <1>8, <1>9, <1>11, <1>12

(* All calls of a turn: the sweep finds repetitions, and finds some.       *)
LEMMA DupsRepeat ==
  ASSUME NEW S, main \in Seq(S)
  PROVE  DupsAreRepeats
<1>. DEFINE First(n) == [k \in 1 .. n |-> k]
            base == [calls |-> main, first |-> {}, dups |-> {}]
            T == {n \in Nat : DupInv(n, Repeated!Value(base, First(n)))}
<1>1. 0 \in T
  <2>1. First(0) = <<>>
    OBVIOUS
  <2>2. DupInv(0, base)
    BY DEF DupInv
  <2>. HIDE DEF First, base
  <2>. QED  BY <2>1, <2>2, Repeated!ValueEmpty
<1>2. ASSUME NEW n \in T \cap Nat PROVE n + 1 \in T
  <2>1. First(n) \in Seq(Nat) /\ First(n + 1) = Append(First(n), n + 1)
    OBVIOUS
  <2>. HIDE DEF First, base
  <2>2. Repeated!Value(base, First(n + 1)) = DupStep(Repeated!Value(base, First(n)), n + 1)
    <3>1. n \in Nat /\ n + 1 \in Nat
      OBVIOUS
    <3>. HIDE DEF T
    <3>2. Repeated!Value(base, Append(First(n), n + 1)) = DupStep(Repeated!Value(base, First(n)), n + 1)
      BY <2>1, <3>1, Repeated!ValueAppend
    <3>. QED  BY <2>1, <3>2
  <2>. QED  BY <2>2, DupStepInv
<1>3. Len(main) \in T
  <2>. HIDE DEF T
  <2>. QED  BY <1>1, <1>2, Repeated!Induction
<1>. DEFINE n == Len(main)
            acc == Repeated!Value(base, First(n))
<1>4. DOMAIN main = 1 .. n /\ n \in Nat
  OBVIOUS
<1>5. Dups(main) = acc.dups
  BY <1>4, RepeatedIs DEF Dups
<1>6. DupInv(n, acc)
  BY <1>3
<1>. HIDE DEF acc, n
<1>. QED  BY <1>4, <1>5, <1>6 DEF DupInv, DupsAreRepeats

-----------------------------------------------------------------------------
Reading(k) == main[k].input.tool \in Readonly

(* The failures of a chain, whatever their number.                         *)
Linked(S) ==
  /\ \A k \in S : Failed(k)
  /\ \A j, k \in S : Key(j) = Key(k)
  /\ \A k \in S : (\E j \in S : j < k) =>
       k - 1 \in S \/ (k - 2 \in S /\ ~Failed(k - 1) /\ Reading(k - 1))

(* A chain that the sweep has in hand after n calls: its last failure was  *)
(* call n, or the one before a look at something.                          *)
InHand(n, acc, S) ==
  /\ Linked(S) /\ S # {} /\ Cardinality(S) = acc.count /\ \A k \in S : Key(k) = acc.key
  /\ IF acc.slack THEN n - 1 \in S /\ ~Failed(n) /\ Reading(n) ELSE n \in S

(* No chain that ends where the sweep is counts more than it has counted.  *)
Counts(n, acc, S) ==
  /\ Cardinality(S) < Retry
  /\ n \in S => acc.key = Key(n) /\ Cardinality(S) <= acc.count /\ ~acc.slack
  /\ n - 1 \in S /\ ~Failed(n) /\ Reading(n) =>
       acc.key = Key(n - 1) /\ Cardinality(S) <= acc.count /\ acc.slack

RetryInv(n, acc) ==
  /\ acc \in [key : {NoKey} \cup {Key(k) : k \in 1 .. n}, count : Nat,
              slack : BOOLEAN, found : BOOLEAN]
  /\ acc.found => \E S \in SUBSET (1 .. n) : Chain(S)
  /\ ~acc.found /\ acc.key # NoKey => \E S \in SUBSET (1 .. n) : InHand(n, acc, S)
  /\ ~acc.found => \A S \in SUBSET (1 .. n) : Linked(S) => Counts(n, acc, S)

(* A chain is Retry failures that are linked.                              *)
LEMMA ChainIs == \A S : Chain(S) <=> Linked(S) /\ Cardinality(S) = Retry
  BY DEF Chain, Linked, Key, Reading

(* Without its last failure a chain is a chain.                            *)
LEMMA LinkedShorter ==
  ASSUME NEW n \in Nat, NEW S \in SUBSET (1 .. n + 1), Linked(S)
  PROVE  LET T == S \ {n + 1}
         IN /\ T \in SUBSET (1 .. n) /\ Linked(T)
            /\ n + 1 \in S => Cardinality(S) = Cardinality(T) + 1
            /\ n + 1 \notin S => T = S
            /\ Cardinality(T) \in Nat
<1>. DEFINE T == S \ {n + 1}
<1>1. T \in SUBSET (1 .. n)
  OBVIOUS
<1>2. Linked(T)
  <2>1. ASSUME NEW k \in T, NEW j \in T, j < k
        PROVE  k - 1 \in T \/ (k - 2 \in T /\ ~Failed(k - 1) /\ Reading(k - 1))
    <3>1. k \in Nat /\ k # n + 1 /\ k - 1 # n + 1 /\ k - 2 # n + 1
      BY <1>1
    <3>. QED  BY <2>1, <3>1 DEF Linked
  <2>. QED  BY <2>1 DEF Linked
<1>3. IsFiniteSet(S) /\ IsFiniteSet(T) /\ Cardinality(T) \in Nat
  <2>1. IsFiniteSet(1 .. n + 1) /\ S \subseteq 1 .. n + 1 /\ T \subseteq S
    BY FS_Interval
  <2>. HIDE DEF T
  <2>. QED  BY <2>1, FS_Subset, FS_CardinalityType
<1>4. n + 1 \in S => Cardinality(S) = Cardinality(T) + 1
  <2>. SUFFICES ASSUME n + 1 \in S PROVE Cardinality(S) = Cardinality(T) + 1
    OBVIOUS
  <2>1. S = T \cup {n + 1} /\ n + 1 \notin T
    OBVIOUS
  <2>. QED  BY <1>3, <2>1, FS_AddElement
<1>. QED  BY <1>1, <1>2, <1>3, <1>4

(* One more call: the chain in hand grows, waits, or is dropped.           *)
LEMMA RetryStepInv ==
  ASSUME NEW n \in Nat, NEW acc, RetryInv(n, acc)
  PROVE  RetryInv(n + 1, RetryStep(acc, main[n + 1]))
<1>. DEFINE k == n + 1
            c == main[k]
            new == RetryStep(acc, c)
            keys == {NoKey} \cup {Key(i) : i \in 1 .. k}
<1>1. /\ acc \in [key : {NoKey} \cup {Key(i) : i \in 1 .. n}, count : Nat,
                  slack : BOOLEAN, found : BOOLEAN]
      /\ acc.count \in Nat /\ acc.slack \in BOOLEAN /\ acc.found \in BOOLEAN
  BY DEF RetryInv
<1>2. acc.found => \E S \in SUBSET (1 .. n) : Chain(S)
  BY DEF RetryInv
<1>3. ~acc.found /\ acc.key # NoKey => \E S \in SUBSET (1 .. n) : InHand(n, acc, S)
  BY DEF RetryInv
<1>4. ~acc.found => \A S \in SUBSET (1 .. n) : Linked(S) => Counts(n, acc, S)
  BY DEF RetryInv
<1>5. /\ k \in Nat /\ k \notin 1 .. n /\ 1 .. k = (1 .. n) \cup {k} /\ k - 1 = n
      /\ {Key(i) : i \in 1 .. n} \subseteq {Key(i) : i \in 1 .. k} /\ Key(k) \in keys
      /\ acc.key \in keys /\ \A i \in 1 .. n : i < k
  <2>1. k \in Nat /\ k \notin 1 .. n /\ 1 .. k = (1 .. n) \cup {k} /\ k - 1 = n
        /\ \A i \in 1 .. n : i < k
    OBVIOUS
  <2>. QED  BY <1>1, <2>1
<1>6. /\ Failed(k) <=> (c.input.key # NoKey /\ c.status = "error")
      /\ Key(k) = c.input.key /\ (Reading(k) <=> c.input.tool \in Readonly)
  BY DEF Failed, Key, Reading
<1>7. Retry \in Nat \ {0}
  BY TurnsAssumption
<1>8. \A S \in SUBSET (1 .. k) : Linked(S) =>
        LET T == S \ {k}
        IN /\ T \in SUBSET (1 .. n) /\ Linked(T) /\ Cardinality(T) \in Nat
           /\ k \in S => Cardinality(S) = Cardinality(T) + 1
           /\ k \notin S => T = S
  BY LinkedShorter
<1>9. Cardinality({k}) = 1 /\ (Failed(k) => Linked({k}))
  <2>1. Cardinality({k}) = 1
    BY FS_Singleton
  <2>2. ~(k < k)
    BY <1>5
  <2>. HIDE DEF k
  <2>. QED  BY <2>1, <2>2 DEF Linked
<1>. SUFFICES RetryInv(k, new)
  BY DEF k, new, c
<1>. HIDE DEF k, c, new
<1>10. CASE acc.found
  <2>1. new = acc
    BY <1>10 DEF new, RetryStep
  <2>2. acc \in [key : keys, count : Nat, slack : BOOLEAN, found : BOOLEAN]
    BY <1>1, <1>5
  <2>. QED  BY <1>2, <1>5, <1>10, <2>1, <2>2 DEF RetryInv
<1>11. CASE ~acc.found /\ Failed(k)
  <2>. DEFINE m == IF Key(k) = acc.key THEN acc.count + 1 ELSE 1
  <2>1. new = [key |-> Key(k), count |-> m, slack |-> FALSE, found |-> m >= Retry]
    BY <1>6, <1>11 DEF new, RetryStep
  <2>2. m \in Nat /\ m >= 1
    BY <1>1
  <2>. HIDE DEF m
  <2>3. /\ new \in [key : keys, count : Nat, slack : BOOLEAN, found : BOOLEAN]
        /\ new.key = Key(k) /\ new.count = m /\ new.slack = FALSE /\ new.found = (m >= Retry)
    BY <1>5, <1>7, <2>1, <2>2
  <2>4. PICK S \in SUBSET (1 .. k) : InHand(k, new, S)
    <3>1. CASE Key(k) = acc.key
      <4>1. Key(k) # NoKey
        BY <1>6, <1>11
      <4>2. PICK R \in SUBSET (1 .. n) : InHand(n, acc, R)
        BY <1>3, <1>11, <3>1, <4>1
      <4>. DEFINE S == R \cup {k}
      <4>3. Cardinality(S) = m
        <5>1. IsFiniteSet(R) /\ k \notin R
          <6>1. IsFiniteSet(1 .. n) /\ R \subseteq 1 .. n
            BY FS_Interval
          <6>. QED  BY <1>5, <6>1, FS_Subset
        <5>2. Cardinality(S) = Cardinality(R) + 1
          BY <5>1, FS_AddElement
        <5>. QED  BY <3>1, <4>2, <5>2 DEF InHand, m
      <4>4. Linked(R) /\ \A i \in R : Key(i) = Key(k)
        BY <3>1, <4>2 DEF InHand
      <4>5. k - 1 \in S \/ (k - 2 \in S /\ ~Failed(k - 1) /\ Reading(k - 1))
        <5>1. k - 2 = n - 1
          BY DEF k
        <5>. QED  BY <1>5, <4>2, <5>1 DEF InHand
      <4>6. Linked(S)
        <5>1. \A i \in S : Failed(i) /\ Key(i) = Key(k)
          BY <1>11, <4>4 DEF Linked
        <5>2. ASSUME NEW i \in S, NEW j \in S, j < i
              PROVE  i - 1 \in S \/ (i - 2 \in S /\ ~Failed(i - 1) /\ Reading(i - 1))
          <6>1. CASE i = k
            BY <4>5, <6>1
          <6>2. CASE i # k
            <7>1. i \in R /\ j \in R
              BY <1>5, <5>2, <6>2
            <7>. QED  BY <4>4, <5>2, <7>1 DEF Linked
          <6>. QED  BY <6>1, <6>2
        <5>. QED  BY <5>1, <5>2 DEF Linked
      <4>7. S \in SUBSET (1 .. k) /\ k \in S /\ \A i \in S : Key(i) = Key(k)
        BY <1>5, <4>4
      <4>. HIDE DEF S
      <4>. QED  BY <2>3, <4>3, <4>6, <4>7 DEF InHand
    <3>2. CASE Key(k) # acc.key
      <4>1. m = 1 /\ {k} \in SUBSET (1 .. k)
        BY <1>5, <3>2 DEF m
      <4>. QED  BY <1>9, <1>11, <2>3, <4>1 DEF InHand
    <3>. QED  BY <3>1, <3>2
  <2>5. Linked(S) /\ Cardinality(S) = m
    BY <2>3, <2>4 DEF InHand
  <2>6. new.found => Chain(S)
    <3>. SUFFICES ASSUME m >= Retry PROVE Cardinality(S) = Retry
      BY <2>3, <2>5, ChainIs
    <3>. DEFINE T == S \ {k}
    <3>1. T \in SUBSET (1 .. n) /\ Linked(T) /\ Cardinality(T) \in Nat /\ Cardinality(S) = Cardinality(T) + 1
      <4>1. k \in S
        BY <2>3, <2>4 DEF InHand
      <4>. QED  BY <1>8, <2>5, <4>1
    <3>2. Cardinality(T) < Retry
      BY <1>4, <1>11, <3>1 DEF Counts
    <3>. HIDE DEF T
    <3>. QED  BY <1>7, <2>2, <2>5, <3>1, <3>2
  <2>7. ASSUME ~new.found, NEW R \in SUBSET (1 .. k), Linked(R) PROVE Counts(k, new, R)
    <3>. DEFINE T == R \ {k}
    <3>1. /\ T \in SUBSET (1 .. n) /\ Linked(T) /\ Cardinality(T) \in Nat /\ (k \notin R => T = R)
          /\ k \in R => Cardinality(R) = Cardinality(T) + 1
      BY <1>8, <2>7
    <3>2. Counts(n, acc, T)
      BY <1>4, <1>11, <3>1
    <3>3. k \in R => Cardinality(R) <= m
      <4>. SUFFICES ASSUME k \in R PROVE Cardinality(R) <= m
        OBVIOUS
      <4>1. CASE T = {}
        <5>1. Cardinality(T) = 0
          <6>. HIDE DEF T
          <6>. QED  BY <4>1, FS_EmptySet
        <5>. QED  BY <2>2, <3>1, <5>1
      <4>2. CASE T # {}
        <5>1. PICK j \in T : j < k
          BY <1>5, <3>1, <4>2
        <5>2. k - 1 \in R \/ (k - 2 \in R /\ ~Failed(k - 1) /\ Reading(k - 1))
          BY <2>7, <5>1 DEF Linked
        <5>3. n \in T \/ (n - 1 \in T /\ ~Failed(n) /\ Reading(n))
          <6>1. k - 1 = n /\ k - 2 = n - 1 /\ n # k /\ n - 1 # k
            BY DEF k
          <6>. QED  BY <5>2, <6>1
        <5>4. \E i \in T : acc.key = Key(i) /\ Cardinality(T) <= acc.count
          BY <3>2, <5>3 DEF Counts
        <5>5. acc.key = Key(k)
          BY <2>7, <5>4 DEF Linked
        <5>. QED  BY <1>1, <3>1, <5>4, <5>5 DEF m
      <4>. QED  BY <4>1, <4>2
    <3>4. Cardinality(R) < Retry
      <4>1. m < Retry
        BY <1>7, <2>2, <2>3, <2>7
      <4>2. CASE k \in R
        BY <1>7, <2>2, <3>1, <3>3, <4>1, <4>2
      <4>3. CASE k \notin R
        BY <3>1, <3>2, <4>3 DEF Counts
      <4>. QED  BY <4>2, <4>3
    <3>. QED  BY <1>11, <2>3, <3>3, <3>4 DEF Counts
  <2>. QED  BY <2>3, <2>4, <2>6, <2>7 DEF RetryInv
<1>12. ASSUME ~Failed(k), NEW R \in SUBSET (1 .. k), Linked(R) PROVE R \in SUBSET (1 .. n) /\ k \notin R
  BY <1>5, <1>12 DEF Linked
<1>13. CASE ~acc.found /\ ~Failed(k) /\ acc.key # NoKey /\ Reading(k) /\ ~acc.slack
  <2>1. new = [acc EXCEPT !.slack = TRUE]
    BY <1>6, <1>13 DEF new, RetryStep
  <2>2. /\ new \in [key : keys, count : Nat, slack : BOOLEAN, found : BOOLEAN]
        /\ new.key = acc.key /\ new.count = acc.count /\ new.slack = TRUE /\ new.found = acc.found
    BY <1>1, <1>5, <2>1
  <2>3. \E S \in SUBSET (1 .. k) : InHand(k, new, S)
    <3>1. PICK S \in SUBSET (1 .. n) : InHand(n, acc, S)
      BY <1>3, <1>13
    <3>2. S \in SUBSET (1 .. k)
      BY <1>5
    <3>. QED  BY <1>5, <1>13, <2>2, <3>1, <3>2 DEF InHand
  <2>4. ASSUME NEW R \in SUBSET (1 .. k), Linked(R) PROVE Counts(k, new, R)
    <3>1. R \in SUBSET (1 .. n) /\ k \notin R
      BY <1>12, <1>13, <2>4
    <3>2. Counts(n, acc, R)
      BY <1>4, <1>13, <2>4, <3>1
    <3>. QED  BY <1>5, <2>2, <3>1, <3>2 DEF Counts
  <2>. QED  BY <1>13, <2>2, <2>3, <2>4 DEF RetryInv
<1>14. CASE ~acc.found /\ ~Failed(k) /\ ~(acc.key # NoKey /\ Reading(k) /\ ~acc.slack)
  <2>1. new = [key |-> NoKey, count |-> 0, slack |-> FALSE, found |-> FALSE]
    BY <1>6, <1>14 DEF new, RetryStep
  <2>2. /\ new \in [key : keys, count : Nat, slack : BOOLEAN, found : BOOLEAN]
        /\ new.key = NoKey /\ new.found = FALSE
    BY <2>1
  <2>3. ASSUME NEW R \in SUBSET (1 .. k), Linked(R) PROVE Counts(k, new, R)
    <3>1. R \in SUBSET (1 .. n) /\ k \notin R
      BY <1>12, <1>14, <2>3
    <3>2. Counts(n, acc, R)
      BY <1>4, <1>14, <2>3, <3>1
    <3>3. n \in R => Key(n) # NoKey
      BY <2>3 DEF Linked, Failed, Key
    <3>. QED  BY <1>5, <1>14, <3>1, <3>2, <3>3 DEF Counts
  <2>. QED  BY <2>2, <2>3 DEF RetryInv
<1>. QED  BY <1>10, <1>11, <1>13, <1>14

(* All calls of a turn: the sweep finds a chain exactly when there is one. *)
LEMMA RetriesChain ==
  ASSUME main \in Seq(ToSet(main))
  PROVE  RetriesAreChains
<1>. DEFINE Done(n) == SubSeq(main, 1, n)
            base == [key |-> NoKey, count |-> 0, slack |-> FALSE, found |-> FALSE]
            T == {n \in Nat : n <= Len(main) => RetryInv(n, Retried!Value(base, Done(n)))}
            S == ToSet(main)
<1>0. DOMAIN main = 1 .. Len(main) /\ Len(main) \in Nat /\ main \in Seq(S)
  OBVIOUS
<1>. HIDE DEF S
<1>1. 0 \in T
  <2>1. Done(0) = <<>>
    OBVIOUS
  <2>2. RetryInv(0, base)
    <3>1. \A R \in SUBSET (1 .. 0) : R = {} /\ Cardinality(R) = 0
      <4>1. \A R \in SUBSET (1 .. 0) : R = {}
        OBVIOUS
      <4>2. Cardinality({}) = 0
        BY FS_EmptySet
      <4>. QED  BY <4>1, <4>2
    <3>2. 0 < Retry
      BY TurnsAssumption
    <3>. QED  BY <3>1, <3>2 DEF RetryInv, Counts
  <2>. HIDE DEF Done, base
  <2>. QED  BY <2>1, <2>2, Retried!ValueEmpty
<1>2. ASSUME NEW n \in T \cap Nat PROVE n + 1 \in T
  <2>. SUFFICES ASSUME n + 1 <= Len(main)
                PROVE  RetryInv(n + 1, Retried!Value(base, Done(n + 1)))
    OBVIOUS
  <2>1. /\ Done(n) \in Seq(S) /\ main[n + 1] \in S /\ Done(n + 1) = Append(Done(n), main[n + 1])
        /\ n \in Nat /\ n <= Len(main)
    BY <1>0
  <2>2. RetryInv(n, Retried!Value(base, Done(n)))
    BY <2>1
  <2>. HIDE DEF Done, base, T
  <2>3. Retried!Value(base, Done(n + 1)) = RetryStep(Retried!Value(base, Done(n)), main[n + 1])
    <3>1. Retried!Value(base, Append(Done(n), main[n + 1]))
            = RetryStep(Retried!Value(base, Done(n)), main[n + 1])
      BY <2>1, Retried!ValueAppend
    <3>. QED  BY <2>1, <3>1
  <2>. QED  BY <2>1, <2>2, <2>3, RetryStepInv
<1>3. Len(main) \in T
  <2>. HIDE DEF T
  <2>. QED  BY <1>0, <1>1, <1>2, Retried!Induction
<1>. DEFINE n == Len(main)
            acc == Retried!Value(base, main)
<1>4. Done(n) = main
  BY <1>0
<1>5. RetryInv(n, acc)
  <2>1. RetryInv(n, Retried!Value(base, Done(n)))
    BY <1>0, <1>3
  <2>. HIDE DEF Done, base
  <2>. QED  BY <1>4, <2>1
<1>6. Retries(main) = acc.found
  BY RetriedIs DEF Retries
<1>. HIDE DEF acc, n
<1>7. acc.found <=> \E R \in SUBSET (1 .. n) : Chain(R)
  <2>1. acc.found \in BOOLEAN /\ Retry \in Nat
    BY <1>5, TurnsAssumption DEF RetryInv
  <2>2. acc.found => \E R \in SUBSET (1 .. n) : Chain(R)
    BY <1>5 DEF RetryInv
  <2>3. ASSUME ~acc.found, NEW R \in SUBSET (1 .. n), Chain(R) PROVE FALSE
    <3>1. Counts(n, acc, R)
      BY <1>5, <2>3, ChainIs DEF RetryInv
    <3>. QED  BY <2>1, <2>3, <3>1 DEF Counts, Chain
  <2>. QED  BY <2>1, <2>2, <2>3
<1>. QED  BY <1>0, <1>6, <1>7 DEF RetriesAreChains, n

-----------------------------------------------------------------------------
(* A finite set has a part of every smaller size.                          *)
LEMMA PartOfSize ==
  ASSUME NEW F, IsFiniteSet(F), NEW n \in Nat, n <= Cardinality(F)
  PROVE  \E S \in SUBSET F : Cardinality(S) = n
<1>. DEFINE T == {m \in Nat : m <= Cardinality(F) => \E S \in SUBSET F : Cardinality(S) = m}
<1>1. 0 \in T
  BY FS_EmptySet
<1>2. ASSUME NEW m \in T \cap Nat PROVE m + 1 \in T
  <2>. SUFFICES ASSUME m + 1 <= Cardinality(F) PROVE \E S \in SUBSET F : Cardinality(S) = m + 1
    OBVIOUS
  <2>1. Cardinality(F) \in Nat
    BY FS_CardinalityType
  <2>2. PICK S \in SUBSET F : Cardinality(S) = m
    BY <2>1
  <2>3. PICK x \in F : x \notin S
    <3>1. S # F
      BY <2>1, <2>2
    <3>. QED  BY <3>1
  <2>4. IsFiniteSet(S)
    BY FS_Subset
  <2>5. Cardinality(S \cup {x}) = m + 1
    BY <2>2, <2>3, <2>4, FS_AddElement
  <2>. QED  BY <2>5
<1>3. n \in T
  <2>. HIDE DEF T
  <2>. QED  BY <1>1, <1>2, Retried!Induction
<1>. QED  BY <1>3

(* What the calls of MCTurns are about.                                    *)
Laid == main \in Seq(ToSet(main)) /\ \A k \in DOMAIN main : main[k].input \in Inputs

(* The reads among them are of one file, and of some of its lines.         *)
LEMMA InputsRead ==
  ASSUME NEW x \in Inputs, x.tool = "Read"
  PROVE  x.file = "f" /\ x.from \in Nat /\ x.to \in Nat /\ x.from < x.to
<1>1. \/ x = Input("Read", 1, "f", 0, 2) \/ x = Input("Read", 2, "f", 1, 3)
      \/ x = Input("Edit", 3, "f", 0, 0) \/ x = Input("Grep", 4, "", 0, 0)
      \/ x = Input("Bash", 5, "", 0, 0) \/ x = Input("Read", NoKey, "f", 2, 4)
  BY DEF Inputs
<1>2. /\ x # Input("Edit", 3, "f", 0, 0) /\ x # Input("Grep", 4, "", 0, 0)
      /\ x # Input("Bash", 5, "", 0, 0)
  <2>1. /\ Input("Edit", 3, "f", 0, 0).tool = "Edit" /\ Input("Grep", 4, "", 0, 0).tool = "Grep"
        /\ Input("Bash", 5, "", 0, 0).tool = "Bash"
    BY DEF Input
  <2>2. x.tool # "Edit" /\ x.tool # "Grep" /\ x.tool # "Bash"
    OBVIOUS
  <2>. QED  BY <2>1, <2>2, Zenon
<1>3. CASE x = Input("Read", 1, "f", 0, 2) \/ x = Input("Read", 2, "f", 1, 3)
  BY <1>3 DEF Input
<1>4. CASE x = Input("Read", NoKey, "f", 2, 4)
  BY <1>4 DEF Input
<1>. QED  BY <1>1, <1>2, <1>3, <1>4

(* Reads that overlap others are counted, and nothing else.                *)
LEMMA ReadsOverlap ==
  ASSUME Laid
  PROVE  RereadsOverlap
<1>. DEFINE n == Len(main)
            In(k) == main[k].input
            Reads == {k \in 1 .. n : In(k).tool = "Read"}
            Meets(j, k) == j # k /\ In(j).from < In(k).to /\ In(k).from < In(j).to
            Twice == {j \in Reads : \E k \in Reads : Meets(j, k)}
            Of(file) == {k \in DOMAIN main : main[k].input.tool = "Read" /\ main[k].input.file = file}
            Again(file) == {j \in Of(file) : \E k \in Of(file) : Meets(j, k)}
<1>1. DOMAIN main = 1 .. n /\ n \in Nat /\ \A k \in 1 .. n : In(k) \in Inputs /\ main[k] \in ToSet(main)
  BY DEF Laid, ToSet
<1>2. \A k \in Reads : /\ In(k).file = "f" /\ In(k).from \in Nat /\ In(k).to \in Nat
                       /\ In(k).from < In(k).to
  BY <1>1, InputsRead
<1>3. Reread \in Nat \ {0}
  BY TurnsAssumption
<1>4. Of("f") = Reads
  BY <1>1, <1>2
<1>5. \A file : file # "f" => Of(file) = {}
  BY <1>1, <1>2
<1>6. Rereads(main) <=> \E file \in {c.input.file : c \in ToSet(main)} \ {""} :
                          Cardinality(Again(file)) >= Reread
  BY DEF Rereads
<1>7. Again("f") = Twice
  BY <1>4
<1>8. \A file : file # "f" => Again(file) = {}
  BY <1>5
<1>9. IsFiniteSet(Twice) /\ Cardinality(Twice) \in Nat
  <2>1. IsFiniteSet(1 .. n) /\ Twice \subseteq 1 .. n
    BY <1>1, FS_Interval
  <2>. HIDE DEF Twice
  <2>. QED  BY <2>1, FS_Subset, FS_CardinalityType
<1>10. Rereads(main) <=> Cardinality(Twice) >= Reread
  <2>1. ASSUME Rereads(main) PROVE Cardinality(Twice) >= Reread
    <3>. HIDE DEF Again, Twice
    <3>1. PICK file : Cardinality(Again(file)) >= Reread
      BY <1>6, <2>1
    <3>2. Cardinality({}) = 0
      BY FS_EmptySet
    <3>3. file = "f"
      BY <1>3, <1>8, <3>1, <3>2
    <3>. QED  BY <1>7, <3>1, <3>3
  <2>2. ASSUME Cardinality(Twice) >= Reread PROVE Rereads(main)
    <3>1. Twice # {}
      <4>1. Cardinality({}) = 0
        BY FS_EmptySet
      <4>. HIDE DEF Twice
      <4>. QED  BY <1>3, <2>2, <4>1
    <3>2. PICK k \in Reads : TRUE
      BY <3>1
    <3>3. "f" \in {c.input.file : c \in ToSet(main)} \ {""}
      BY <1>1, <1>2, <3>2
    <3>. HIDE DEF Again, Twice
    <3>. QED  BY <1>6, <1>7, <2>2, <3>3
  <2>. QED  BY <2>1, <2>2
<1>11. \A j, k \in Reads :
         (In(j).from .. In(j).to - 1) \cap (In(k).from .. In(k).to - 1) # {}
           <=> In(j).from < In(k).to /\ In(k).from < In(j).to
  <2>. SUFFICES ASSUME NEW a \in Nat, NEW b \in Nat, NEW c \in Nat, NEW d \in Nat, a < b, c < d
                PROVE  (a .. b - 1) \cap (c .. d - 1) # {} <=> a < d /\ c < b
    BY <1>2
  <2>1. a < d /\ c < b => a \in c .. d - 1 \/ c \in a .. b - 1
    OBVIOUS
  <2>2. a \in a .. b - 1 /\ c \in c .. d - 1
    OBVIOUS
  <2>. QED  BY <2>1, <2>2
<1>12. ASSUME NEW S \in SUBSET Reads
       PROVE  (\A k \in S : \E j \in DOMAIN main \ {k} :
                 /\ main[j].input.tool = "Read" /\ main[j].input.file = main[k].input.file
                 /\ (main[j].input.from .. main[j].input.to - 1)
                      \cap (main[k].input.from .. main[k].input.to - 1) # {})
              <=> S \subseteq Twice
  <2>1. ASSUME NEW k \in Reads
        PROVE  (\E j \in DOMAIN main \ {k} :
                  /\ main[j].input.tool = "Read" /\ main[j].input.file = main[k].input.file
                  /\ (main[j].input.from .. main[j].input.to - 1)
                       \cap (main[k].input.from .. main[k].input.to - 1) # {})
               <=> \E j \in Reads : Meets(j, k)
    <3>1. ASSUME NEW j \in DOMAIN main \ {k}, main[j].input.tool = "Read",
                 (main[j].input.from .. main[j].input.to - 1)
                   \cap (main[k].input.from .. main[k].input.to - 1) # {}
          PROVE  j \in Reads /\ Meets(j, k)
      BY <1>1, <1>11, <3>1
    <3>2. ASSUME NEW j \in Reads, Meets(j, k)
          PROVE  /\ j \in DOMAIN main \ {k} /\ main[j].input.tool = "Read"
                 /\ main[j].input.file = main[k].input.file
                 /\ (main[j].input.from .. main[j].input.to - 1)
                      \cap (main[k].input.from .. main[k].input.to - 1) # {}
      <4>1. j \in DOMAIN main \ {k} /\ main[j].input.tool = "Read"
        BY <1>1, <3>2
      <4>2. main[j].input.file = main[k].input.file
        BY <1>2
      <4>. QED  BY <1>11, <3>2, <4>1, <4>2
    <3>. QED  BY <3>1, <3>2
  <2>. QED  BY <2>1
<1>13. Reads = {k \in DOMAIN main : main[k].input.tool = "Read"} /\ Twice \subseteq Reads
  BY <1>1
<1>14. Cardinality(Twice) >= Reread
         <=> \E S \in SUBSET {k \in DOMAIN main : main[k].input.tool = "Read"} :
               Cardinality(S) = Reread /\ S \subseteq Twice
  <2>1. ASSUME Cardinality(Twice) >= Reread
        PROVE  \E S \in SUBSET Twice : Cardinality(S) = Reread
    <3>. HIDE DEF Twice
    <3>. QED  BY <1>3, <1>9, <2>1, PartOfSize
  <2>2. ASSUME NEW S \in SUBSET Twice PROVE Cardinality(S) <= Cardinality(Twice)
    BY <1>9, FS_Subset
  <2>3. \A S \in SUBSET Twice : Cardinality(S) = Reread => Cardinality(Twice) >= Reread
    BY <1>3, <1>9, <2>2
  <2>. HIDE DEF Twice, Reads
  <2>. QED  BY <1>13, <2>1, <2>3
<1>. HIDE DEF Twice
<1>. QED  BY <1>10, <1>12, <1>13, <1>14 DEF RereadsOverlap

(* A turn's calls stay so with every call.                                 *)
LEMMA LaidStep == Laid /\ [NextTurns]_turnVars => Laid'
<1>. SUFFICES ASSUME Laid, NEW c, c.input \in Inputs, main' = Append(main, c) PROVE Laid'
  <2>1. CASE UNCHANGED main
    BY <2>1 DEF Laid, Inputs, Input
  <2>2. CASE Called
    <3>1. PICK input \in Inputs, status \in {"ok", "error"} :
            main' = Append(main, [id |-> Len(main) + 1, seq |-> Len(main) + 1, agent |-> FALSE,
                                  at |-> Len(main), post |-> {[at |-> Len(main)]}, tail |-> FALSE,
                                  status |-> status, input |-> input])
      BY <2>2 DEF Called
    <3>. QED  BY <3>1
  <2>. QED  BY <2>1, <2>2 DEF NextTurns, Arrives, turnVars
<1>. DEFINE S == ToSet(main) \cup {c}
            n == Len(main)
<1>1. main \in Seq(S) /\ c \in S
  BY DEF Laid
<1>. HIDE DEF S
<1>2. /\ n \in Nat /\ DOMAIN main = 1 .. n
      /\ Append(main, c) \in Seq(S) /\ DOMAIN Append(main, c) = 1 .. n + 1
      /\ \A i \in 1 .. n : Append(main, c)[i] = main[i]
      /\ Append(main, c)[n + 1] = c
  BY <1>1
<1>3. \A i \in 1 .. n + 1 : i = n + 1 \/ i \in 1 .. n
  BY <1>2
<1>4. main' \in Seq(ToSet(main'))
  BY <1>2, SeqOfOwn
<1>. QED  BY <1>2, <1>3, <1>4 DEF Laid, Inputs, Input

(* The flags accuse what the catalogue says they accuse, however many      *)
(* calls a turn makes.                                                     *)
THEOREM FlagsAlwaysDocumented == SpecTurns => []FlagsAsDocumented
<1>1. InitTurns => Laid
  BY DEF InitTurns, Laid, ToSet
<1>2. Laid => FlagsAsDocumented
  BY DupsRepeat, RetriesChain, ReadsOverlap DEF Laid, FlagsAsDocumented
<1>. QED  BY <1>1, <1>2, LaidStep, PTL DEF SpecTurns

-----------------------------------------------------------------------------
(* The time split of a turn.                                               *)
Swept == INSTANCE SequenceFolds WITH op <- SweepNext
Ordered == INSTANCE SequenceFolds WITH op <- PutByStart
Summed == INSTANCE SequenceFolds WITH op <- Plus
Laned == INSTANCE SequenceFolds WITH op <- MainNext

(* The same of the folds of the time split.                                *)
LEMMA SweptIs ==
  ASSUME NEW base, NEW spans
  PROVE  FoldLeft(SweepNext, base, spans) = Swept!Value(base, spans)
  BY Swept!ValueUnfolded DEF Swept!Unfolded, FoldLeft, MapThenFoldSet, Max

LEMMA OrderedIs ==
  ASSUME NEW base, NEW spans
  PROVE  FoldLeft(PutByStart, base, spans) = Ordered!Value(base, spans)
  BY Ordered!ValueUnfolded DEF Ordered!Unfolded, FoldLeft, MapThenFoldSet, Max

LEMMA SummedIs ==
  ASSUME NEW base, NEW ms
  PROVE  FoldLeft(Plus, base, ms) = Summed!Value(base, ms)
  BY Summed!ValueUnfolded DEF Summed!Unfolded, FoldLeft, MapThenFoldSet, Max

LEMMA LanedIs ==
  ASSUME NEW base, NEW calls
  PROVE  FoldLeft(MainNext, base, calls) = Laned!Value(base, calls)
  BY Laned!ValueUnfolded DEF Laned!Unfolded, FoldLeft, MapThenFoldSet, Max

(* Intervals that are not empty; the instants that some cover.             *)
Instants(x) == x[1] .. x[2] - 1
Spans == {x \in Int \X Int : x[1] < x[2]}
Cover(spans) == UNION {Instants(x) : x \in ToSet(spans)}
ByStart(spans) == \A i, j \in DOMAIN spans : i < j => spans[i][1] <= spans[j][1]

(* How many instants an interval has.                                      *)
LEMMA SpanSize ==
  ASSUME NEW x \in Int \X Int
  PROVE  /\ IsFiniteSet(Instants(x))
         /\ x[1] <= x[2] => Cardinality(Instants(x)) = x[2] - x[1]
         /\ Instants(x) \subseteq Int
<1>. DEFINE a == x[1]
            b == x[2] - 1
<1>1. a \in Int /\ b \in Int
  OBVIOUS
<1>2. IsFiniteSet(a .. b) /\ Cardinality(a .. b) = IF a > b THEN 0 ELSE b - a + 1
  BY <1>1, FS_Interval
<1>. QED  BY <1>1, <1>2 DEF Instants

(* What one interval more covers.                                          *)
LEMMA CoverMore ==
  ASSUME NEW S, NEW s \in Seq(S), NEW x \in S
  PROVE  Cover(Append(s, x)) = Cover(s) \cup Instants(x)
<1>1. ToSet(Append(s, x)) = ToSet(s) \cup {x}
  BY AppendSet
<1>. QED  BY <1>1 DEF Cover

(* What the sweep knows after the intervals of u: what they cover, but for *)
(* the open one, ends before the open one begins.                          *)
Measured(u, acc) ==
  /\ acc = [total |-> acc.total, open |-> acc.open] /\ acc.total \in Nat
  /\ u = <<>> => acc.open = <<>> /\ acc.total = 0
  /\ u # <<>> =>
       /\ acc.open \in Spans /\ \E y \in ToSet(u) : y[1] = acc.open[1]
       /\ \E P \in SUBSET Int : /\ IsFiniteSet(P) /\ Cardinality(P) = acc.total
                                /\ \A p \in P : p < acc.open[1]
                                /\ Cover(u) = P \cup Instants(acc.open)

(* It still knows it after the next interval by start.                     *)
LEMMA MeasuredStep ==
  ASSUME NEW u \in Seq(Spans), NEW x \in Spans, \A y \in ToSet(u) : y[1] <= x[1],
         NEW acc, Measured(u, acc)
  PROVE  Measured(Append(u, x), SweepNext(acc, x))
<1>. DEFINE a == Append(u, x)
            new == SweepNext(acc, x)
<1>1. a # <<>> /\ ToSet(a) = ToSet(u) \cup {x} /\ Cover(a) = Cover(u) \cup Instants(x)
  BY AppendSet, CoverMore
<1>2. x \in Int \X Int /\ x[1] < x[2]
  BY DEF Spans
<1>. HIDE DEF a
<1>3. CASE u = <<>>
  <2>1. acc.open = <<>> /\ acc.total = 0 /\ Cover(u) = {}
    BY <1>3 DEF Measured, Cover, ToSet
  <2>2. new = [total |-> 0, open |-> x]
    BY <2>1 DEF SweepNext
  <2>3. IsFiniteSet({}) /\ Cardinality({}) = 0
    BY FS_EmptySet
  <2>4. /\ new.open = x /\ new.total = 0 /\ new = [total |-> new.total, open |-> new.open]
        /\ x \in ToSet(a)
    BY <1>1, <2>2
  <2>. HIDE DEF new
  <2>5. /\ {} \in SUBSET Int /\ \A p \in {} : p < new.open[1]
        /\ Cover(a) = {} \cup Instants(new.open)
    BY <1>1, <2>1, <2>4
  <2>6. new.open \in Spans /\ \E y \in ToSet(a) : y[1] = new.open[1]
    BY <2>4
  <2>7. Measured(a, new)
    BY <1>1, <2>3, <2>4, <2>5, <2>6 DEF Measured
  <2>. QED  BY <2>7 DEF a, new
<1>4. CASE u # <<>>
  <2>. DEFINE o == acc.open
              r == acc.total
  <2>1. o \in Spans /\ r \in Nat /\ \E y \in ToSet(u) : y[1] = o[1]
    BY <1>4 DEF Measured
  <2>2. PICK P \in SUBSET Int : /\ IsFiniteSet(P) /\ Cardinality(P) = r
                                /\ \A p \in P : p < o[1]
                                /\ Cover(u) = P \cup Instants(o)
    BY <1>4 DEF Measured
  <2>3. o \in Int \X Int /\ o[1] < o[2] /\ o[1] <= x[1] /\ o # <<>>
    BY <2>1 DEF Spans
  <2>. HIDE DEF o, r
  <2>4. CASE x[1] > o[2]
    <3>. DEFINE Q == P \cup Instants(o)
    <3>1. new = [total |-> r + o[2] - o[1], open |-> x]
      BY <2>3, <2>4 DEF SweepNext, o, r
    <3>2. IsFiniteSet(Instants(o)) /\ Cardinality(Instants(o)) = o[2] - o[1]
          /\ Instants(o) \subseteq Int
      BY <2>3, SpanSize
    <3>3. P \cap Instants(o) = {}
      BY <2>2, <2>3 DEF Instants
    <3>4. IsFiniteSet(Q) /\ Cardinality(Q) = r + (o[2] - o[1]) - 0
      <4>1. Cardinality({}) = 0
        BY FS_EmptySet
      <4>. QED  BY <2>2, <3>2, <3>3, <4>1, FS_Union
    <3>5. \A p \in Q : p < x[1]
      BY <1>2, <2>2, <2>3, <2>4 DEF Instants
    <3>6. Q \in SUBSET Int /\ Cover(a) = Q \cup Instants(x)
      BY <1>1, <2>2, <3>2
    <3>. HIDE DEF Q
    <3>7. r + (o[2] - o[1]) - 0 = r + o[2] - o[1] /\ r + o[2] - o[1] \in Nat
      BY <2>1, <2>3
    <3>8. /\ new.open = x /\ new.total = r + o[2] - o[1]
          /\ new = [total |-> new.total, open |-> new.open]
      BY <3>1
    <3>9. x \in ToSet(a)
      BY <1>1
    <3>. HIDE DEF new
    <3>10. new.open \in Spans /\ \E y \in ToSet(a) : y[1] = new.open[1]
      BY <3>8, <3>9
    <3>11. /\ IsFiniteSet(Q) /\ Cardinality(Q) = new.total
           /\ \A p \in Q : p < new.open[1]
           /\ Cover(a) = Q \cup Instants(new.open)
      BY <3>4, <3>5, <3>6, <3>7, <3>8
    <3>12. Measured(a, new)
      BY <1>1, <3>6, <3>7, <3>8, <3>10, <3>11 DEF Measured
    <3>. QED  BY <3>12 DEF a, new
  <2>5. CASE ~(x[1] > o[2])
    <3>. DEFINE e == Larger(o[2], x[2])
                n == <<o[1], e>>
    <3>1. new = [total |-> r, open |-> n]
      BY <2>3, <2>5 DEF SweepNext, o, r
    <3>2. e \in Int /\ o[2] <= e /\ x[2] <= e /\ (e = o[2] \/ e = x[2])
      BY <1>2, <2>3 DEF Larger
    <3>. HIDE DEF e
    <3>3. n \in Spans /\ n[1] = o[1] /\ n[2] = e
      BY <2>3, <3>2 DEF Spans
    <3>4. Instants(o) \cup Instants(x) = Instants(n)
      <4>1. Instants(n) = o[1] .. e - 1 /\ Instants(o) = o[1] .. o[2] - 1 /\ Instants(x) = x[1] .. x[2] - 1
        BY <3>3 DEF Instants
      <4>2. o[1] \in Int /\ o[2] \in Int /\ x[1] \in Int /\ x[2] \in Int
        BY <1>2, <2>3
      <4>. QED  BY <1>2, <2>3, <2>5, <3>2, <4>1, <4>2
    <3>. HIDE DEF n
    <3>5. /\ new.open = n /\ new.total = r /\ new = [total |-> new.total, open |-> new.open]
      BY <3>1
    <3>. HIDE DEF new
    <3>6. \E y \in ToSet(a) : y[1] = new.open[1]
      BY <1>1, <2>1, <3>3, <3>5
    <3>7. /\ \A p \in P : p < new.open[1]
          /\ Cover(a) = P \cup Instants(new.open)
      BY <1>1, <2>2, <3>3, <3>4, <3>5
    <3>8. Measured(a, new)
      BY <1>1, <2>1, <2>2, <3>3, <3>5, <3>6, <3>7 DEF Measured
    <3>. QED  BY <3>8 DEF a, new
  <2>. QED  BY <2>4, <2>5
<1>. QED  BY <1>3, <1>4

(* One sweep over intervals in the order of their starts measures them.    *)
LEMMA SweepMeasures ==
  ASSUME NEW spans \in Seq(Spans), ByStart(spans)
  PROVE  LET sweep == FoldLeft(SweepNext, [total |-> 0, open |-> <<>>], spans)
         IN /\ IsFiniteSet(Cover(spans))
            /\ Cardinality(Cover(spans))
                 = IF sweep.open = <<>> THEN 0 ELSE sweep.total + sweep.open[2] - sweep.open[1]
<1>. DEFINE base == [total |-> 0, open |-> <<>>]
            At(u) == Swept!Value(base, u)
            T == {u \in Seq(Spans) : ByStart(u) => Measured(u, At(u))}
<1>1. <<>> \in T
  <2>1. Measured(<<>>, base)
    BY DEF Measured
  <2>2. At(<<>>) = base
    BY Swept!ValueEmpty
  <2>. HIDE DEF At
  <2>. QED  BY <2>1, <2>2
<1>2. ASSUME NEW u \in T \cap Seq(Spans), NEW x \in Spans PROVE Append(u, x) \in T
  <2>. SUFFICES ASSUME ByStart(Append(u, x))
                PROVE  Append(u, x) \in Seq(Spans) /\ Measured(Append(u, x), At(Append(u, x)))
    OBVIOUS
  <2>. DEFINE n == Len(u)
              a == Append(u, x)
  <2>1. /\ n \in Nat /\ DOMAIN u = 1 .. n /\ DOMAIN a = 1 .. n + 1 /\ a[n + 1] = x /\ a \in Seq(Spans)
        /\ \A i \in 1 .. n : a[i] = u[i]
    OBVIOUS
  <2>2. ByStart(u) /\ \A i \in 1 .. n : u[i][1] <= x[1]
    <3>. HIDE DEF a, n
    <3>1. \A i \in 1 .. n : i \in 1 .. n + 1 /\ n + 1 \in 1 .. n + 1 /\ i < n + 1
      BY <2>1
    <3>2. \A i, j \in 1 .. n + 1 : i < j => a[i][1] <= a[j][1]
      BY <2>1 DEF ByStart, a
    <3>. QED  BY <2>1, <3>1, <3>2 DEF ByStart
  <2>3. \A y \in ToSet(u) : y[1] <= x[1]
    BY <2>1, <2>2 DEF ToSet
  <2>4. Measured(u, At(u))
    BY <2>2
  <2>5. At(a) = SweepNext(At(u), x)
    BY Swept!ValueAppend
  <2>. HIDE DEF At
  <2>6. Measured(a, At(a))
    BY <2>3, <2>4, <2>5, MeasuredStep
  <2>. QED  BY <2>1, <2>6
<1>3. Seq(Spans) \subseteq T
  <2>. HIDE DEF T
  <2>. QED  BY <1>1, <1>2, Swept!SequenceInduction
<1>. DEFINE sweep == At(spans)
<1>4. Measured(spans, sweep)
  BY <1>3
<1>5. FoldLeft(SweepNext, base, spans) = sweep
  BY SweptIs
<1>. HIDE DEF sweep
<1>6. CASE spans = <<>>
  <2>1. sweep.open = <<>> /\ Cover(spans) = {}
    BY <1>4, <1>6 DEF Measured, Cover, ToSet
  <2>. QED  BY <1>5, <2>1, FS_EmptySet
<1>7. CASE spans # <<>>
  <2>. DEFINE o == sweep.open
              r == sweep.total
  <2>1. o \in Spans /\ r \in Nat
    BY <1>4, <1>7 DEF Measured
  <2>2. PICK P \in SUBSET Int : /\ IsFiniteSet(P) /\ Cardinality(P) = r
                                /\ \A p \in P : p < o[1]
                                /\ Cover(spans) = P \cup Instants(o)
    BY <1>4, <1>7 DEF Measured
  <2>. HIDE DEF o, r
  <2>3. o \in Int \X Int /\ o[1] < o[2]
    BY <2>1 DEF Spans
  <2>8. o # <<>>
    BY <2>3
  <2>4. IsFiniteSet(Instants(o)) /\ Cardinality(Instants(o)) = o[2] - o[1]
    BY <2>3, SpanSize
  <2>5. P \cap Instants(o) = {} /\ Cardinality({}) = 0
    BY <2>2, <2>3, FS_EmptySet DEF Instants
  <2>6. IsFiniteSet(Cover(spans)) /\ Cardinality(Cover(spans)) = r + (o[2] - o[1]) - 0
    BY <2>2, <2>4, <2>5, FS_Union
  <2>7. r + (o[2] - o[1]) - 0 = r + o[2] - o[1]
    BY <2>1, <2>3
  <2>. QED  BY <1>5, <2>6, <2>7, <2>8 DEF o, r
<1>. QED  BY <1>6, <1>7

(* Two sequences in a row.                                                 *)
LEMMA BothParts ==
  ASSUME NEW S, NEW u \in Seq(S), NEW v \in Seq(S)
  PROVE  /\ u \o v \in Seq(S) /\ Len(u \o v) = Len(u) + Len(v)
         /\ \A i \in 1 .. Len(u) : (u \o v)[i] = u[i]
         /\ \A i \in 1 .. Len(v) : (u \o v)[Len(u) + i] = v[i]
<1>1. u \o v \in Seq(S) /\ Len(u \o v) = Len(u) + Len(v)
  OBVIOUS
<1>2. Len(u) \in Nat /\ Len(v) \in Nat
  OBVIOUS
<1>3. ASSUME NEW i \in 1 .. Len(u) PROVE (u \o v)[i] = u[i]
  OBVIOUS
<1>4. ASSUME NEW i \in 1 .. Len(v) PROVE (u \o v)[Len(u) + i] = v[i]
  OBVIOUS
<1>. QED  BY <1>1, <1>3, <1>4

(* What is put into a sequence comes between the elements around it.       *)
Inserted(p, s, k, x, S) ==
  /\ p \in Seq(S) /\ Len(p) = Len(s) + 1
  /\ \A i \in 1 .. k : p[i] = s[i]
  /\ p[k + 1] = x
  /\ \A i \in k + 1 .. Len(s) : p[i + 1] = s[i]

LEMMA InsertedIs ==
  ASSUME NEW S, NEW s \in Seq(S), NEW x \in S, NEW k \in 0 .. Len(s)
  PROVE  Inserted(InsertAt(s, 1 + k, x), s, k, x, S)
<1>. DEFINE n == Len(s)
            a == SubSeq(s, 1, (1 + k) - 1)
            z == SubSeq(s, 1 + k, n)
            p == InsertAt(s, 1 + k, x)
<1>1. n \in Nat /\ k \in Nat /\ k <= n /\ (1 + k) - 1 = k
  OBVIOUS
<1>2. a \in Seq(S) /\ Len(a) = k /\ \A i \in 1 .. k : a[i] = s[i]
  BY <1>1
<1>3. z \in Seq(S) /\ Len(z) = n - k /\ \A i \in 1 .. n - k : z[i] = s[k + i]
  BY <1>1
<1>4. p = a \o <<x>> \o z
  BY DEF InsertAt
<1>. HIDE DEF a, z, n, p
<1>. DEFINE b == a \o <<x>>
<1>5. b \in Seq(S) /\ Len(b) = k + 1 /\ b[k + 1] = x /\ \A i \in 1 .. k : b[i] = a[i]
  BY <1>1, <1>2
<1>6. p = b \o z
  BY <1>4
<1>. HIDE DEF b
<1>7. /\ p \in Seq(S) /\ Len(p) = (k + 1) + (n - k)
      /\ \A i \in 1 .. k + 1 : p[i] = b[i]
      /\ \A i \in 1 .. n - k : p[(k + 1) + i] = z[i]
  <2>0. b \in Seq(S) /\ z \in Seq(S)
    BY <1>3, <1>5
  <2>2. /\ b \o z \in Seq(S) /\ Len(b \o z) = Len(b) + Len(z)
        /\ \A i \in 1 .. Len(b) : (b \o z)[i] = b[i]
        /\ \A i \in 1 .. Len(z) : (b \o z)[Len(b) + i] = z[i]
    BY <2>0, BothParts
  <2>1. /\ p \in Seq(S) /\ Len(p) = Len(b) + Len(z)
        /\ \A i \in 1 .. Len(b) : p[i] = b[i]
        /\ \A i \in 1 .. Len(z) : p[Len(b) + i] = z[i]
    BY <1>6, <2>2
  <2>. QED  BY <1>3, <1>5, <2>1
<1>8. Len(p) = n + 1
  BY <1>1, <1>7
<1>9. \A i \in 1 .. k : p[i] = s[i]
  BY <1>1, <1>2, <1>5, <1>7
<1>10. p[k + 1] = x
  BY <1>1, <1>5, <1>7
<1>11. ASSUME NEW i \in k + 1 .. n PROVE p[i + 1] = s[i]
  <2>1. i - k \in 1 .. n - k /\ (k + 1) + (i - k) = i + 1 /\ k + (i - k) = i
    BY <1>1
  <2>2. p[(k + 1) + (i - k)] = z[i - k] /\ z[i - k] = s[k + (i - k)]
    BY <1>3, <1>7, <2>1
  <2>. QED  BY <2>1, <2>2
<1>. QED  BY <1>7, <1>8, <1>9, <1>10, <1>11 DEF n, p, Inserted

(* Intervals stay in the order of their starts, and cover what they cover. *)
LEMMA PutInOrder ==
  ASSUME NEW s \in Seq(Spans), ByStart(s), NEW x \in Int \X Int
  PROVE  LET q == PutByStart(s, x)
         IN q \in Seq(Spans) /\ ByStart(q) /\ Cover(q) = Cover(s) \cup Instants(x)
<1>1. CASE x[1] >= x[2]
  <2>1. Instants(x) = {} /\ PutByStart(s, x) = s
    BY <1>1 DEF Instants, PutByStart
  <2>. QED  BY <2>1
<1>2. CASE ~(x[1] >= x[2])
  <2>. DEFINE n == Len(s)
              Fits(m) == \A i \in DOMAIN s : i <= m <=> s[i][1] <= x[1]
              m == CHOOSE j \in 0 .. n : Fits(j)
              t == {i \in 1 .. n : s[i][1] <= x[1]}
  <2>1. n \in Nat /\ DOMAIN s = 1 .. n /\ x \in Spans /\ \A i \in 1 .. n : s[i] \in Spans
    BY <1>2 DEF Spans
  <2>2. \A i \in 1 .. n : s[i][1] \in Int
    BY <2>1 DEF Spans
  <2>3. \E j \in 0 .. n : Fits(j)
    <3>1. CASE t = {}
      <4>1. \A i \in DOMAIN s : ~(i <= 0) /\ ~(s[i][1] <= x[1])
        BY <2>1, <3>1
      <4>. QED  BY <2>1, <4>1
    <3>2. CASE t # {}
      <4>. DEFINE top == Max(t)
      <4>1. t \in SUBSET (1 .. n)
        OBVIOUS
      <4>2. top \in t /\ \A y \in t : y <= top
        BY <2>1, <3>2, <4>1, Placed!MaxIndex DEF Max
      <4>. HIDE DEF top
      <4>3. top \in 1 .. n /\ s[top][1] <= x[1]
        BY <4>2
      <4>4. ASSUME NEW i \in 1 .. n, i <= top PROVE s[i][1] <= x[1]
        <5>1. i = top \/ s[i][1] <= s[top][1]
          BY <2>1, <4>3, <4>4 DEF ByStart
        <5>2. s[i][1] \in Int /\ s[top][1] \in Int /\ x[1] \in Int
          BY <2>2, <4>3
        <5>. QED  BY <4>3, <5>1, <5>2
      <4>5. Fits(top)
        BY <2>1, <4>2, <4>4
      <4>. QED  BY <2>1, <4>3, <4>5
    <3>. QED  BY <3>1, <3>2
  <2>4. m \in 0 .. n /\ Fits(m)
    BY <2>3
  <2>. DEFINE q == InsertAt(s, 1 + m, x)
  <2>5. PutByStart(s, x) = q
    BY <1>2 DEF PutByStart
  <2>6. \A i \in 1 .. n : i <= m <=> s[i][1] <= x[1]
    BY <2>1, <2>4
  <2>. HIDE DEF m, t
  <2>15. Inserted(q, s, m, x, Spans)
    BY <2>1, <2>4, InsertedIs
  <2>. HIDE DEF q
  <2>7. /\ q \in Seq(Spans) /\ Len(q) = n + 1
        /\ \A i \in 1 .. m : q[i] = s[i]
        /\ q[m + 1] = x
        /\ \A i \in m + 1 .. n : q[i + 1] = s[i]
    BY <2>15 DEF Inserted
  <2>. HIDE DEF n
  <2>8. /\ m \in Nat /\ m <= n /\ DOMAIN q = 1 .. n + 1
        /\ \A i \in 1 .. n + 1 : i \in 1 .. m \/ i = m + 1 \/ i - 1 \in m + 1 .. n
    BY <2>1, <2>4, <2>7
  <2>9. \A i \in 1 .. n + 1 : i - 1 \in m + 1 .. n => q[i] = s[i - 1]
    <3>1. \A i \in 1 .. n + 1 : (i - 1) + 1 = i
      BY <2>1
    <3>. QED  BY <2>7, <3>1
  <2>10. ASSUME NEW i \in 1 .. n + 1, NEW j \in 1 .. n + 1, i < j PROVE q[i][1] <= q[j][1]
    <3>1. \A g, h \in 1 .. n : g < h => s[g][1] <= s[h][1]
      BY <2>1 DEF ByStart
    <3>2. \A g \in 1 .. m : q[g] = s[g] /\ g \in 1 .. n /\ s[g][1] <= x[1] /\ s[g][1] \in Int
      BY <2>1, <2>2, <2>6, <2>7, <2>8
    <3>3. \A g \in m + 1 .. n : g \in 1 .. n /\ x[1] < s[g][1] /\ s[g][1] \in Int
      BY <2>1, <2>2, <2>6, <2>8
    <3>4. CASE i \in 1 .. m
      <4>1. CASE j \in 1 .. m
        BY <2>10, <3>1, <3>2, <3>4, <4>1
      <4>2. CASE j = m + 1
        BY <2>7, <3>2, <3>4, <4>2
      <4>3. CASE j - 1 \in m + 1 .. n
        BY <2>9, <3>2, <3>3, <3>4, <4>3
      <4>. QED  BY <2>8, <4>1, <4>2, <4>3
    <3>5. CASE i = m + 1
      <4>1. j - 1 \in m + 1 .. n
        BY <2>8, <2>10, <3>5
      <4>. QED  BY <2>7, <2>9, <3>3, <3>5, <4>1
    <3>6. CASE i - 1 \in m + 1 .. n
      <4>1. j - 1 \in m + 1 .. n /\ i - 1 < j - 1
        BY <2>8, <2>10, <3>6
      <4>. QED  BY <2>9, <3>1, <3>3, <3>6, <4>1
    <3>. QED  BY <2>8, <3>4, <3>5, <3>6
  <2>11. ByStart(q)
    BY <2>8, <2>10 DEF ByStart
  <2>12. ToSet(q) = ToSet(s) \cup {x}
    <3>. DEFINE Z == {s[j] : j \in DOMAIN s} \cup {x}
    <3>1. ASSUME NEW i \in 1 .. n + 1 PROVE q[i] \in Z
      <4>1. CASE i \in 1 .. m
        <5>1. i \in DOMAIN s
          BY <2>1, <2>8, <4>1
        <5>. QED  BY <2>7, <4>1, <5>1
      <4>2. CASE i = m + 1
        BY <2>7, <4>2
      <4>3. CASE i - 1 \in m + 1 .. n
        <5>1. i - 1 \in DOMAIN s /\ q[i] = s[i - 1]
          BY <2>1, <2>8, <2>9, <4>3
        <5>. QED  BY <5>1
      <4>. QED  BY <2>8, <4>1, <4>2, <4>3
    <3>2. \A j \in 1 .. n : j \in 1 .. m \/ j \in m + 1 .. n
      BY <2>1, <2>8
    <3>3. \A j \in 1 .. n : \E i \in 1 .. n + 1 : q[i] = s[j]
      <4>1. \A j \in 1 .. n : j \in 1 .. n + 1 /\ j + 1 \in 1 .. n + 1
        BY <2>1
      <4>. QED  BY <2>7, <3>2, <4>1
    <3>4. m + 1 \in 1 .. n + 1
      BY <2>1, <2>8
    <3>5. ToSet(q) \subseteq Z
      BY <2>8, <3>1 DEF ToSet
    <3>6. Z \subseteq ToSet(q)
      <4>1. \A i \in 1 .. n + 1 : q[i] \in ToSet(q)
        BY <2>8 DEF ToSet
      <4>2. \A j \in DOMAIN s : s[j] \in ToSet(q)
        BY <2>1, <3>3, <4>1
      <4>. QED  BY <2>7, <3>4, <4>1, <4>2
    <3>. QED  BY <3>5, <3>6 DEF ToSet
  <2>13. Cover(q) = Cover(s) \cup Instants(x)
    BY <2>12 DEF Cover
  <2>. QED  BY <2>5, <2>7, <2>11, <2>13
<1>. QED  BY <1>1, <1>2

(* turnUnionMs measures what the intervals cover, in any order and with    *)
(* empty ones among them.                                                  *)
LEMMA UnionMeasures ==
  ASSUME NEW v \in Seq(Int \X Int)
  PROVE  IsFiniteSet(Cover(v)) /\ UnionMs(v) = Cardinality(Cover(v))
<1>. DEFINE At(u) == Ordered!Value(<<>>, u)
            Good(u) == At(u) \in Seq(Spans) /\ ByStart(At(u)) /\ Cover(At(u)) = Cover(u)
            T == {u \in Seq(Int \X Int) : Good(u)}
<1>1. <<>> \in T
  <2>1. At(<<>>) = <<>>
    BY Ordered!ValueEmpty
  <2>2. /\ <<>> \in Seq(Spans) /\ ByStart(<<>>) /\ <<>> \in Seq(Int \X Int)
    BY DEF ByStart
  <2>. HIDE DEF At
  <2>3. Good(<<>>)
    BY <2>1, <2>2
  <2>. QED  BY <2>2, <2>3
<1>2. ASSUME NEW u \in T \cap Seq(Int \X Int), NEW x \in Int \X Int PROVE Append(u, x) \in T
  <2>1. At(Append(u, x)) = PutByStart(At(u), x)
    BY Ordered!ValueAppend
  <2>2. Good(u) /\ Append(u, x) \in Seq(Int \X Int)
    OBVIOUS
  <2>. HIDE DEF T, At
  <2>3. Cover(Append(u, x)) = Cover(u) \cup Instants(x)
    <3>. DEFINE S == Int \X Int
    <3>1. u \in Seq(S) /\ x \in S
      OBVIOUS
    <3>. HIDE DEF S
    <3>. QED  BY <3>1, CoverMore
  <2>4. Good(Append(u, x))
    BY <2>1, <2>2, <2>3, PutInOrder
  <2>. QED  BY <2>2, <2>4 DEF T
<1>3. Seq(Int \X Int) \subseteq T
  <2>. HIDE DEF T
  <2>. QED  BY <1>1, <1>2, Ordered!SequenceInduction
<1>. DEFINE s == At(v)
            base == [total |-> 0, open |-> <<>>]
            sweep == FoldLeft(SweepNext, base, s)
<1>4. s \in Seq(Spans) /\ ByStart(s) /\ Cover(s) = Cover(v)
  BY <1>3
<1>5. FoldLeft(PutByStart, <<>>, v) = s
  BY OrderedIs
<1>6. UnionMs(v) = IF sweep.open = <<>> THEN 0 ELSE sweep.total + sweep.open[2] - sweep.open[1]
  BY <1>5 DEF UnionMs
<1>. HIDE DEF s
<1>7. /\ IsFiniteSet(Cover(s))
      /\ Cardinality(Cover(s)) = IF sweep.open = <<>> THEN 0
                                 ELSE sweep.total + sweep.open[2] - sweep.open[1]
  BY <1>4, SweepMeasures
<1>. HIDE DEF sweep
<1>. QED  BY <1>4, <1>6, <1>7

(* The sum of a sequence of numbers is a number, no less than any of them. *)
LEMMA SumIs ==
  ASSUME NEW w \in Seq(Nat)
  PROVE  Summed!Value(0, w) \in Nat /\ \A k \in DOMAIN w : w[k] <= Summed!Value(0, w)
<1>. DEFINE V(u) == Summed!Value(0, u)
            Good(u) == V(u) \in Nat /\ \A k \in DOMAIN u : u[k] <= V(u)
            T == {u \in Seq(Nat) : Good(u)}
<1>1. <<>> \in T
  <2>1. V(<<>>) = 0
    BY Summed!ValueEmpty
  <2>2. <<>> \in Seq(Nat) /\ DOMAIN <<>> = {}
    OBVIOUS
  <2>. HIDE DEF V
  <2>. QED  BY <2>1, <2>2
<1>2. ASSUME NEW u \in T \cap Seq(Nat), NEW x \in Nat PROVE Append(u, x) \in T
  <2>. DEFINE n == Len(u)
              a == Append(u, x)
  <2>1. V(a) = Plus(V(u), x)
    BY Summed!ValueAppend
  <2>2. /\ n \in Nat /\ DOMAIN u = 1 .. n /\ DOMAIN a = 1 .. n + 1 /\ a[n + 1] = x /\ a \in Seq(Nat)
        /\ \A k \in 1 .. n : a[k] = u[k] /\ u[k] \in Nat
    OBVIOUS
  <2>3. Good(u)
    OBVIOUS
  <2>. HIDE DEF V, n, a
  <2>4. V(a) \in Nat /\ V(u) <= V(a) /\ x <= V(a)
    BY <2>1, <2>3 DEF Plus
  <2>5. \A k \in 1 .. n + 1 : k = n + 1 \/ k \in 1 .. n
    BY <2>2
  <2>6. ASSUME NEW k \in 1 .. n PROVE u[k] <= V(a)
    <3>1. u[k] \in Nat /\ V(u) \in Nat /\ u[k] <= V(u)
      BY <2>2, <2>3
    <3>. QED  BY <2>4, <3>1
  <2>7. Good(a)
    BY <2>2, <2>4, <2>5, <2>6
  <2>. QED  BY <2>2, <2>7 DEF a
<1>3. Seq(Nat) \subseteq T
  <2>. HIDE DEF T
  <2>. QED  BY <1>1, <1>2, Summed!SequenceInduction
<1>. HIDE DEF V
<1>4. Good(w)
  BY <1>3
<1>. QED  BY <1>4 DEF V

(* Sets of instants, none of them in two; the sizes of them add up to the  *)
(* size of their union.                                                    *)
Finite == {x \in SUBSET Int : IsFiniteSet(x)}
Disjoint(sets) == \A i, j \in DOMAIN sets : i # j => sets[i] \cap sets[j] = {}
Sizes(sets) == [k \in DOMAIN sets |-> Cardinality(sets[k])]

LEMMA SizesAddUp ==
  ASSUME NEW sets \in Seq(Finite), Disjoint(sets)
  PROVE  /\ UNION ToSet(sets) \in Finite
         /\ Summed!Value(0, Sizes(sets)) = Cardinality(UNION ToSet(sets))
<1>. DEFINE V(u) == Summed!Value(0, Sizes(u))
            All(u) == UNION ToSet(u)
            Good(u) == All(u) \in Finite /\ V(u) = Cardinality(All(u))
            T == {u \in Seq(Finite) : Disjoint(u) => Good(u)}
<1>1. <<>> \in T
  <2>1. Sizes(<<>>) = <<>> /\ All(<<>>) = {}
    BY DEF Sizes, ToSet
  <2>2. V(<<>>) = 0
    BY <2>1, Summed!ValueEmpty
  <2>3. <<>> \in Seq(Finite) /\ IsFiniteSet({}) /\ Cardinality({}) = 0
    BY FS_EmptySet
  <2>. HIDE DEF V, All
  <2>. QED  BY <2>1, <2>2, <2>3 DEF Finite
<1>2. ASSUME NEW u \in T \cap Seq(Finite), NEW x \in Finite PROVE Append(u, x) \in T
  <2>. DEFINE n == Len(u)
              a == Append(u, x)
  <2>. SUFFICES ASSUME Disjoint(a) PROVE a \in Seq(Finite) /\ Good(a)
    OBVIOUS
  <2>1. /\ n \in Nat /\ DOMAIN u = 1 .. n /\ DOMAIN a = 1 .. n + 1 /\ a[n + 1] = x /\ a \in Seq(Finite)
        /\ \A k \in 1 .. n : a[k] = u[k] /\ u[k] \in Finite
    OBVIOUS
  <2>2. ToSet(a) = ToSet(u) \cup {x}
    BY AppendSet
  <2>3. All(a) = All(u) \cup x
    BY <2>2
  <2>. HIDE DEF n, a
  <2>4. \A k \in 1 .. n : k \in 1 .. n + 1 /\ n + 1 \in 1 .. n + 1 /\ k # n + 1
    BY <2>1
  <2>5. Disjoint(u)
    BY <2>1, <2>4 DEF Disjoint
  <2>6. \A k \in 1 .. n : u[k] \cap x = {}
    BY <2>1, <2>4 DEF Disjoint
  <2>7. All(u) \cap x = {}
    BY <2>1, <2>6 DEF ToSet
  <2>8. Good(u)
    BY <2>5
  <2>9. IsFiniteSet(x) /\ Cardinality(x) \in Nat /\ x \subseteq Int
    BY FS_CardinalityType DEF Finite
  <2>10. Sizes(a) = Append(Sizes(u), Cardinality(x)) /\ Sizes(u) \in Seq(Nat)
    <3>1. \A k \in 1 .. n : Cardinality(u[k]) \in Nat
      BY <2>1, FS_CardinalityType DEF Finite
    <3>2. Sizes(u) = [k \in 1 .. n |-> Cardinality(u[k])]
      BY <2>1 DEF Sizes
    <3>3. Sizes(u) \in Seq(Nat) /\ Len(Sizes(u)) = n
      BY <2>1, <3>1, <3>2
    <3>. DEFINE z == Append(Sizes(u), Cardinality(x))
    <3>4. /\ z \in Seq(Nat) /\ DOMAIN z = 1 .. n + 1 /\ z[n + 1] = Cardinality(x)
          /\ \A k \in 1 .. n : z[k] = Sizes(u)[k]
      BY <2>9, <3>3
    <3>. HIDE DEF z
    <3>5. \A k \in 1 .. n + 1 : k = n + 1 \/ k \in 1 .. n
      BY <2>1
    <3>6. \A k \in 1 .. n + 1 : z[k] = Cardinality(a[k])
      BY <2>1, <3>2, <3>4, <3>5
    <3>7. z = [k \in 1 .. n + 1 |-> z[k]]
      BY <3>4
    <3>8. Sizes(a) = [k \in 1 .. n + 1 |-> Cardinality(a[k])]
      BY <2>1 DEF Sizes
    <3>9. Sizes(a) = z
      BY <3>6, <3>7, <3>8
    <3>. QED  BY <3>3, <3>9 DEF z
  <2>11. V(a) = Plus(V(u), Cardinality(x))
    BY <2>9, <2>10, Summed!ValueAppend
  <2>. HIDE DEF V, All
  <2>12. V(u) = Cardinality(All(u)) /\ IsFiniteSet(All(u)) /\ All(u) \subseteq Int
    BY <2>8 DEF Finite
  <2>13. /\ IsFiniteSet(All(u) \cup x)
         /\ Cardinality(All(u) \cup x) = Cardinality(All(u)) + Cardinality(x) - Cardinality(All(u) \cap x)
    BY <2>9, <2>12, FS_Union
  <2>14. Cardinality(All(u) \cap x) = 0
    BY <2>7, FS_EmptySet
  <2>15. Cardinality(All(u)) \in Nat
    BY <2>12, FS_CardinalityType
  <2>16. All(a) \in Finite
    BY <2>3, <2>9, <2>12, <2>13 DEF Finite
  <2>17. V(a) = Cardinality(All(a))
    BY <2>3, <2>9, <2>11, <2>12, <2>13, <2>14, <2>15 DEF Plus
  <2>. QED  BY <2>1, <2>16, <2>17
<1>3. Seq(Finite) \subseteq T
  <2>. HIDE DEF T
  <2>. QED  BY <1>1, <1>2, Summed!SequenceInduction
<1>. HIDE DEF V
<1>4. Good(sets)
  BY <1>3
<1>. QED  BY <1>4 DEF V

(* What the time split asks of a turn: times are numbers, its events are   *)
(* distinct, and one call at most is the first that encloses an event.     *)
Timed(t, lane, ended) ==
  /\ t.started_at \in Int /\ ended \in Int
  /\ t.events \in Seq(ToSet(t.events)) /\ lane \in Seq(ToSet(lane))
  /\ \A i, j \in DOMAIN t.events : t.events[i] = t.events[j] => i = j
  /\ \A e \in ToSet(t.events) : e.at \in Int
  /\ \A c \in ToSet(lane) : c.at \in Int /\ \A p \in c.post : p.at \in Int
  /\ \A e \in ToSet(t.events) : \A c \in Enclosing(lane, e) : Enclosing(lane, e) = {c}

(* The instants that a dialog is charged for, which end with its wait.     *)
Part(t, lane, e, ended) ==
  Instants(<<WaitEnd(t, lane, e, ended) - WaitOf(t, lane, e, ended), WaitEnd(t, lane, e, ended)>>)

(* The answer a dialog waits for is the one of the call about it.          *)
LEMMA WaitEndIs ==
  ASSUME NEW t, NEW lane, NEW ended, Timed(t, lane, ended), NEW e \in ToSet(t.events)
  PROVE  /\ WaitEnd(t, lane, e, ended) \in Int
         /\ \A c \in Enclosing(lane, e) :
              /\ c \in ToSet(lane) /\ c.post # {}
              /\ WaitEnd(t, lane, e, ended) = (CHOOSE p \in c.post : TRUE).at
<1>. DEFINE call == Enclosing(lane, e)
            then == FirstOf({x \in ToSet(t.events) : x.seq > e.seq})
<1>1. \A c \in call : c \in ToSet(lane) /\ \E p \in c.post : TRUE
  BY DEF Enclosing, FirstOf
<1>2. ASSUME NEW c \in call
      PROVE  /\ WaitEnd(t, lane, e, ended) = (CHOOSE p \in c.post : TRUE).at
             /\ WaitEnd(t, lane, e, ended) \in Int
  <2>1. call = {c}
    BY DEF Timed
  <2>2. UNION {d.post : d \in call} = c.post
    <3>. HIDE DEF call
    <3>. QED  BY <2>1
  <2>3. WaitEnd(t, lane, e, ended) = (CHOOSE p \in UNION {d.post : d \in call} : TRUE).at
    BY DEF WaitEnd
  <2>. HIDE DEF call
  <2>4. WaitEnd(t, lane, e, ended) = (CHOOSE p \in c.post : TRUE).at
    BY <2>2, <2>3
  <2>5. (CHOOSE p \in c.post : TRUE) \in c.post
    BY <1>1
  <2>. QED  BY <1>1, <2>4, <2>5 DEF Timed
<1>3. CASE call = {}
  <2>1. CASE then # {}
    <3>1. WaitEnd(t, lane, e, ended) = (CHOOSE x \in then : TRUE).at
      BY <1>3, <2>1 DEF WaitEnd
    <3>2. (CHOOSE x \in then : TRUE) \in then
      BY <2>1
    <3>3. \A x \in then : x \in ToSet(t.events)
      BY DEF FirstOf
    <3>. HIDE DEF then
    <3>. QED  BY <1>3, <3>1, <3>2, <3>3 DEF Timed
  <2>2. CASE then = {}
    <3>1. WaitEnd(t, lane, e, ended) = ended
      BY <1>3, <2>2 DEF WaitEnd
    <3>. QED  BY <1>3, <3>1 DEF Timed
  <2>. QED  BY <2>1, <2>2
<1>. HIDE DEF call
<1>4. WaitEnd(t, lane, e, ended) \in Int
  BY <1>2, <1>3
<1>. QED  BY <1>1, <1>2, <1>4 DEF call

(* A dialog is charged for an end of its wait, capped.                     *)
LEMMA PartIs ==
  ASSUME NEW t, NEW lane, NEW ended, Timed(t, lane, ended), NEW e \in ToSet(t.events)
  PROVE  /\ WaitOf(t, lane, e, ended) \in Nat
         /\ Part(t, lane, e, ended) \in Finite
         /\ Cardinality(Part(t, lane, e, ended)) = WaitOf(t, lane, e, ended)
         /\ Part(t, lane, e, ended) \subseteq e.at .. WaitEnd(t, lane, e, ended) - 1
         /\ \A x \in Part(t, lane, e, ended) :
              WaitEnd(t, lane, e, ended) - WaitOf(t, lane, e, ended) <= x
<1>. DEFINE w == WaitOf(t, lane, e, ended)
            end == WaitEnd(t, lane, e, ended)
            part == Part(t, lane, e, ended)
<1>1. end \in Int /\ e.at \in Int /\ WaitCapMs \in Nat
  BY WaitEndIs, TurnsAssumption DEF Timed
<1>2. w = Smaller(Larger(0, end - e.at), WaitCapMs)
  BY DEF WaitOf
<1>3. part = Instants(<<end - w, end>>)
  BY DEF Part
<1>. HIDE DEF w, end, part
<1>4. w \in Nat /\ (w = 0 \/ w <= end - e.at)
  BY <1>1, <1>2 DEF Smaller, Larger
<1>. DEFINE span == <<end - w, end>>
<1>5. span \in Int \X Int /\ span[1] = end - w /\ span[2] = end /\ span[1] <= span[2] /\ span[2] - span[1] = w
  BY <1>1, <1>4
<1>. HIDE DEF span
<1>6. part \in Finite /\ Cardinality(part) = w
  BY <1>3, <1>5, SpanSize DEF Finite, span
<1>7. part = end - w .. end - 1
  BY <1>3, <1>5 DEF Instants, span
<1>8. part \subseteq e.at .. end - 1 /\ \A x \in part : end - w <= x
  BY <1>1, <1>4, <1>7
<1>. QED  BY <1>4, <1>6, <1>8 DEF w, end, part

(* What the dialogs of a set waited: no less than any of them; and when    *)
(* they are apart, the number of instants they are charged for.            *)
LEMMA WaitedIs ==
  ASSUME NEW t, NEW lane, NEW ended, Timed(t, lane, ended), NEW dialogs \in SUBSET ToSet(t.events)
  PROVE  /\ Waited(t, lane, dialogs, ended) \in Nat
         /\ \A e \in dialogs : WaitOf(t, lane, e, ended) <= Waited(t, lane, dialogs, ended)
         /\ (\A e, f \in dialogs : e # f => Part(t, lane, e, ended) \cap Part(t, lane, f, ended) = {})
            => /\ UNION {Part(t, lane, e, ended) : e \in dialogs} \in Finite
               /\ Cardinality(UNION {Part(t, lane, e, ended) : e \in dialogs})
                    = Waited(t, lane, dialogs, ended)
<1>. DEFINE evs == t.events
            n == Len(evs)
            W(e) == WaitOf(t, lane, e, ended)
            P(e) == Part(t, lane, e, ended)
            waits == [k \in DOMAIN evs |-> IF evs[k] \in dialogs THEN W(evs[k]) ELSE 0]
            parts == [k \in DOMAIN evs |-> IF evs[k] \in dialogs THEN P(evs[k]) ELSE {}]
            sum == Waited(t, lane, dialogs, ended)
<1>1. \A e \in ToSet(evs) : W(e) \in Nat /\ P(e) \in Finite /\ Cardinality(P(e)) = W(e)
  BY PartIs
<1>2. sum = Summed!Value(0, waits)
  <2>1. sum = FoldLeft(Plus, 0, waits)
    BY DEF Waited
  <2>. QED  BY <2>1, SummedIs
<1>3. n \in Nat /\ DOMAIN evs = 1 .. n /\ \A k \in 1 .. n : evs[k] \in ToSet(evs)
  BY DEF Timed, ToSet
<1>4. \A i, j \in 1 .. n : evs[i] = evs[j] => i = j
  BY <1>3 DEF Timed
<1>5. \A e \in dialogs : \E k \in 1 .. n : e = evs[k]
  BY <1>3 DEF ToSet
<1>6. {} \in Finite /\ Cardinality({}) = 0
  BY FS_EmptySet DEF Finite
<1>. HIDE DEF n, evs, W, P, sum
<1>7. /\ waits = [k \in 1 .. n |-> IF evs[k] \in dialogs THEN W(evs[k]) ELSE 0]
      /\ parts = [k \in 1 .. n |-> IF evs[k] \in dialogs THEN P(evs[k]) ELSE {}]
  BY <1>3
<1>8. \A k \in 1 .. n : /\ (IF evs[k] \in dialogs THEN W(evs[k]) ELSE 0) \in Nat
                        /\ (IF evs[k] \in dialogs THEN P(evs[k]) ELSE {}) \in Finite
  BY <1>1, <1>3, <1>6
<1>9. waits \in Seq(Nat) /\ DOMAIN waits = 1 .. n
  BY <1>3, <1>7, <1>8
<1>10. parts \in Seq(Finite) /\ DOMAIN parts = 1 .. n
  BY <1>3, <1>7, <1>8
<1>11. \A k \in 1 .. n : /\ waits[k] = IF evs[k] \in dialogs THEN W(evs[k]) ELSE 0
                         /\ parts[k] = IF evs[k] \in dialogs THEN P(evs[k]) ELSE {}
  BY <1>7
<1>. HIDE DEF waits, parts
<1>12. sum \in Nat /\ \A k \in 1 .. n : waits[k] <= sum
  BY <1>2, <1>9, SumIs
<1>13. \A e \in dialogs : W(e) <= sum
  BY <1>5, <1>11, <1>12
<1>14. ASSUME \A e, f \in dialogs : e # f => P(e) \cap P(f) = {}
       PROVE  /\ UNION {P(e) : e \in dialogs} \in Finite
              /\ Cardinality(UNION {P(e) : e \in dialogs}) = sum
  <2>1. Disjoint(parts)
    <3>. SUFFICES ASSUME NEW i \in 1 .. n, NEW j \in 1 .. n, i # j PROVE parts[i] \cap parts[j] = {}
      BY <1>10 DEF Disjoint
    <3>1. CASE evs[i] \in dialogs /\ evs[j] \in dialogs
      <4>1. evs[i] # evs[j]
        BY <1>4
      <4>. QED  BY <1>11, <1>14, <3>1, <4>1
    <3>2. CASE ~(evs[i] \in dialogs /\ evs[j] \in dialogs)
      BY <1>11, <3>2
    <3>. QED  BY <3>1, <3>2
  <2>2. Sizes(parts) = waits
    <3>1. Sizes(parts) = [k \in 1 .. n |-> Cardinality(parts[k])]
      BY <1>10 DEF Sizes
    <3>2. \A k \in 1 .. n : Cardinality(parts[k]) = waits[k]
      <4>. SUFFICES ASSUME NEW k \in 1 .. n PROVE Cardinality(parts[k]) = waits[k]
        OBVIOUS
      <4>1. CASE evs[k] \in dialogs
        BY <1>1, <1>3, <1>11, <4>1
      <4>2. CASE evs[k] \notin dialogs
        BY <1>6, <1>11, <4>2
      <4>. QED  BY <4>1, <4>2
    <3>3. waits = [k \in 1 .. n |-> waits[k]]
      BY <1>9
    <3>. QED  BY <3>1, <3>2, <3>3
  <2>3. UNION ToSet(parts) = UNION {P(e) : e \in dialogs}
    <3>1. ASSUME NEW x \in UNION ToSet(parts) PROVE x \in UNION {P(e) : e \in dialogs}
      <4>1. PICK k \in 1 .. n : x \in parts[k]
        BY <1>10 DEF ToSet
      <4>2. evs[k] \in dialogs /\ x \in P(evs[k])
        BY <1>11, <4>1
      <4>. QED  BY <4>2
    <3>2. ASSUME NEW x \in UNION {P(e) : e \in dialogs} PROVE x \in UNION ToSet(parts)
      <4>1. PICK e \in dialogs : x \in P(e)
        OBVIOUS
      <4>2. PICK k \in 1 .. n : e = evs[k]
        BY <1>5
      <4>3. x \in parts[k]
        BY <1>11, <4>1, <4>2
      <4>. QED  BY <1>10, <4>3 DEF ToSet
    <3>. QED  BY <3>1, <3>2
  <2>. QED  BY <1>2, <1>10, <2>1, <2>2, <2>3, SizesAddUp
<1>. QED  BY <1>12, <1>13, <1>14 DEF W, P, sum

(* The part of a call that counts as tool time: within the turn, and apart *)
(* from what the turn is said to have waited for dialogs.                  *)
LEMMA SpanIs ==
  ASSUME NEW t, NEW lane, NEW ended, Timed(t, lane, ended), NEW c \in ToSet(lane),
         NEW dialogs \in SUBSET ToSet(t.events)
  PROVE  LET span == ToolSpan(t, lane, dialogs, ended, c)
         IN /\ span \in Int \X Int
            /\ Instants(span) \subseteq t.started_at .. ended - 1
            /\ Instants(span) # {} =>
                 /\ c.post # {}
                 /\ Instants(span) \subseteq c.at .. (CHOOSE p \in c.post : TRUE).at - 1
                 /\ \A e \in dialogs : c \in Enclosing(lane, e) =>
                      Instants(span) \cap Part(t, lane, e, ended) = {}
<1>. DEFINE post == (CHOOSE p \in c.post : TRUE).at
            own  == {e \in dialogs : c \in Enclosing(lane, e)}
            wait == Waited(t, lane, own, ended)
            from == Larger(c.at, t.started_at)
            to   == Smaller(ended, post - wait)
            span == ToolSpan(t, lane, dialogs, ended, c)
<1>1. c.at \in Int /\ t.started_at \in Int /\ ended \in Int /\ \A p \in c.post : p.at \in Int
  BY DEF Timed
<1>2. CASE c.post = {} \/ c.tail
  <2>1. span = <<ended, ended>>
    BY <1>2 DEF ToolSpan
  <2>. HIDE DEF span
  <2>2. span \in Int \X Int /\ Instants(span) = {}
    BY <1>1, <2>1 DEF Instants
  <2>. QED  BY <2>2 DEF span
<1>3. CASE ~(c.post = {} \/ c.tail)
  <2>1. span = <<from, to>>
    BY <1>3, Zenon DEF ToolSpan
  <2>2. own \in SUBSET ToSet(t.events)
    OBVIOUS
  <2>3. wait \in Nat /\ \A e \in own : WaitOf(t, lane, e, ended) <= wait
    <3>. HIDE DEF own
    <3>. QED  BY <2>2, WaitedIs
  <2>4. post \in Int
    <3>1. (CHOOSE p \in c.post : TRUE) \in c.post
      BY <1>3
    <3>. QED  BY <1>1, <3>1
  <2>. HIDE DEF span, wait, post
  <2>5. /\ from \in Int /\ c.at <= from /\ t.started_at <= from
        /\ to \in Int /\ to <= ended /\ to <= post - wait
    BY <1>1, <2>3, <2>4 DEF Larger, Smaller
  <2>. HIDE DEF from, to
  <2>6. span \in Int \X Int /\ Instants(span) = from .. to - 1
    BY <2>1, <2>5 DEF Instants
  <2>7. Instants(span) \subseteq t.started_at .. ended - 1
    BY <1>1, <2>5, <2>6
  <2>8. Instants(span) \subseteq c.at .. post - 1
    BY <1>1, <2>3, <2>4, <2>5, <2>6
  <2>9. ASSUME NEW e \in own PROVE Instants(span) \cap Part(t, lane, e, ended) = {}
    <3>1. e \in ToSet(t.events) /\ c \in Enclosing(lane, e)
      OBVIOUS
    <3>2. WaitEnd(t, lane, e, ended) = post
      BY <3>1, WaitEndIs DEF post
    <3>3. /\ WaitOf(t, lane, e, ended) \in Nat
          /\ \A x \in Part(t, lane, e, ended) :
               x \in Int /\ post - WaitOf(t, lane, e, ended) <= x
      BY <3>1, <3>2, PartIs DEF Finite
    <3>4. WaitOf(t, lane, e, ended) <= wait
      BY <2>3
    <3>5. to <= post - WaitOf(t, lane, e, ended)
      BY <2>3, <2>4, <2>5, <3>3, <3>4
    <3>6. \A x \in Part(t, lane, e, ended) : to <= x
      BY <2>4, <2>5, <3>3, <3>5
    <3>. QED  BY <2>5, <2>6, <3>3, <3>6
  <2>. QED  BY <1>3, <2>6, <2>7, <2>8, <2>9 DEF span, post
<1>. QED  BY <1>2, <1>3

(* The split of one turn: its tool time is a measure; and when its dialogs *)
(* are apart, the tool time and the waits do not exceed the turn.          *)
LEMMA TurnSplits ==
  ASSUME NEW t, NEW lane, NEW ended, Timed(t, lane, ended)
  PROVE  LET dialogs == Dialogs(t, ended)
             spans   == ToolSpans(t, lane, dialogs, ended)
             tool    == UnionMs(spans)
             waited  == Waited(t, lane, dialogs, ended)
         IN /\ tool = Cardinality(Cover(spans)) /\ tool \in Nat /\ waited \in Nat
            /\ DialogsApart(t, lane, dialogs, ended)
                 => tool + waited <= Larger(0, ended - t.started_at)
<1>. DEFINE dialogs == Dialogs(t, ended)
            spans   == ToolSpans(t, lane, dialogs, ended)
            tool    == UnionMs(spans)
            waited  == Waited(t, lane, dialogs, ended)
            within  == t.started_at .. ended - 1
            Span(c) == ToolSpan(t, lane, dialogs, ended, c)
            P(e)    == Part(t, lane, e, ended)
<1>1. dialogs \in SUBSET ToSet(t.events)
  BY DEF Dialogs
<1>. HIDE DEF dialogs
<1>2. \A c \in ToSet(lane) : Span(c) \in Int \X Int /\ Instants(Span(c)) \subseteq within
  BY <1>1, SpanIs
<1>3. spans \in Seq(Int \X Int) /\ \A x \in ToSet(spans) : \E c \in ToSet(lane) : x = Span(c)
  <2>1. lane \in Seq(ToSet(lane)) /\ Len(lane) \in Nat /\ DOMAIN lane = 1 .. Len(lane)
    BY DEF Timed
  <2>2. spans = [k \in 1 .. Len(lane) |-> Span(lane[k])]
    BY <2>1 DEF ToolSpans
  <2>. HIDE DEF Span, spans
  <2>3. \A k \in 1 .. Len(lane) : lane[k] \in ToSet(lane)
    BY <2>1
  <2>4. \A k \in 1 .. Len(lane) : Span(lane[k]) \in Int \X Int
    BY <1>2, <2>3
  <2>. DEFINE S == Int \X Int
  <2>5. \A k \in 1 .. Len(lane) : Span(lane[k]) \in S
    BY <2>4
  <2>. HIDE DEF S
  <2>6. spans \in Seq(S)
    BY <2>1, <2>2, <2>5
  <2>7. \A x \in ToSet(spans) : \E k \in 1 .. Len(lane) : x = Span(lane[k])
    BY <2>1, <2>2 DEF ToSet
  <2>. QED  BY <2>3, <2>6, <2>7 DEF S
<1>. HIDE DEF spans
<1>4. IsFiniteSet(Cover(spans)) /\ tool = Cardinality(Cover(spans))
  BY <1>3, UnionMeasures
<1>5. tool \in Nat
  BY <1>4, FS_CardinalityType
<1>6. waited \in Nat
  BY <1>1, WaitedIs
<1>. HIDE DEF tool, waited, Span
<1>7. Cover(spans) \subseteq within
  BY <1>2, <1>3 DEF Cover
<1>8. ASSUME DialogsApart(t, lane, dialogs, ended)
      PROVE  tool + waited <= Larger(0, ended - t.started_at)
  <2>. DEFINE D(e) == e.at .. WaitEnd(t, lane, e, ended) - 1
              all  == UNION {P(e) : e \in dialogs}
  <2>1. \A e \in dialogs : P(e) \in Finite /\ P(e) \subseteq D(e)
    BY <1>1, PartIs
  <2>2. /\ \A e \in dialogs : D(e) \subseteq within
        /\ \A e, f \in dialogs : e # f => D(e) \cap D(f) = {}
        /\ \A e \in dialogs : \A c \in ToSet(lane) : c \notin Enclosing(lane, e) =>
             \A p \in c.post : D(e) \cap (c.at .. p.at - 1) = {}
    BY <1>8 DEF DialogsApart
  <2>3. \A e, f \in dialogs : e # f => P(e) \cap P(f) = {}
    BY <2>1, <2>2
  <2>4. all \in Finite /\ Cardinality(all) = waited
    BY <1>1, <2>3, WaitedIs DEF waited
  <2>5. ASSUME NEW c \in ToSet(lane), NEW e \in dialogs PROVE Instants(Span(c)) \cap P(e) = {}
    <3>1. CASE Instants(Span(c)) = {}
      BY <3>1
    <3>2. CASE Instants(Span(c)) # {}
      <4>1. /\ c.post # {}
            /\ Instants(Span(c)) \subseteq c.at .. (CHOOSE p \in c.post : TRUE).at - 1
            /\ c \in Enclosing(lane, e) => Instants(Span(c)) \cap P(e) = {}
        BY <1>1, <3>2, SpanIs DEF Span
      <4>2. (CHOOSE p \in c.post : TRUE) \in c.post
        BY <4>1
      <4>3. CASE c \notin Enclosing(lane, e)
        <5>1. D(e) \cap (c.at .. (CHOOSE p \in c.post : TRUE).at - 1) = {}
          BY <2>2, <4>2, <4>3
        <5>. HIDE DEF D, P
        <5>. QED  BY <2>1, <4>1, <5>1
      <4>. QED  BY <4>1, <4>3
    <3>. QED  BY <3>1, <3>2
  <2>6. Cover(spans) \cap all = {}
    <3>1. \A x \in ToSet(spans) : \A e \in dialogs : Instants(x) \cap P(e) = {}
      BY <1>3, <2>5
    <3>. HIDE DEF P
    <3>. QED  BY <3>1 DEF Cover
  <2>7. all \subseteq within
    <3>. HIDE DEF P, D, within
    <3>. QED  BY <2>1, <2>2
  <2>. HIDE DEF all
  <2>8. /\ IsFiniteSet(all)
        /\ IsFiniteSet(Cover(spans) \cup all)
        /\ Cardinality(Cover(spans) \cup all)
             = Cardinality(Cover(spans)) + Cardinality(all) - Cardinality(Cover(spans) \cap all)
    BY <1>4, <2>4, FS_Union DEF Finite
  <2>9. Cardinality(Cover(spans) \cup all) = tool + waited
    BY <1>4, <1>5, <1>6, <2>4, <2>6, <2>8, FS_EmptySet
  <2>10. t.started_at \in Int /\ ended \in Int
    BY DEF Timed
  <2>11. IsFiniteSet(within) /\ Cardinality(within) = Larger(0, ended - t.started_at)
    <3>. DEFINE a == t.started_at
                b == ended - 1
    <3>1. a \in Int /\ b \in Int
      BY <2>10
    <3>2. IsFiniteSet(a .. b) /\ Cardinality(a .. b) = IF a > b THEN 0 ELSE b - a + 1
      BY <3>1, FS_Interval
    <3>3. (IF a > b THEN 0 ELSE b - a + 1) = Larger(0, ended - t.started_at)
      BY <2>10 DEF Larger
    <3>. QED  BY <3>2, <3>3
  <2>12. Cover(spans) \cup all \subseteq within
    BY <1>7, <2>7
  <2>. HIDE DEF within
  <2>13. Cardinality(Cover(spans) \cup all) <= Cardinality(within)
    BY <2>11, <2>12, FS_Subset
  <2>. QED  BY <2>9, <2>11, <2>13
<1>. QED  BY <1>4, <1>5, <1>6, <1>8 DEF tool, waited, spans, dialogs

(* The events of a turn lie in the order in which they came.               *)
Lined(S, segs) ==
  \A i \in DOMAIN segs : ToSet(segs[i].events) \subseteq S /\ Ascending(segs[i].events)

(* An event later than those of a sequence leaves it in order.             *)
LEMMA AscendsMore ==
  ASSUME NEW E, \A e \in E : e.seq \in Nat \ {0}, NEW s \in Seq(E), Ascending(s), NEW r \in E,
         \A e \in ToSet(s) : e.seq < r.seq
  PROVE  Ascending(Append(s, r))
<1>. DEFINE n == Len(s)
            a == Append(s, r)
<1>1. /\ n \in Nat /\ DOMAIN s = 1 .. n /\ DOMAIN a = 1 .. n + 1 /\ a[n + 1] = r
      /\ \A i \in 1 .. n : a[i] = s[i]
  OBVIOUS
<1>. HIDE DEF a, n
<1>2. \A i \in 1 .. n : s[i].seq < r.seq
  BY <1>1 DEF ToSet
<1>3. \A i, j \in 1 .. n : i < j => s[i].seq < s[j].seq
  BY <1>1 DEF Ascending
<1>4. \A i \in 1 .. n + 1 : i = n + 1 \/ i \in 1 .. n
  BY <1>1
<1>5. ASSUME NEW i \in 1 .. n + 1, NEW j \in 1 .. n + 1, i < j PROVE a[i].seq < a[j].seq
  <2>1. i \in 1 .. n
    BY <1>1, <1>5
  <2>2. CASE j = n + 1
    BY <1>1, <1>2, <2>1, <2>2
  <2>3. CASE j \in 1 .. n
    BY <1>1, <1>3, <1>5, <2>1, <2>3
  <2>. QED  BY <1>4, <2>2, <2>3
<1>. QED  BY <1>1, <1>5 DEF Ascending, a

(* Putting an event into a turn keeps them in that order.                  *)
LEMMA PutLined ==
  ASSUME NEW E, \A e \in E : e.seq \in Nat \ {0}, NEW S \in SUBSET E, NEW r \in E,
         \A s \in S : s.seq < r.seq,
         NEW segs \in Seq(Turn(E)), Lined(S, segs), NEW k \in DOMAIN segs
  PROVE  /\ Put(segs, k, r) \in Seq(Turn(E)) /\ DOMAIN Put(segs, k, r) = DOMAIN segs
         /\ Lined(S \cup {r}, Put(segs, k, r))
<1>. DEFINE new == Put(segs, k, r)
            evs == segs[k].events
<1>1. new \in Seq(Turn(E)) /\ DOMAIN new = DOMAIN segs
  BY PutKeeps
<1>2. \A j \in DOMAIN segs : j # k => new[j] = segs[j]
  BY PutKeeps
<1>3. segs[k] \in Turn(E) /\ evs \in Seq(E) /\ Ascending(evs) /\ ToSet(evs) \subseteq S
  <2>1. segs[k] \in Turn(E)
    OBVIOUS
  <2>2. evs \in Seq(E)
    BY <2>1 DEF Turn, TurnOf
  <2>. QED  BY <2>1, <2>2 DEF Lined
<1>4. new[k].events = Append(evs, r)
  BY <1>3 DEF Put, Turn, TurnOf
<1>. HIDE DEF new, evs
<1>5. Ascending(Append(evs, r))
  BY <1>3, AscendsMore
<1>6. ToSet(Append(evs, r)) = ToSet(evs) \cup {r}
  BY <1>3, AppendSet
<1>7. \A j \in DOMAIN new : ToSet(new[j].events) \subseteq S \cup {r} /\ Ascending(new[j].events)
  <2>. SUFFICES ASSUME NEW j \in DOMAIN segs
                PROVE  ToSet(new[j].events) \subseteq S \cup {r} /\ Ascending(new[j].events)
    BY <1>1
  <2>1. CASE j = k
    BY <1>3, <1>4, <1>5, <1>6, <2>1
  <2>2. CASE j # k
    BY <1>2, <2>2 DEF Lined
  <2>. QED  BY <2>1, <2>2
<1>. QED  BY <1>1, <1>7 DEF Lined, new

(* So does placing an event, by whichever branch of buildTurns.            *)
LEMMA PlaceLined ==
  ASSUME NEW E, \A e \in E : e.seq \in Nat \ {0}, NEW S \in SUBSET E, NEW r \in E,
         \A s \in S : s.seq < r.seq,
         NEW rows, NEW segs \in Seq(Turn(E)), Lined(S, segs)
  PROVE  Lined(S \cup {r}, Place(rows, segs, r))
<1>. DEFINE n == Len(segs)
            new == Place(rows, segs, r)
<1>0. n \in Nat /\ DOMAIN segs = 1 .. n
  OBVIOUS
<1>1. ASSUME NEW virtual
      PROVE  LET one == Opened(r, virtual)
             IN one.events = <<>> /\ Ascending(one.events) /\ ToSet(one.events) = {}
  BY DEF Opened, Ascending, ToSet
<1>2. CASE r.type = "UserPromptSubmit" /\ n > 0 /\ Queued(rows, Last(segs), r)
  <2>. DEFINE put == Put(segs, n, r)
  <2>1. new = [put EXCEPT ![n].queued = @ + 1]
    BY <1>2 DEF Place
  <2>2. n \in DOMAIN segs
    BY <1>0, <1>2
  <2>3. put \in Seq(Turn(E)) /\ DOMAIN put = DOMAIN segs /\ Lined(S \cup {r}, put)
    <3>. HIDE DEF n
    <3>. QED  BY <2>2, PutLined
  <2>. HIDE DEF put, new, n
  <2>4. put[n] \in Turn(E)
    BY <2>2, <2>3
  <2>. DEFINE t == [put[n] EXCEPT !.queued = @ + 1]
  <2>5. t.events = put[n].events
    BY <2>4, OneQueued
  <2>6. DOMAIN new = DOMAIN put /\ \A j \in DOMAIN put : new[j] = IF j = n THEN t ELSE put[j]
    BY <2>1, <2>2, <2>3
  <2>. HIDE DEF t
  <2>7. \A j \in DOMAIN put : new[j].events = put[j].events
    BY <2>5, <2>6
  <2>. QED  BY <2>3, <2>6, <2>7 DEF Lined, new
<1>3. CASE r.type = "UserPromptSubmit" /\ ~(n > 0 /\ Queued(rows, Last(segs), r))
  <2>. DEFINE one == Opened(r, FALSE)
  <2>1. new = Append(segs, one)
    BY <1>3, Zenon DEF Place
  <2>2. one.events = <<>> /\ Ascending(one.events) /\ ToSet(one.events) = {}
    BY <1>1
  <2>. HIDE DEF one, new
  <2>3. /\ DOMAIN new = 1 .. n + 1 /\ new[n + 1] = one
        /\ \A j \in 1 .. n : new[j] = segs[j]
    BY <2>1
  <2>. HIDE DEF n
  <2>4. \A j \in 1 .. n + 1 : j = n + 1 \/ j \in 1 .. n
    BY <1>0
  <2>5. \A j \in 1 .. n : ToSet(segs[j].events) \subseteq S \cup {r} /\ Ascending(segs[j].events)
    BY <1>0 DEF Lined
  <2>6. \A j \in 1 .. n + 1 : ToSet(new[j].events) \subseteq S \cup {r} /\ Ascending(new[j].events)
    BY <2>2, <2>3, <2>4, <2>5
  <2>. QED  BY <2>3, <2>6 DEF Lined, new
<1>4. CASE r.type # "UserPromptSubmit" /\ n = 0
  <2>. DEFINE one == <<Opened(r, TRUE)>>
  <2>1. new = Put(one, 1, r)
    BY <1>4 DEF Place
  <2>2. one \in Seq(Turn(E)) /\ DOMAIN one = {1}
    BY DEF Opened, Turn, TurnOf
  <2>3. one[1].events = <<>> /\ Ascending(one[1].events) /\ ToSet(one[1].events) = {}
    BY <1>1
  <2>. HIDE DEF one
  <2>4. Lined(S, one)
    BY <2>2, <2>3 DEF Lined
  <2>. QED  BY <2>1, <2>2, <2>4, PutLined
<1>5. CASE r.type # "UserPromptSubmit" /\ n # 0
  <2>1. PICK k \in DOMAIN segs : new = Put(segs, k, r)
    <3>1. CASE Raced(segs, r)
      <4>1. new = Put(segs, n - 1, r) /\ n - 1 \in DOMAIN segs
        BY <1>0, <1>5, <3>1 DEF Place, Raced
      <4>. QED  BY <4>1
    <3>2. CASE ~Raced(segs, r)
      <4>1. new = Put(segs, n, r) /\ n \in DOMAIN segs
        BY <1>0, <1>5, <3>2 DEF Place
      <4>. QED  BY <4>1
    <3>. QED  BY <3>1, <3>2
  <2>. HIDE DEF new
  <2>. QED  BY <2>1, PutLined DEF new
<1>. QED  BY <1>2, <1>3, <1>4, <1>5

(* So they do when the fold has seen the whole session.                    *)
LEMMA SegmentsLined ==
  ASSUME NEW E, \A e \in E : e.seq \in Nat \ {0}, NEW rows \in Seq(E), Ascending(rows)
  PROVE  Lined(ToSet(rows), Segments(rows))
<1>. DEFINE base   == [rows |-> rows, turns |-> <<>>]
            At(u)  == Placed!Value(base, u)
            Sound(u) == /\ At(u) = [rows |-> rows, turns |-> At(u).turns]
                        /\ At(u).turns \in Seq(Turn(E)) /\ Lined(ToSet(u), At(u).turns)
            T      == {u \in Seq(E) : Ascending(u) => Sound(u)}
<1>1. <<>> \in T
  <2>1. At(<<>>) = base
    BY Placed!ValueEmpty
  <2>. HIDE DEF At
  <2>2. At(<<>>).turns = <<>> /\ At(<<>>) = [rows |-> rows, turns |-> At(<<>>).turns]
    BY <2>1
  <2>3. Lined(ToSet(<<>>), <<>>) /\ <<>> \in Seq(Turn(E)) /\ <<>> \in Seq(E)
    BY DEF Lined
  <2>4. Sound(<<>>)
    BY <2>2, <2>3
  <2>. HIDE DEF Sound
  <2>. QED  BY <2>3, <2>4
<1>2. ASSUME NEW u \in T \cap Seq(E), NEW r \in E PROVE Append(u, r) \in T
  <2>. DEFINE n == Len(u)
              a == Append(u, r)
              old == At(u).turns
  <2>. SUFFICES ASSUME Ascending(a) PROVE a \in Seq(E) /\ Sound(a)
    OBVIOUS
  <2>1. /\ n \in Nat /\ DOMAIN u = 1 .. n /\ DOMAIN a = 1 .. n + 1 /\ a[n + 1] = r /\ a \in Seq(E)
        /\ \A i \in 1 .. n : a[i] = u[i]
    OBVIOUS
  <2>2. Ascending(u) /\ \A i \in 1 .. n : u[i].seq < r.seq
    <3>. HIDE DEF a, n
    <3>1. \A i \in 1 .. n : i \in 1 .. n + 1 /\ n + 1 \in 1 .. n + 1 /\ i < n + 1
      BY <2>1
    <3>2. \A i, j \in 1 .. n + 1 : i < j => a[i].seq < a[j].seq
      BY <2>1 DEF Ascending
    <3>. QED  BY <2>1, <3>1, <3>2 DEF Ascending
  <2>3. ToSet(u) \in SUBSET E /\ \A s \in ToSet(u) : s.seq < r.seq
    BY <2>1, <2>2 DEF ToSet
  <2>4. Sound(u)
    BY <2>2
  <2>5. At(a) = PlaceNext(At(u), r)
    BY Placed!ValueAppend
  <2>. HIDE DEF At
  <2>6. /\ old \in Seq(Turn(E)) /\ Lined(ToSet(u), old)
        /\ At(u) = [rows |-> rows, turns |-> old]
    BY <2>4
  <2>7. At(a) = [rows |-> rows, turns |-> Place(rows, old, r)]
    <3>. HIDE DEF old, a
    <3>. QED  BY <2>5, <2>6 DEF PlaceNext
  <2>8. ToSet(a) = ToSet(u) \cup {r}
    BY AppendSet
  <2>. HIDE DEF old, a
  <2>9. Lined(ToSet(a), Place(rows, old, r))
    BY <2>3, <2>6, <2>8, PlaceLined
  <2>10. Place(rows, old, r) \in Seq(Turn(E))
    <3>1. E \subseteq E /\ r \in E
      OBVIOUS
    <3>. QED  BY <2>6, <3>1, PlaceType
  <2>11. Sound(a)
    BY <2>7, <2>9, <2>10
  <2>. QED  BY <2>1, <2>11 DEF a
<1>3. Seq(E) \subseteq T
  <2>. HIDE DEF T
  <2>. QED  BY <1>1, <1>2, Placed!SequenceInduction
<1>4. Segments(rows) = At(rows).turns
  BY PlacedIs DEF Segments
<1>. HIDE DEF At
<1>. QED  BY <1>3, <1>4

(* A finite set of numbers has a largest.                                  *)
LEMMA LargestIs ==
  ASSUME NEW S \in SUBSET Int, IsFiniteSet(S), S # {}
  PROVE  \E m \in S : \A x \in S : x <= m
<1>. DEFINE Above(x) == {y \in S : x < y}
            U == {Above(x) : x \in S}
<1>1. U \subseteq FiniteSubsetsOf(S)
  <2>1. \A x \in S : Above(x) \subseteq S /\ IsFiniteSet(Above(x))
    BY FS_Subset
  <2>. HIDE DEF Above
  <2>. QED  BY <2>1 DEF FiniteSubsetsOf
<1>2. U # {}
  OBVIOUS
<1>. HIDE DEF U
<1>3. \E u \in U : \A v \in U : <<v, u>> \notin StrictSubsetOrdering(S)
  BY <1>1, <1>2, FS_StrictSubsetOrderingWellFounded, WFMin
<1>4. PICK m \in S : \A y \in S : <<Above(y), Above(m)>> \notin StrictSubsetOrdering(S)
  BY <1>3 DEF U
<1>5. \A x \in S : x <= m
  <2>. SUFFICES ASSUME NEW x \in S, m < x PROVE FALSE
    OBVIOUS
  <2>1. m \in Int /\ x \in Int /\ \A y \in S : y \in Int
    OBVIOUS
  <2>2. \A y \in S : x < y => m < y
    BY <2>1
  <2>3. Above(x) \subseteq Above(m) /\ Above(m) \subseteq S
    BY <2>2
  <2>4. x \in Above(m) /\ x \notin Above(x)
    BY <2>1
  <2>. HIDE DEF Above
  <2>. QED  BY <1>4, <2>3, <2>4 DEF StrictSubsetOrdering
<1>. QED  BY <1>5

(* The end of a turn's main chain is a time.                               *)
LEMMA EndedIs ==
  ASSUME NEW E, \A e \in E : e.at \in Int, NEW rows \in Seq(E), NEW t \in Turn(E),
         ToSet(t.events) \subseteq ToSet(rows), NEW next
  PROVE  EndedAt(rows, t, next) \in Int
<1>1. t.events \in Seq(E) /\ t.stops \in Seq(E) /\ t.started_at \in {r.at : r \in E}
  BY DEF Turn, TurnOf
<1>2. t.started_at \in Int
  BY <1>1
<1>3. LastAt(t) \in Int
  <2>1. CASE t.events = <<>>
    BY <1>2, <2>1 DEF LastAt
  <2>2. CASE t.events # <<>>
    <3>1. Last(t.events) \in E
      BY <1>1, <2>2 DEF Last
    <3>. QED  BY <1>2, <2>2, <3>1 DEF LastAt, Larger
  <2>. QED  BY <2>1, <2>2
<1>4. CASE t.virtual \/ t.stops = <<>>
  BY <1>3, <1>4 DEF EndedAt
<1>5. CASE ~(t.virtual \/ t.stops = <<>>)
  <2>. DEFINE stop  == Last(t.stops)
              calls == {e \in ToSet(t.events) : /\ e.seq > stop.seq /\ ~e.agent
                                                /\ e.type = "PreToolUse"}
              posts == {p \in UNION {PostOf(rows, e.id) : e \in calls} :
                          \A s \in next : p.seq < s.turn_seq}
              ends  == {stop.at} \cup {e.at : e \in calls} \cup {p.at : p \in posts}
  <2>1. EndedAt(rows, t, next) = CHOOSE m \in ends : \A x \in ends : x <= m
    BY <1>5, Zenon DEF EndedAt
  <2>2. stop \in E
    BY <1>1, <1>5 DEF Last
  <2>3. calls \subseteq ToSet(rows) /\ posts \subseteq ToSet(rows)
    <3>1. \A id : PostOf(rows, id) \subseteq ToSet(rows)
      BY DEF PostOf, Half, FirstOf
    <3>. QED  BY <3>1
  <2>. HIDE DEF stop, calls, posts
  <2>4. ToSet(rows) \subseteq E
    BY DEF ToSet
  <2>5. IsFiniteSet({x.at : x \in ToSet(rows)})
    <3>. DEFINE n == Len(rows)
    <3>0. n \in Nat
      OBVIOUS
    <3>1. {x.at : x \in ToSet(rows)} = {rows[k].at : k \in 1 .. n}
      BY DEF ToSet
    <3>. HIDE DEF n
    <3>2. IsFiniteSet(1 .. n)
      BY <3>0, FS_Interval
    <3>3. IsFiniteSet({rows[k].at : k \in 1 .. n})
      <4>. DEFINE f == [k \in 1 .. n |-> rows[k].at]
                  Z == {rows[k].at : k \in 1 .. n}
      <4>1. f \in Surjection(1 .. n, Z)
        BY DEF Surjection
      <4>. HIDE DEF f
      <4>. QED  BY <3>2, <4>1, FS_Surjection
    <3>. QED  BY <3>1, <3>3
  <2>6. IsFiniteSet({x.at : x \in ToSet(rows)} \cup {stop.at})
    BY <2>5, FS_AddElement
  <2>7. ends \subseteq {x.at : x \in ToSet(rows)} \cup {stop.at}
    BY <2>3
  <2>8. ends \in SUBSET Int
    BY <2>2, <2>3, <2>4
  <2>9. IsFiniteSet(ends)
    BY <2>6, <2>7, FS_Subset
  <2>10. ends # {}
    OBVIOUS
  <2>. HIDE DEF ends
  <2>11. \E m \in ends : \A x \in ends : x <= m
    BY <2>8, <2>9, <2>10, LargestIs
  <2>12. (CHOOSE m \in ends : \A x \in ends : x <= m) \in ends
    BY <2>11
  <2>. QED  BY <2>1, <2>8, <2>12
<1>. QED  BY <1>4, <1>5

(* The main lane is made of a turn's calls.                                *)
LEMMA LaneIs ==
  ASSUME NEW C, NEW calls \in Seq(C)
  PROVE  MainCalls(calls) \in Seq(C)
<1>1. \A v \in Seq(C) : \A c \in C : MainNext(v, c) \in Seq(C)
  BY DEF MainNext
<1>2. <<>> \in Seq(C)
  OBVIOUS
<1>3. Laned!Value(<<>>, calls) \in Seq(C)
  BY <1>1, <1>2, Laned!ValueType
<1>. QED  BY <1>3, LanedIs DEF MainCalls

(* Every turn of a session is Timed.                                       *)
LEMMA SegmentTimed ==
  ASSUME NEW E, \A e \in E : e.seq \in Nat \ {0} /\ e.at \in Int,
         NEW rows \in Seq(E), Ascending(rows), NEW i \in DOMAIN Segments(rows), NEW at, NEW next
  PROVE  LET t == Segments(rows)[i]
         IN Timed(t, MainCalls(CallsOf(rows, t, at)), EndedAt(rows, t, next))
<1>. DEFINE t == Segments(rows)[i]
            calls == CallsOf(rows, t, at)
            lane == MainCalls(calls)
            ended == EndedAt(rows, t, next)
            pres == CallPres(rows, t)
            C == {CallOf(rows, t, at, e) : e \in ToSet(t.events)}
<1>0. \A e \in E : e.seq \in Nat \ {0}
  OBVIOUS
<1>1. t \in Turn(E)
  BY <1>0, SegmentsLoops
<1>2. ToSet(t.events) \subseteq ToSet(rows) /\ Ascending(t.events)
  BY <1>0, SegmentsLined DEF Lined
<1>. HIDE DEF t
<1>3. t.events \in Seq(E) /\ t.started_at \in {r.at : r \in E}
  BY <1>1 DEF Turn, TurnOf
<1>4. ended \in Int
  BY <1>1, <1>2, EndedIs
<1>5. ToSet(rows) \subseteq E
  BY DEF ToSet
<1>6. calls \in Seq(C)
  <2>1. pres \in Seq({e \in ToSet(t.events) : IsCall(rows, e)})
    BY <1>3, CallPresAre
  <2>2. calls = [k \in DOMAIN pres |-> CallOf(rows, t, at, pres[k])]
    BY DEF CallsOf
  <2>. HIDE DEF pres, calls
  <2>3. \A k \in DOMAIN pres : CallOf(rows, t, at, pres[k]) \in C
    BY <2>1
  <2>4. Len(pres) \in Nat /\ DOMAIN pres = 1 .. Len(pres)
    BY <2>1
  <2>. HIDE DEF C
  <2>. QED  BY <2>2, <2>3, <2>4
<1>. HIDE DEF calls, ended, C
<1>7. lane \in Seq(C)
  BY <1>6, LaneIs
<1>. HIDE DEF lane
<1>8. lane \in Seq(ToSet(lane)) /\ t.events \in Seq(ToSet(t.events))
  BY <1>3, <1>7, SeqOfOwn
<1>9. ASSUME NEW c \in ToSet(lane)
      PROVE  \E e \in ToSet(t.events) : c = CallOf(rows, t, at, e)
  BY <1>7 DEF ToSet, C
<1>10. \A e \in ToSet(t.events) :
         CallOf(rows, t, at, e).at = e.at /\ CallOf(rows, t, at, e).seq = e.seq
         /\ CallOf(rows, t, at, e).post = PostOf(rows, e.id)
  BY DEF CallOf
<1>11. \A id : PostOf(rows, id) \subseteq ToSet(rows)
  BY DEF PostOf, Half, FirstOf
<1>12. ASSUME NEW c \in ToSet(lane) PROVE c.at \in Int /\ \A p \in c.post : p.at \in Int
  BY <1>2, <1>5, <1>9, <1>10, <1>11
<1>13. ASSUME NEW d \in ToSet(rows), NEW e \in ToSet(rows), d.seq = e.seq PROVE d = e
  <2>1. PICK j \in DOMAIN rows, k \in DOMAIN rows : d = rows[j] /\ e = rows[k]
    BY DEF ToSet
  <2>2. rows[j] \in E /\ rows[k] \in E /\ j \in Nat /\ k \in Nat
    OBVIOUS
  <2>3. ~(j < k) /\ ~(k < j)
    BY <1>13, <2>1, <2>2 DEF Ascending
  <2>. QED  BY <2>1, <2>2, <2>3
<1>14. ASSUME NEW e \in ToSet(t.events), NEW c \in Enclosing(lane, e)
       PROVE  Enclosing(lane, e) = {c}
  <2>. SUFFICES ASSUME NEW d \in Enclosing(lane, e) PROVE d = c
    OBVIOUS
  <2>1. c \in ToSet(lane) /\ d \in ToSet(lane) /\ c.seq <= d.seq /\ d.seq <= c.seq
    BY DEF Enclosing, FirstOf
  <2>2. PICK x \in ToSet(t.events) : c = CallOf(rows, t, at, x)
    BY <1>9, <2>1
  <2>3. PICK y \in ToSet(t.events) : d = CallOf(rows, t, at, y)
    BY <1>9, <2>1
  <2>4. x.seq \in Nat /\ y.seq \in Nat /\ x.seq <= y.seq /\ y.seq <= x.seq
    BY <1>2, <1>5, <1>10, <2>1, <2>2, <2>3
  <2>5. x = y
    BY <1>2, <1>13, <2>4
  <2>. QED  BY <2>2, <2>3, <2>5
<1>15. ASSUME NEW j \in DOMAIN t.events, NEW k \in DOMAIN t.events, t.events[j] = t.events[k]
       PROVE  j = k
  <2>1. j \in Nat /\ k \in Nat /\ t.events[j].seq \in Nat
    BY <1>3
  <2>. QED  BY <1>2, <1>15, <2>1 DEF Ascending
<1>16. t.started_at \in Int /\ \A e \in ToSet(t.events) : e.at \in Int
  BY <1>2, <1>3, <1>5
<1>17. Timed(t, lane, ended)
  BY <1>4, <1>8, <1>12, <1>14, <1>15, <1>16 DEF Timed
<1>. QED  BY <1>17 DEF t, lane, calls, ended

(* What a turn's row says of its time.                                     *)
LEMMA BuiltSplit ==
  ASSUME NEW rows, NEW segs, NEW i, NEW at
  PROVE  \E next : LET t     == segs[i]
                       built == Built(rows, segs, i, at)
                       ended == EndedAt(rows, t, next)
                       lane  == MainCalls(CallsOf(rows, t, at))
                       dialogs == Dialogs(t, ended)
                   IN /\ built.ended_at = ended
                      /\ built.calls = CallsOf(rows, t, at)
                      /\ built.duration_ms = Larger(0, ended - t.started_at)
                      /\ built.tool_ms = UnionMs(ToolSpans(t, lane, dialogs, ended))
                      /\ built.wait_ms = Waited(t, lane, dialogs, ended)
                      /\ built.gap_ms = Larger(0, built.duration_ms - built.tool_ms - built.wait_ms)
<1>. DEFINE next == {segs[j] : j \in {i + 1} \cap DOMAIN segs}
            t     == segs[i]
            built == Built(rows, segs, i, at)
            ended == EndedAt(rows, t, next)
            lane  == MainCalls(CallsOf(rows, t, at))
            dialogs == Dialogs(t, ended)
<1>1. /\ built.ended_at = ended
      /\ built.calls = CallsOf(rows, t, at)
  BY DEF Built
<1>2. built.duration_ms = Larger(0, ended - t.started_at)
  BY DEF Built
<1>3. /\ built.tool_ms = UnionMs(ToolSpans(t, lane, dialogs, ended))
      /\ built.wait_ms = Waited(t, lane, dialogs, ended)
  BY DEF Built
<1>4. built.gap_ms = Larger(0, Larger(0, ended - t.started_at)
                                 - UnionMs(ToolSpans(t, lane, dialogs, ended))
                                 - Waited(t, lane, dialogs, ended))
  BY DEF Built
<1>5. built.gap_ms = Larger(0, built.duration_ms - built.tool_ms - built.wait_ms)
  BY <1>2, <1>3, <1>4
<1>. HIDE DEF next, built
<1>. QED  BY <1>1, <1>2, <1>3, <1>5 DEF built

(* However many events a session has: a turn's tool time is the measure of *)
(* what its calls cover, and tool time, waits and gaps add up to the turn  *)
(* whenever its dialogs lie apart.                                         *)
THEOREM TurnsAlwaysSplit ==
  ASSUME NEW E, \A e \in E : e.seq \in Nat \ {0} /\ e.at \in Int,
         NEW rows \in Seq(E), Ascending(rows), NEW at
  PROVE  /\ SplitAddsUp(Segments(rows), BuildTurns(rows, at))
         /\ ToolTimeIsMeasure(Segments(rows), BuildTurns(rows, at))
<1>. DEFINE segs == Segments(rows)
            all  == BuildTurns(rows, at)
<1>1. DOMAIN all = DOMAIN segs /\ \A i \in DOMAIN segs : all[i] = Built(rows, segs, i, at)
  BY DEF BuildTurns
<1>2. ASSUME NEW i \in DOMAIN segs
      PROVE  LET t     == segs[i]
                 ended == all[i].ended_at
                 lane  == MainCalls(all[i].calls)
                 dialogs == Dialogs(t, ended)
             IN /\ DialogsApart(t, lane, dialogs, ended) =>
                     all[i].duration_ms = all[i].tool_ms + all[i].wait_ms + all[i].gap_ms
                /\ all[i].tool_ms = Cardinality(Cover(ToolSpans(t, lane, dialogs, ended)))
  <2>. DEFINE t     == segs[i]
              built == all[i]
              ended == built.ended_at
              lane  == MainCalls(built.calls)
              dialogs == Dialogs(t, ended)
              spans == ToolSpans(t, lane, dialogs, ended)
              waits == Waited(t, lane, dialogs, ended)
  <2>1. PICK next : /\ ended = EndedAt(rows, t, next)
                    /\ built.calls = CallsOf(rows, t, at)
                    /\ built.duration_ms = Larger(0, ended - t.started_at)
                    /\ built.tool_ms = UnionMs(spans)
                    /\ built.wait_ms = waits
                    /\ built.gap_ms = Larger(0, built.duration_ms - built.tool_ms - built.wait_ms)
    <3>1. built = Built(rows, segs, i, at)
      BY <1>1
    <3>. HIDE DEF segs, built
    <3>. QED  BY <3>1, BuiltSplit
  <2>2. Timed(t, lane, ended)
    <3>1. Timed(t, MainCalls(CallsOf(rows, t, at)), EndedAt(rows, t, next))
      BY SegmentTimed
    <3>. HIDE DEF built
    <3>. QED  BY <2>1, <3>1
  <2>. HIDE DEF built, t, ended, lane
  <2>3. /\ UnionMs(spans) = Cardinality(Cover(spans)) /\ UnionMs(spans) \in Nat /\ waits \in Nat
        /\ DialogsApart(t, lane, dialogs, ended)
             => UnionMs(spans) + waits <= Larger(0, ended - t.started_at)
    BY <2>2, TurnSplits
  <2>4. ended - t.started_at \in Int
    BY <2>2 DEF Timed
  <2>. HIDE DEF spans, waits, dialogs
  <2>5. Larger(0, ended - t.started_at) \in Nat
    BY <2>4 DEF Larger
  <2>6. DialogsApart(t, lane, dialogs, ended) =>
          built.duration_ms = built.tool_ms + built.wait_ms + built.gap_ms
    BY <2>1, <2>3, <2>5 DEF Larger
  <2>. QED  BY <2>1, <2>3, <2>6 DEF built, t, ended, lane, spans, dialogs
<1>. HIDE DEF segs, all
<1>3. SplitAddsUp(segs, all)
  BY <1>1, <1>2 DEF SplitAddsUp
<1>4. ToolTimeIsMeasure(segs, all)
  BY <1>1, <1>2, Zenon DEF ToolTimeIsMeasure, Cover, Instants
<1>. QED  BY <1>3, <1>4 DEF segs, all

(* Events come at times that are numbers.                                  *)
Clocked == \A i \in DOMAIN arrived : arrived[i].at \in Nat

(* They do with every step.                                                *)
LEMMA ClockedStep == Numbered /\ Clocked /\ [NextTurns]_turnVars => Clocked'
<1>. SUFFICES ASSUME Numbered, Clocked, [NextTurns]_turnVars, arrived' # arrived PROVE Clocked'
  BY DEF Clocked
<1>0. PICK r : Comes(r)
  BY ArrivesIs
<1>. DEFINE E == ToSet(arrived) \cup {r}
            n == Len(arrived)
<1>1. arrived \in Seq(E) /\ r \in E
  BY DEF Numbered
<1>. HIDE DEF E
<1>2. /\ n \in Nat /\ DOMAIN arrived = 1 .. n
      /\ DOMAIN Append(arrived, r) = 1 .. n + 1
      /\ \A i \in 1 .. n : Append(arrived, r)[i] = arrived[i]
      /\ Append(arrived, r)[n + 1] = r
  BY <1>1
<1>3. \A i \in 1 .. n + 1 : i = n + 1 \/ i \in 1 .. n
  BY <1>2
<1>4. Clock \in Nat
  <2>1. CASE arrived = <<>>
    BY <2>1 DEF Clock
  <2>2. CASE arrived # <<>>
    <3>1. Last(arrived) = arrived[n] /\ n \in DOMAIN arrived
      BY <1>1, <1>2, <2>2 DEF Last
    <3>. QED  BY <2>2, <3>1 DEF Clock, Clocked
  <2>. QED  BY <2>1, <2>2
<1>5. r.at \in Nat
  BY <1>0, <1>4 DEF Comes
<1>. QED  BY <1>0, <1>2, <1>3, <1>5, Zenon DEF Clocked, Comes

(* The split of a turn's wall clock counts every instant once, whatever    *)
(* events arrive and however many.                                         *)
THEOREM TimeAlwaysSplits == SpecTurns => []TimeSplitSound
<1>1. InitTurns => Clocked
  BY DEF InitTurns, Clocked
<1>2. Numbered /\ Clocked => TimeSplitSound
  <2>. SUFFICES ASSUME Numbered, Clocked PROVE TimeSplitSound
    OBVIOUS
  <2>1. \A e \in ToSet(arrived) : e.at \in Int
    BY DEF Clocked, ToSet
  <2>2. \A e \in ToSet(arrived) : e.seq \in Nat \ {0} /\ e.at \in Int
    BY <2>1, NumberedAscends
  <2>3. /\ SplitAddsUp(Segments(arrived), Turns)
        /\ ToolTimeIsMeasure(Segments(arrived), Turns)
    BY <2>2, NumberedAscends, TurnsAlwaysSplit DEF Turns
  <2>. QED  BY <2>3 DEF TimeSplitSound
<1>. QED  BY <1>1, <1>2, ClockedStep, NumberedAlways, PTL DEF SpecTurns
=============================================================================
