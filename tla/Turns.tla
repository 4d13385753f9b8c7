--------------------------------- MODULE Turns ---------------------------------
(***************************************************************************)
(* Turn segmentation of the collector (buildTurns and attachTurnCosts in   *)
(* src/core/observability/server.mjs): one session's events, in seq order, *)
(* become turns with their calls, their split of the wall clock and their  *)
(* inefficiency flags.  Pure operators: `rows' is the session's part of    *)
(* the events table, `now' the clock at the time of the question.          *)
(*                                                                         *)
(* Payloads are reduced to what is judged: `tool', `key' (tool and input   *)
(* as one value; NoKey when the input was masked), `file' and the lines    *)
(* from .. to of a Read; a Notification is about a permission or not.      *)
(***************************************************************************)
EXTENDS Integers, FiniteSets, Sequences, SequencesExt

CONSTANTS
  NoId,        \* an event without tool_use_id
  NoKey,       \* an input with no verdict: masked by redaction
  ActiveMs,    \* ACTIVE_MS
  OrphanMs,    \* TURN_ORPHAN_MS
  RaceMs,      \* TURN_RACE_MS
  WaitCapMs,   \* TURN_WAIT_CAP_MS
  GuardCorrMs, \* TURN_GUARD_CORR_MS
  Dup, Reread, Retry, Storm, StormGapMs   \* TURN_FLAGS

ASSUME TurnsAssumption ==
  /\ {ActiveMs, OrphanMs, RaceMs, WaitCapMs, GuardCorrMs, StormGapMs} \subseteq Nat
  /\ {Dup, Reread, Retry, Storm} \subseteq Nat \ {0}

Larger(a, b) == IF a < b THEN b ELSE a
Smaller(a, b) == IF a < b THEN a ELSE b

(* The input of an event that no flag looks at.                            *)
NoInput == [tool |-> "Other", key |-> NoKey, file |-> "", from |-> 0, to |-> 0]

(* At most one event: the first of a set.                                  *)
FirstOf(S) == {e \in S : \A f \in S : e.seq <= f.seq}

-----------------------------------------------------------------------------
(* Pairing and segmentation.                                               *)

(* A call's Pre and Post are looked for in the whole session: a background *)
(* task's Post may land turns later.                                       *)
Half(rows, type, id) ==
  IF id = NoId THEN {} ELSE FirstOf({e \in ToSet(rows) : e.type = type /\ e.id = id})
PreOf(rows, id) == Half(rows, "PreToolUse", id)
PostOf(rows, id) == Half(rows, "PostToolUse", id)

Opened(r, virtual) ==
  [virtual |-> virtual, turn_seq |-> IF virtual THEN 0 ELSE r.seq,
   started_at |-> r.at, queued |-> 0, events |-> <<>>, stops |-> <<>>]

Put(turns, i, r) ==
  [turns EXCEPT ![i].events = Append(@, r),
                ![i].stops = IF r.type = "Stop" THEN Append(@, r) ELSE @]

(* Faulty: any call still unanswered at the prompt keeps the turn going.   *)
QueuedIfInFlight(rows, cur, r) ==
  /\ ~cur.virtual /\ cur.stops = <<>>
  /\ \E e \in ToSet(cur.events) :
       e.type = "PreToolUse" /\ \A p \in PostOf(rows, e.id) : p.seq > r.seq

(* A prompt was queued in a running turn when a call of that turn is       *)
(* answered after it; after Esc the call stays unanswered for ever.        *)
Queued(rows, cur, r) ==
  /\ ~cur.virtual /\ cur.stops = <<>>
  /\ \E e \in ToSet(cur.events) :
       e.type = "PreToolUse" /\ \E p \in PostOf(rows, e.id) : p.seq > r.seq

(* Faulty: any event may be raced, not only a Stop.                        *)
RacedWhatever(turns, r) ==
  LET cur == Last(turns)
  IN /\ ~cur.virtual /\ Len(turns) >= 2
     /\ r.at - cur.started_at <= RaceMs
     /\ \A e \in ToSet(cur.events) : e.type \notin {"PreToolUse", "PostToolUse"}

(* A Stop that comes right after the prompt of a turn without a call was   *)
(* sent before it: the two hooks are processes of their own.               *)
Raced(turns, r) ==
  LET cur == Last(turns)
  IN /\ r.type = "Stop" /\ ~cur.virtual /\ Len(turns) >= 2
     /\ r.at - cur.started_at <= RaceMs
     /\ \A e \in ToSet(cur.events) : e.type \notin {"PreToolUse", "PostToolUse"}

Place(rows, turns, r) ==
  LET n == Len(turns)
  IN IF r.type = "UserPromptSubmit"
     THEN IF n > 0 /\ Queued(rows, Last(turns), r)
          THEN [Put(turns, n, r) EXCEPT ![n].queued = @ + 1]
          ELSE Append(turns, Opened(r, FALSE))
     ELSE IF n = 0 THEN Put(<<Opened(r, TRUE)>>, 1, r)
     ELSE IF Raced(turns, r) THEN Put(turns, n - 1, r)
     ELSE Put(turns, n, r)

(* Event by event; what a call is paired with is looked up in all of them. *)
PlaceNext(acc, r) == [acc EXCEPT !.turns = Place(acc.rows, @, r)]
Segments(rows) == FoldLeft(PlaceNext, [rows |-> rows, turns |-> <<>>], rows).turns

(* A call made before seq and answered after it.                           *)
Crosses(rows, e, seq) ==
  /\ e.type = "PreToolUse" /\ e.seq < seq
  /\ \E p \in PostOf(rows, e.id) : p.seq > seq

(* The events of turn i, with the one that opened it.                      *)
Holds(turns, i, r) == r.seq = turns[i].turn_seq \/ r \in ToSet(turns[i].events)

(* A loop that ran on past a prompt is one turn, and only such a loop:     *)
(* when a call is answered after the next turn began, its own turn had     *)
(* seen a Stop before that, or had no prompt; and a prompt lies within a   *)
(* turn only when a call made before it was answered after it.  Each event *)
(* opens one turn or lies in exactly one.                                  *)
LoopsAreTurns(rows) ==
  LET turns == Segments(rows)
  IN /\ \A r \in ToSet(rows) : Cardinality({i \in DOMAIN turns : Holds(turns, i, r)}) = 1
     /\ \A i \in 1 .. Len(turns) - 1 :
          ~turns[i].virtual /\ (\E e \in ToSet(turns[i].events) : Crosses(rows, e, turns[i + 1].turn_seq))
            => \E s \in ToSet(turns[i].stops) : s.seq < turns[i + 1].turn_seq
     /\ \A i \in DOMAIN turns : \A r \in ToSet(turns[i].events) :
          r.type = "UserPromptSubmit" =>
            \E e \in ToSet(turns[i].events) : Crosses(rows, e, r.seq)

-----------------------------------------------------------------------------
(* One turn: t, with the turn after it as `next', a set of at most one.      *)

LastAt(t) == IF t.events = <<>> THEN t.started_at ELSE Larger(t.started_at, Last(t.events).at)

Status(t, next, now) ==
  IF t.virtual THEN "virtual"
  ELSE IF t.stops # <<>> THEN "complete"
  ELSE IF next = {} /\ now - LastAt(t) < ActiveMs THEN "open"
  ELSE "interrupted"

(* The end of the main chain: the last Stop -- or, when that one was lost, *)
(* the main-lane call made after the last Stop seen, and its answer if it  *)
(* comes before the next turn.                                             *)
EndedAt(rows, t, next) ==
  IF t.virtual \/ t.stops = <<>> THEN LastAt(t)
  ELSE LET stop  == Last(t.stops)
           calls == {e \in ToSet(t.events) : /\ e.seq > stop.seq /\ ~e.agent
                                             /\ e.type = "PreToolUse"}
           ends  == {stop.at} \cup {e.at : e \in calls} \cup
                    {p.at : p \in {p \in UNION {PostOf(rows, e.id) : e \in calls} :
                                     \A s \in next : p.seq < s.turn_seq}}
       IN CHOOSE m \in ends : \A x \in ends : x <= m

IsCall(rows, e) == e.type = "PreToolUse" /\ e \in PreOf(rows, e.id)

CallOf(rows, t, now, e) ==
  LET post == PostOf(rows, e.id)
  IN [id |-> e.id, seq |-> e.seq, agent |-> e.agent, at |-> e.at, post |-> post,
      tail |-> t.stops # <<>> /\ e.seq > Last(t.stops).seq,
      status |-> IF \E p \in post : p.error THEN "error"
                 ELSE IF post # {} THEN "ok"
                 ELSE IF now - e.at >= OrphanMs THEN "orphan"
                 ELSE "pending",
      input |-> e.input]

(* The Pres of a turn that are calls, in order.                            *)
TakeNext(acc, e) == IF IsCall(acc.rows, e) THEN [acc EXCEPT !.pres = Append(@, e)] ELSE acc
CallPres(rows, t) == FoldLeft(TakeNext, [rows |-> rows, pres |-> <<>>], t.events).pres

CallsOf(rows, t, now) ==
  LET pres == CallPres(rows, t)
  IN [i \in DOMAIN pres |-> CallOf(rows, t, now, pres[i])]

(* Halves that found no partner, and Pres without an id.                   *)
Unpaired(rows, t) ==
  {e \in ToSet(t.events) : \/ e.type = "PostToolUse" /\ PreOf(rows, e.id) = {}
                           \/ e.type = "PreToolUse" /\ ~IsCall(rows, e)}

(* The calls of the main lane.                                             *)
MainNext(main, c) == IF c.agent THEN main ELSE Append(main, c)
MainCalls(calls) == FoldLeft(MainNext, <<>>, calls)

-----------------------------------------------------------------------------
(* The time split.                                                         *)

(* The first call of the main lane under way when permission was asked.    *)
Enclosing(main, e) ==
  FirstOf({c \in ToSet(main) : c.at <= e.at /\ \E p \in c.post : e.at <= p.at})

(* A permission dialog lasts until the answer of the call it is about, or  *)
(* until the next event of the turn when no call encloses it.              *)
WaitEnd(t, main, e, ended) ==
  LET call == Enclosing(main, e)
      then == FirstOf({x \in ToSet(t.events) : x.seq > e.seq})
  IN IF call # {} THEN (CHOOSE p \in UNION {c.post : c \in call} : TRUE).at
     ELSE IF then # {} THEN (CHOOSE x \in then : TRUE).at
     ELSE ended

Dialogs(t, ended) ==
  {e \in ToSet(t.events) : e.type = "Notification" /\ e.permission /\ e.at <= ended}

WaitOf(t, main, e, ended) ==
  Smaller(Larger(0, WaitEnd(t, main, e, ended) - e.at), WaitCapMs)

(* Event by event of the turn.                                             *)
Plus(ms, more) == ms + more
Waited(t, main, dialogs, ended) ==
  FoldLeft(Plus, 0, [k \in DOMAIN t.events |->
                       IF t.events[k] \in dialogs THEN WaitOf(t, main, t.events[k], ended) ELSE 0])

(* Faulty: overlapping calls are added up.                                 *)
SummedMs(intervals) ==
  MapThenSumSet(LAMBDA k : Larger(0, intervals[k][2] - intervals[k][1]), DOMAIN intervals)

(* turnUnionMs: the length of a union of intervals, in one sweep over      *)
(* those that are not empty, by their start.                               *)
PutByStart(sorted, x) ==
  IF x[1] >= x[2] THEN sorted
  ELSE InsertAt(sorted, 1 + (CHOOSE k \in 0 .. Len(sorted) :
                               \A i \in DOMAIN sorted : i <= k <=> sorted[i][1] <= x[1]), x)

SweepNext(acc, x) ==
  IF acc.open = <<>> THEN [total |-> acc.total, open |-> x]
  ELSE IF x[1] > acc.open[2]
  THEN [total |-> acc.total + acc.open[2] - acc.open[1], open |-> x]
  ELSE [total |-> acc.total, open |-> <<acc.open[1], Larger(acc.open[2], x[2])>>]

UnionMs(intervals) ==
  LET sweep == FoldLeft(SweepNext, [total |-> 0, open |-> <<>>],
                        FoldLeft(PutByStart, <<>>, intervals))
  IN IF sweep.open = <<>> THEN 0 ELSE sweep.total + sweep.open[2] - sweep.open[1]

(* A call's part of tool_ms: clipped to the turn, its own waits cut off at *)
(* its end; nothing of a call without an answer, or behind the last Stop.  *)
ToolSpan(t, main, dialogs, ended, c) ==
  LET post == (CHOOSE p \in c.post : TRUE).at
      wait == Waited(t, main, {e \in dialogs : c \in Enclosing(main, e)}, ended)
  IN IF c.post = {} \/ c.tail THEN <<ended, ended>>
     ELSE <<Larger(c.at, t.started_at), Smaller(ended, post - wait)>>

ToolSpans(t, main, dialogs, ended) ==
  [k \in DOMAIN main |-> ToolSpan(t, main, dialogs, ended, main[k])]

(* Denials that explain a call which never ran: by the id the guard put    *)
(* into its event, else the first orphan within a few seconds of it.       *)
Denied(calls, e) ==
  IF e.id # NoId THEN {c \in ToSet(calls) : c.id = e.id /\ c.status = "orphan"}
  ELSE FirstOf({c \in ToSet(calls) : /\ c.status = "orphan"
                                     /\ c.at - e.at <= GuardCorrMs
                                     /\ e.at - c.at <= GuardCorrMs})

-----------------------------------------------------------------------------
(* Inefficiency flags, over the main lane's calls in order.                *)

Mutating == {"Edit", "Write", "MultiEdit", "NotebookEdit"}
Readonly == {"Read", "Grep", "Glob", "WebFetch", "WebSearch"}

(* A state change that makes the repetition of a call with input x fair.   *)
Invalidates(c, x) ==
  \/ c.input.tool = "Bash"
  \/ c.input.tool \in Mutating /\ x.file # "" /\ c.input.file = x.file

(* Faulty: the original is not moved on past an invalidated one.           *)
DupStepStuck(acc, k) ==
  LET x    == acc.calls[k].input
      prev == {j \in acc.first : acc.calls[j].input.key = x.key}
  IN IF x.key = NoKey THEN acc
     ELSE IF prev = {} THEN [acc EXCEPT !.first = @ \cup {k}]
     ELSE IF \E p \in prev : \E j \in p + 1 .. k - 1 : Invalidates(acc.calls[j], x)
     THEN acc
     ELSE [acc EXCEPT !.dups = @ \cup {<<k, CHOOSE p \in prev : TRUE>>}]

(* Call k: `first' holds, for each key, the call that later ones repeat.   *)
DupStep(acc, k) ==
  LET x    == acc.calls[k].input
      prev == {j \in acc.first : acc.calls[j].input.key = x.key}
  IN IF x.key = NoKey THEN acc
     ELSE IF prev = {} THEN [acc EXCEPT !.first = @ \cup {k}]
     ELSE IF \E p \in prev : \E j \in p + 1 .. k - 1 : Invalidates(acc.calls[j], x)
     THEN [acc EXCEPT !.first = (@ \ prev) \cup {k}]
     ELSE [acc EXCEPT !.dups = @ \cup {<<k, CHOOSE p \in prev : TRUE>>}]

(* The repeated calls, each with the call it repeats.                      *)
Dups(main) ==
  FoldLeft(DupStep, [calls |-> main, first |-> {}, dups |-> {}], [k \in DOMAIN main |-> k]).dups

(* At least Reread reads of one file that overlap another read of it.      *)
Rereads(main) ==
  LET Of(file) == {k \in DOMAIN main : main[k].input.tool = "Read" /\ main[k].input.file = file}
      Meets(j, k) == /\ j # k
                     /\ main[j].input.from < main[k].input.to
                     /\ main[k].input.from < main[j].input.to
  IN \E file \in {c.input.file : c \in ToSet(main)} \ {""} :
       Cardinality({j \in Of(file) : \E k \in Of(file) : Meets(j, k)}) >= Reread

(* The same call failing again and again: one look at something in between *)
(* keeps the chain alive, anything else ends it.                           *)
RetryStep(acc, c) ==
  IF acc.found THEN acc
  ELSE IF c.input.key # NoKey /\ c.status = "error"
  THEN LET n == IF c.input.key = acc.key THEN acc.count + 1 ELSE 1
       IN [key |-> c.input.key, count |-> n, slack |-> FALSE, found |-> n >= Retry]
  ELSE IF acc.key # NoKey /\ c.input.tool \in Readonly /\ ~acc.slack
  THEN [acc EXCEPT !.slack = TRUE]
  ELSE [key |-> NoKey, count |-> 0, slack |-> FALSE, found |-> FALSE]

Retries(main) ==
  FoldLeft(RetryStep, [key |-> NoKey, count |-> 0, slack |-> FALSE, found |-> FALSE], main).found

(* A call that starts before every earlier one has ended is parallel.      *)
Ends(c) == IF c.post = {} THEN {c.at} ELSE {p.at : p \in c.post}
Parallel(main, start, k) ==
  \/ main[k].at < start
  \/ \E j \in 1 .. k - 1 : \E at \in Ends(main[j]) : main[k].at < at

(* Searches before the first read or edit; those sent together count once. *)
Storms(main, start) ==
  LET Search(k) == /\ main[k].input.tool \in {"Grep", "Glob"}
                   /\ \A j \in 1 .. k : main[j].input.tool \notin Mutating \cup {"Read"}
      searches  == {k \in DOMAIN main : Search(k)}
      Before(k) == {j \in searches : j < k /\ \A i \in searches : i < k => i <= j}
  IN Storm <= Cardinality({k \in searches :
       \A j \in Before(k) :
         ~Parallel(main, start, k) /\ main[k].at - main[j].at > StormGapMs})

Flags(t, main) ==
  IF t.virtual THEN {}
  ELSE (IF Cardinality(Dups(main)) >= Dup - 1 THEN {"dup-call"} ELSE {}) \cup
       (IF Rereads(main) THEN {"re-read"} ELSE {}) \cup
       (IF Retries(main) THEN {"retry-loop"} ELSE {}) \cup
       (IF Storms(main, t.started_at) THEN {"search-storm"} ELSE {}) \cup
       (IF \E c \in ToSet(main) : c.status = "orphan" THEN {"orphaned"} ELSE {})

-----------------------------------------------------------------------------
(* What a turn's row counts besides: calls that failed or never ended, the *)
(* subagents' share of them, and the tail behind the last Stop.            *)
TallyOf(t, calls) ==
  LET With(status) == Cardinality({c \in ToSet(calls) : c.status = status})
  IN [errors |-> With("error"), orphans |-> With("orphan"),
      subagent_calls |-> Len(calls) - Len(MainCalls(calls)),
      post_stop_events |-> IF t.stops = <<>> THEN 0
                           ELSE Cardinality({e \in ToSet(t.events) : e.seq > Last(t.stops).seq})]

Built(rows, turns, i, now) ==
  LET t       == turns[i]
      next    == {turns[j] : j \in {i + 1} \cap DOMAIN turns}
      ended   == EndedAt(rows, t, next)
      calls   == CallsOf(rows, t, now)
      main    == MainCalls(calls)
      dialogs == Dialogs(t, ended)
      lasted  == Larger(0, ended - t.started_at)
      tool    == UnionMs(ToolSpans(t, main, dialogs, ended))
      waited  == Waited(t, main, dialogs, ended)
  IN [turn_seq |-> t.turn_seq, status |-> Status(t, next, now), queued |-> t.queued,
      started_at |-> t.started_at, ended_at |-> ended, duration_ms |-> lasted,
      tool_ms |-> tool, wait_ms |-> waited, gap_ms |-> Larger(0, lasted - tool - waited),
      calls |-> calls, unpaired |-> Unpaired(rows, t), tally |-> TallyOf(t, calls),
      guard_denies |-> {e \in ToSet(t.events) : e.type = "GuardDecision" /\ Denied(calls, e) # {}},
      flags |-> Flags(t, main)]

BuildTurns(rows, now) ==
  LET turns == Segments(rows)
  IN [i \in DOMAIN turns |-> Built(rows, turns, i, now)]

-----------------------------------------------------------------------------
(* attachTurnCosts: the turn a usage row is charged to.  By the calls the  *)
(* message made; by the calls it answers, only when it made none; else by  *)
(* its time; else to none.  `ids' are in the order of the message.         *)

TurnsOf(turns, ids) ==
  LET Has(i, id) == \E c \in ToSet(turns[i].calls) : c.id = id
      hits == {k \in DOMAIN ids : \E i \in DOMAIN turns : Has(i, ids[k])}
  IN {i \in DOMAIN turns : \E k \in hits : Has(i, ids[k]) /\ \A h \in hits : k <= h}

(* Faulty: the calls a message answers are asked in any case.              *)
ChargedToFollows(turns, u) ==
  LET byEmitted == TurnsOf(turns, u.emitted)
      byFollows == TurnsOf(turns, u.follows)
      byTime    == {i \in DOMAIN turns : turns[i].started_at <= u.ts /\ u.ts <= turns[i].ended_at}
  IN IF byEmitted # {} THEN byEmitted
     ELSE IF byFollows # {} THEN byFollows
     ELSE {i \in byTime : \A j \in byTime : i <= j}

Charged(turns, u) ==
  LET byEmitted == TurnsOf(turns, u.emitted)
      byFollows == IF u.emitted = <<>> THEN TurnsOf(turns, u.follows) ELSE {}
      byTime    == {i \in DOMAIN turns : turns[i].started_at <= u.ts /\ u.ts <= turns[i].ended_at}
  IN IF byEmitted # {} THEN byEmitted
     ELSE IF byFollows # {} THEN byFollows
     ELSE {i \in byTime : \A j \in byTime : i <= j}

(* A usage row is charged to one turn at most.  A message that made calls  *)
(* is charged to the turn of the first, and never by those it answers: the *)
(* message after a turn that ended in a call belongs to the turn it opens, *)
(* not to the one it closes.                                               *)
ChargedToOne(turns, u) ==
  LET by == Charged(turns, u)
  IN /\ Cardinality(by) <= 1
     /\ u.emitted # <<>> =>
          /\ by = Charged(turns, [u EXCEPT !.follows = <<>>])
          /\ \A i \in DOMAIN turns :
               (\E c \in ToSet(turns[i].calls) : c.id = u.emitted[1]) => by = {i}

(* cost_usd and cost_subagent_usd of turn i, as the rows they add up.      *)
CostRows(turns, usage, i, sidechain) ==
  {u \in usage : u.sidechain = sidechain /\ Charged(turns, u) = {i}}
=============================================================================
