------------------------------ MODULE Materializer ------------------------------
(***************************************************************************)
(* The turn materializer of the collector                                  *)
(* (src/core/observability/server.mjs): a sweep re-derives the turns of a  *)
(* session from its events and keeps the settled ones in the table turns,  *)
(* which is to outlive the events; retention sweeps, pins the session's    *)
(* label, and trims the oldest events; a frozen session has lost its head  *)
(* and is never re-derived.                                                *)
(*                                                                         *)
(* Sessions are materialized one by one and share nothing but SEQ, so this *)
(* is one session; that others hold the largest seq is a choice at boot.   *)
(* The clock moves in units of the sweep interval or more, OrphanMs being  *)
(* several of them.  One configuration; the limit of sessions per sweep is *)
(* not reached.                                                            *)
(***************************************************************************)
EXTENDS Turns

CONSTANTS
  MaxEvents, \* bound: events of the session
  MaxCalls,  \* bound: calls among them
  MaxUsage,  \* bound: usage rows
  MaxNow,    \* bound: the clock
  MaxFaults  \* bound: restarts, and sweeps that do not happen

(* The sweeps look at a silent session until its last turn is no longer    *)
(* open: the two cutoffs are the same unless one of them is configured.    *)
ASSUME RecheckAssumption == ActiveMs < 2 * OrphanMs

VARIABLES
  now,      \* the clock
  faults,   \* bound: restarts and missed sweeps so far
  SEQ,      \* the last sequence number handed out
  events,   \* the session's rows of the events table
  usage,    \* the session's rows of the usage table
  turns,    \* the session's rows of the turns table
  cursor,   \* its row of turn_cursor: a set of at most one
  label,    \* its session_labels row: the id of a prompt, 0 when there is none
  stored,   \* bound: events stored so far
  made,     \* the tool calls Claude Code has announced
  unanswered, \* those it has not seen the end of
  opening,  \* history: seq of the first prompt ever stored, 0 when there is none
  fresh,    \* history: a sweep has seen the tables as they are
  missed,   \* history: a unit passed after the last event without a sweep
  outlived, \* history: rows of turns whose opening event was trimmed
  holes,    \* history: settled turns trimmed without a row, no sweep being missed
  reseeded  \* history: SEQ restarted below a seq the session has used

session == <<events, usage, stored, made, unanswered, opening>>
tables  == <<turns, cursor, label>>
history == <<fresh, missed, outlived, holes, reseeded>>
vars == <<now, faults, SEQ, session, tables, history>>

MaxSeq(rows) == IF rows = <<>> THEN 0 ELSE Last(rows).seq
Epoch == Cardinality(usage)   \* MAX(inserted_at): it grows with every row

-----------------------------------------------------------------------------
(* materializeSession.                                                     *)

Idle(rows, at) == at - Last(rows).at >= OrphanMs
Ended(rows) == \E r \in ToSet(rows) : r.type = "SessionEnd"

(* The settle rule: not the last turn of a live session, and none with a   *)
(* call of the main lane that may still be answered.                       *)
Settled(rows, all, at) ==
  {i \in DOMAIN all :
     /\ i < Len(all) \/ Ended(rows) \/ Idle(rows, at)
     /\ \A c \in ToSet(all[i].calls) : ~(~c.agent /\ c.status = "pending")}

(* The row of turn i.                                                      *)
TurnRow(all, i, uses) ==
  [turn_seq |-> all[i].turn_seq, status |-> all[i].status, ended_at |-> all[i].ended_at,
   tool_ms |-> all[i].tool_ms, calls |-> Len(all[i].calls),
   orphans |-> Cardinality({c \in ToSet(all[i].calls) : c.status = "orphan"}),
   queued |-> all[i].queued,
   cost |-> {u.id : u \in CostRows(all, uses, i, FALSE)},
   cost_subagent |-> {u.id : u \in CostRows(all, uses, i, TRUE)}]

(* What the drill-down, asked at the same time, says of the settled turns. *)
SettledRows(rows, all, at) == {TurnRow(all, i, usage) : i \in Settled(rows, all, at)}
Derived(rows, at) == SettledRows(rows, BuildTurns(rows, at), at)


(* DELETE what is no turn any more, upsert what is settled.                *)
Reconciled(derived, all) ==
  {r \in turns : /\ \E i \in DOMAIN all : all[i].turn_seq = r.turn_seq
                 /\ \A s \in derived : s.turn_seq # r.turn_seq}
    \cup derived

(* Faulty: the head is not looked at.                                      *)
NeverBeheaded(rows) == FALSE

(* Events the session once began with are gone.                            *)
Beheaded(rows) == \E c \in cursor : c.anchor > 0 /\ Head(rows).seq > c.anchor

(* Faulty: a session without news is not looked at.                        *)
BehindOnly(rows, at) ==
  /\ rows # <<>>
  /\ \A c \in cursor : ~c.frozen /\ (c.through < MaxSeq(rows) \/ c.epoch < Epoch)

(* turnCandidates: behind a watermark, or so lately active that the clock  *)
(* alone may settle something.                                             *)
Candidate(rows, at) ==
  /\ rows # <<>>
  /\ \A c \in cursor : /\ ~c.frozen
                       /\ \/ c.through < MaxSeq(rows) \/ c.epoch < Epoch
                          \/ at - Last(rows).at < 2 * OrphanMs

Anchor(rows) == IF cursor = {} THEN Head(rows).seq ELSE (CHOOSE c \in cursor : TRUE).anchor

(* The watermark after a session is re-derived.  The usage that no settled *)
(* turn is charged is the session's residual, unattributed_cost_usd.       *)
Watermark(rows, derived) ==
  [through |-> MaxSeq(rows), anchor |-> Anchor(rows), epoch |-> Epoch, frozen |-> FALSE,
   unattributed |-> {u.id : u \in usage} \ UNION {r.cost \cup r.cost_subagent : r \in derived}]

(* The turns are derived once; rows and watermark are of the same answer.  *)
Rederived(rows, at) ==
  LET all     == BuildTurns(rows, at)
      derived == SettledRows(rows, all, at)
  IN /\ turns' = Reconciled(derived, all)
     /\ cursor' = {Watermark(rows, derived)}

(* One sweep: skipped, frozen, or re-derived in one transaction.           *)
Sweep(rows, at) ==
  \/ /\ ~Candidate(rows, at)
     /\ UNCHANGED <<turns, cursor>>
  \/ /\ Candidate(rows, at) /\ Beheaded(rows)
     /\ cursor' = {[c EXCEPT !.frozen = TRUE] : c \in cursor}
     /\ UNCHANGED turns
  \/ /\ Candidate(rows, at) /\ ~Beheaded(rows)
     /\ Rederived(rows, at)

-----------------------------------------------------------------------------
(* An event of the session is stored.                                      *)
Receive(type, id, agent) ==
  LET r == [seq |-> SEQ + 1, type |-> type, id |-> id, agent |-> agent, at |-> now,
            error |-> FALSE, permission |-> FALSE, input |-> NoInput]
  IN /\ stored < MaxEvents
     /\ SEQ' = SEQ + 1 /\ stored' = stored + 1
     /\ events' = Append(events, r)
     /\ opening' = IF opening = 0 /\ type = "UserPromptSubmit" THEN SEQ' ELSE opening
     /\ fresh' = FALSE /\ missed' = FALSE
     /\ UNCHANGED <<now, faults, usage, tables, outlived, holes, reseeded>>

ReceiveAny ==
  \/ /\ \E type \in {"UserPromptSubmit", "Stop", "SessionEnd"} : Receive(type, NoId, FALSE)
     /\ UNCHANGED <<made, unanswered>>
  \/ \E id \in 1 .. MaxCalls, agent \in BOOLEAN :
       /\ id \notin made
       /\ Receive("PreToolUse", id, agent)
       /\ made' = made \cup {id} /\ unanswered' = unanswered \cup {id}
  \/ \E id \in unanswered :
       /\ Receive("PostToolUse", id, FALSE)
       /\ unanswered' = unanswered \ {id} /\ UNCHANGED made

(* The transcript parser stores a message of the main transcript, with the *)
(* calls it made, later than the events it belongs to.                     *)
UsageArrives ==
  /\ Epoch < MaxUsage
  /\ usage' = usage \cup {[id |-> Epoch + 1, emitted |-> SetToSeq(made), follows |-> <<>>,
                            ts |-> now, sidechain |-> FALSE]}
  /\ fresh' = FALSE /\ missed' = FALSE
  /\ UNCHANGED <<now, faults, SEQ, events, stored, made, unanswered, opening, tables,
                 outlived, holes, reseeded>>

(* No sweep: the transaction failed and was rolled back, or the collector  *)
(* was down.                                                               *)
NoSweep == /\ faults < MaxFaults
           /\ faults' = faults + 1
           /\ missed' = TRUE
           /\ UNCHANGED <<turns, cursor>>

(* The clock moves on, and the interval timer has fired once more by then. *)
Tick ==
  /\ now < MaxNow
  /\ now' = now + 1
  /\ \/ Sweep(events, now + 1) /\ fresh' = TRUE /\ UNCHANGED <<missed, faults>>
     \/ NoSweep /\ fresh' = FALSE
  /\ UNCHANGED <<SEQ, session, label, outlived, holes, reseeded>>

(* Faulty: retention trims without sweeping first.                         *)
TrimOnly(at) == UNCHANGED <<turns, cursor>>

(* The sweep retention begins with.                                        *)
SweepFirst(at) == Sweep(events, at)

FirstPrompt(rows) ==
  LET first == FirstOf({r \in ToSet(rows) : r.type = "UserPromptSubmit"})
  IN IF first = {} THEN 0 ELSE (CHOOSE r \in first : TRUE).seq

(* runRetention: one sweep, the label, and then the oldest rows go, by     *)
(* age, by number or by size.                                              *)
Retention(n) ==
  /\ n \in 1 .. Len(events)
  /\ events' = SubSeq(events, n + 1, Len(events))
  /\ \/ SweepFirst(now) /\ UNCHANGED <<missed, faults>>
     \/ NoSweep
  /\ label' = IF label = 0 THEN FirstPrompt(events) ELSE label
  /\ fresh' = FALSE
  /\ LET Gone(seq) == \E i \in 1 .. n : events[i].seq = seq \/ (seq = 0 /\ i = 1)
         settled   == {r.turn_seq : r \in Derived(events, now)}
     IN /\ outlived' = outlived \cup {r \in turns' : Gone(r.turn_seq)}
        /\ holes' = holes \cup
             IF missed' \/ Beheaded(events) \/ \E c \in cursor : c.frozen THEN {}
             ELSE {seq \in settled : Gone(seq) /\ \A r \in turns' : r.turn_seq # seq}
  /\ UNCHANGED <<now, SEQ, usage, stored, made, unanswered, opening, reseeded>>

(* materialize-turns --rebuild: every watermark back to zero, one sweep.   *)
Rebuild ==
  /\ LET Reset(c) == IF c.frozen THEN c ELSE [c EXCEPT !.through = 0, !.epoch = 0]
     IN \/ /\ events = <<>>
           /\ cursor' = {Reset(c) : c \in cursor} /\ UNCHANGED <<turns, fresh>>
        \/ /\ events # <<>> /\ \A c \in cursor : ~c.frozen
           /\ ~Beheaded(events)
           /\ Rederived(events, now) /\ fresh' = TRUE
        \/ /\ events # <<>> /\ \E c \in cursor : c.frozen \/ Beheaded(events)
           /\ cursor' = {[Reset(c) EXCEPT !.frozen = TRUE] : c \in cursor}
           /\ UNCHANGED <<turns, fresh>>
  /\ UNCHANGED <<now, faults, SEQ, session, label, missed, outlived, holes, reseeded>>

(* The collector stops or is killed, and starts again; time it was down    *)
(* for is missed sweeps.  SEQ continues from MAX(seq): the session's own,  *)
(* or another's.                                                           *)
Restart ==
  /\ faults < MaxFaults
  /\ faults' = faults + 1
  /\ SEQ' \in {MaxSeq(events), SEQ}
  /\ reseeded' = (reseeded \/ SEQ' < SEQ)
  /\ UNCHANGED <<now, session, tables, fresh, missed, outlived, holes>>

Init ==
  /\ now = 0 /\ faults = 0 /\ SEQ = 0
  /\ events = <<>> /\ usage = {} /\ stored = 0 /\ made = {} /\ unanswered = {} /\ opening = 0
  /\ turns = {} /\ cursor = {} /\ label = 0
  /\ fresh = FALSE /\ missed = FALSE /\ outlived = {} /\ holes = {} /\ reseeded = FALSE

Next ==
  \/ ReceiveAny
  \/ UsageArrives
  \/ Tick
  \/ \E n \in 1 .. MaxEvents : Retention(n)
  \/ Rebuild
  \/ Restart

Spec == Init /\ [][Next]_vars

-----------------------------------------------------------------------------
(* Properties.                                                             *)

(* The turns table says of every settled turn what the drill-down would    *)
(* say now, and holds no turn the drill-down does not know, although a     *)
(* session without news is not looked at any more: calls aged to orphans,  *)
(* the last turn of a silent session, prompts that turned out to be        *)
(* queued, late usage -- as long as no sweep was missed, the session has   *)
(* its head, and SEQ never started over below the session's first event,   *)
(* which hides from materializeSession that a head is gone.                *)
MatchesDrillDown ==
  LET all == BuildTurns(events, now)
  IN /\ SettledRows(events, all, now) \subseteq turns
     /\ {r.turn_seq : r \in turns} \subseteq {t.turn_seq : t \in ToSet(all)}
Whole == events # <<>> /\ ~Beheaded(events) /\ \A c \in cursor : ~c.frozen
RowsMatchDrillDown == reseeded \/ (fresh /\ ~missed /\ Whole => MatchesDrillDown)

(* A turn that was settled when its events were trimmed has its row, but   *)
(* for a missed sweep, or a session that had lost its head before -- again *)
(* unless SEQ started over.                                                *)
NoHoleUnlessMissed == reseeded \/ holes = {}

(* server.mjs:521, the turns table "OUTLIVES `events`": the row of a turn  *)
(* whose events are gone stays as it is.                                   *)
HistoryOutlivesEvents == outlived \subseteq turns

(* README.md:67, "`unattributed = session total - (sum of) settled` keeps  *)
(* the cost identity exact": after a sweep every usage row of the session  *)
(* is in one turn's cost, or in the residual, and in no two of them.       *)
CostIdentity ==
  fresh /\ ~missed /\ Whole
    => \A u \in usage :
         LET rows == {r \in turns : u.id \in r.cost \cup r.cost_subagent}
             rest == {c \in cursor : u.id \in c.unattributed}
         IN Cardinality(rows) + Cardinality(rest) = 1

(* It does, and the label is the session's first prompt, through any       *)
(* sequence of trims, resumptions, restarts and rebuilds -- unless SEQ     *)
(* started over below the session's first event.                           *)
HistoryKept ==
  reseeded \/ (HistoryOutlivesEvents /\ label \in {0, opening})
=============================================================================
