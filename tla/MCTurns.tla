-------------------------------- MODULE MCTurns --------------------------------
(***************************************************************************)
(* Every short session, and every short list of calls of one turn, for the *)
(* operators of Turns: events arrive one at a time, in any order the hook  *)
(* processes may bring them, and the operators are asked after each.       *)
(***************************************************************************)
EXTENDS Turns

CONSTANTS
  MaxRows,   \* bound: events of a session
  MaxLane    \* bound: main-lane calls of a turn

VARIABLES
  arrived, \* a session's events
  main     \* the main-lane calls of one turn; one of the two stays empty

turnVars == <<arrived, main>>

Row(type, id, agent, at) ==
  [seq |-> Len(arrived) + 1, type |-> type, id |-> id, agent |-> agent, at |-> at,
   error |-> FALSE, permission |-> TRUE, input |-> NoInput]

Clock == IF arrived = <<>> THEN 0 ELSE Last(arrived).at
Pres == {r.id : r \in {r \in ToSet(arrived) : r.type = "PreToolUse"}}
Posts == {r.id : r \in {r \in ToSet(arrived) : r.type = "PostToolUse"}}

(* An event arrives, a unit after the last -- or a Stop, at once; calls    *)
(* are numbered as they come, and 0 is a call whose Pre was lost.          *)
Arrives ==
  /\ main = <<>> /\ Len(arrived) < MaxRows
  /\ \/ \E type \in {"UserPromptSubmit", "Stop", "Notification"} :
          arrived' = Append(arrived, Row(type, NoId, FALSE, Clock + 1))
     \/ arrived' = Append(arrived, Row("Stop", NoId, FALSE, Clock))
     \/ \E agent \in BOOLEAN :
          arrived' = Append(arrived, Row("PreToolUse", Cardinality(Pres) + 1, agent, Clock + 1))
     \/ \E id \in (Pres \ Posts) \cup {NoId} :
          arrived' = Append(arrived, Row("GuardDecision", id, FALSE, Clock + 1))
     \/ \E id \in (Pres \cup {0}) \ Posts :
          arrived' = Append(arrived, Row("PostToolUse", id, FALSE, Clock + 1))
  /\ UNCHANGED main

(* What the calls are about: two reads of one file that overlap and one    *)
(* that does not, an edit of it, a search, a command, a masked input.      *)
Input(tool, key, file, from, to) ==
  [tool |-> tool, key |-> key, file |-> file, from |-> from, to |-> to]
Inputs ==
  {Input("Read", 1, "f", 0, 2), Input("Read", 2, "f", 1, 3), Input("Edit", 3, "f", 0, 0),
   Input("Grep", 4, "", 0, 0), Input("Bash", 5, "", 0, 0), Input("Read", NoKey, "f", 2, 4)}

(* The next call of a turn, answered at once, with or without an error.    *)
Called ==
  /\ arrived = <<>> /\ Len(main) < MaxLane
  /\ \E input \in Inputs, status \in {"ok", "error"} :
       LET at == Len(main)
       IN main' = Append(main, [id |-> Len(main) + 1, seq |-> Len(main) + 1, agent |-> FALSE,
                                at |-> at, post |-> {[at |-> at]}, tail |-> FALSE,
                                status |-> status, input |-> input])
  /\ UNCHANGED arrived

InitTurns == arrived = <<>> /\ main = <<>>
NextTurns == Arrives \/ Called
SpecTurns == InitTurns /\ [][NextTurns]_turnVars

-----------------------------------------------------------------------------
(* Properties.                                                             *)

Now == Clock + 1
Turns == BuildTurns(arrived, Now)
Answered(t) == \A c \in ToSet(t.calls) : c.post # {}

(* Whatever events arrive, in whatever order, every loop is a turn.        *)
TurnsAreLoops == arrived # <<>> => LoopsAreTurns(arrived)

(* What the settle rule of the materializer counts on: a turn that another *)
(* has followed, all of whose calls and those of the turns before it are   *)
(* answered, is final.  No later event changes a field of it, except a     *)
(* Stop that is counted to it.                                             *)
AnsweredStay ==
  LET old == BuildTurns(arrived, Now)
      new == BuildTurns(arrived', Now)
  IN arrived' # arrived /\ Last(arrived').type # "Stop" =>
       \A i \in 1 .. Len(old) - 1 :
         (\A j \in 1 .. i : Answered(old[j])) => \E t \in ToSet(new) : t = old[i]
AnsweredTurnsAreFinal == [][AnsweredStay]_turnVars

(* duration_ms = tool_ms + wait_ms + gap_ms                                *)
(* (docs/agent-dashboard-turn-inspector-design.md:163) -- whenever the     *)
(* permission dialogs lie within the turn, apart from each other and from  *)
(* every call but their own: an instant is then counted once.              *)
DialogsApart(t, main_, dialogs, ended) ==
  LET Span(e) == e.at .. WaitEnd(t, main_, e, ended) - 1
  IN \A e \in dialogs :
       /\ Span(e) \subseteq t.started_at .. ended - 1
       /\ \A f \in dialogs \ {e} : Span(e) \cap Span(f) = {}
       /\ \A c \in ToSet(main_) \ Enclosing(main_, e) :
            \A p \in c.post : Span(e) \cap (c.at .. p.at - 1) = {}
SplitAddsUp(segments, turns) ==
  \A i \in DOMAIN turns :
       LET t     == segments[i]
           ended == turns[i].ended_at
       IN DialogsApart(t, MainCalls(turns[i].calls), Dialogs(t, ended), ended) =>
            turns[i].duration_ms = turns[i].tool_ms + turns[i].wait_ms + turns[i].gap_ms

(* turnUnionMs: tool_ms counts an instant of the turn once, however many   *)
(* calls of the main lane cover it.                                        *)
ToolTimeIsMeasure(segments, turns) ==
  \A i \in DOMAIN turns :
       LET t     == segments[i]
           ended == turns[i].ended_at
           spans == ToolSpans(t, MainCalls(turns[i].calls), Dialogs(t, ended), ended)
       IN turns[i].tool_ms = Cardinality(UNION {x[1] .. x[2] - 1 : x \in ToSet(spans)})

(* The split of a turn's wall clock counts every instant once.             *)
TimeSplitSound ==
  arrived # <<>> =>
  LET segments == Segments(arrived)
      turns    == Turns
  IN SplitAddsUp(segments, turns) /\ ToolTimeIsMeasure(segments, turns)

(* A usage row is charged as ChargedToOne says: for calls that were seen   *)
(* or not, made or answered, and at any time.                              *)
ChargedOnce ==
  arrived # <<>> =>
    LET turns == Turns
        ids   == {<<id>> : id \in Pres \cup {0}} \cup {<<>>}
    IN \A emitted, follows \in ids, ts \in {1, Clock} :
         ChargedToOne(turns, [emitted |-> emitted, follows |-> follows, ts |-> ts])

(* dup-call (docs/agent-dashboard-turn-inspector-design.md:184): a call is *)
(* flagged when it is made again with no state change in between, however  *)
(* long the chain of repetitions and changes.  What it is said to repeat   *)
(* is an original, with no state change since.                             *)
Repeats(k, j) ==
  /\ main[j].input.key = main[k].input.key /\ main[k].input.key # NoKey
  /\ \A i \in j + 1 .. k - 1 : ~Invalidates(main[i], main[k].input)
DupsAreRepeats ==
  /\ \A d \in Dups(main) : /\ d[2] < d[1] /\ Repeats(d[1], d[2])
                           /\ \A c \in Dups(main) : c[1] # d[2]
  /\ (\E k \in DOMAIN main : \E j \in 1 .. k - 1 : Repeats(k, j)) => Dups(main) # {}

(* retry-loop (same table, :186): Retry failures of one call, each at most *)
(* one read-only call after the one before.                                *)
Failed(k) == main[k].status = "error" /\ main[k].input.key # NoKey
Chain(S) ==
  /\ Cardinality(S) = Retry /\ \A k \in S : Failed(k)
  /\ \A j, k \in S : main[j].input.key = main[k].input.key
  /\ \A k \in S : (\E j \in S : j < k) =>
       \/ k - 1 \in S
       \/ k - 2 \in S /\ ~Failed(k - 1) /\ main[k - 1].input.tool \in Readonly
RetriesAreChains == Retries(main) <=> \E S \in SUBSET DOMAIN main : Chain(S)

(* re-read (:185): reads of a large file in disjoint pieces are not waste. *)
RereadsOverlap ==
  Rereads(main) <=>
    \E S \in SUBSET {k \in DOMAIN main : main[k].input.tool = "Read"} :
      /\ Cardinality(S) = Reread
      /\ \A k \in S : \E j \in DOMAIN main \ {k} :
           /\ main[j].input.tool = "Read" /\ main[j].input.file = main[k].input.file
           /\ (main[j].input.from .. main[j].input.to - 1)
                \cap (main[k].input.from .. main[k].input.to - 1) # {}

(* The flags accuse what the catalogue says they accuse.                   *)
FlagsAsDocumented == main # <<>> => DupsAreRepeats /\ RetriesAreChains /\ RereadsOverlap
=============================================================================
