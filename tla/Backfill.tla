------------------------------- MODULE Backfill -------------------------------
(***************************************************************************)
(* The import of opencode's history into the collector's database          *)
(* (src/adapters/opencode/backfill.mjs --write): a session's messages      *)
(* become the rows its hooks would have sent, are appended in one          *)
(* transaction, and the session is noted in a cursor file after that.      *)
(* One session; the collector is stopped (what happens when it is not is   *)
(* in Lifecycle).  The live plugin may report parts of the same session.   *)
(*                                                                         *)
(* A row is told from the others by its type, its call and the message it  *)
(* was made from; its seq is its place in `table'.                         *)
(***************************************************************************)
EXTENDS Integers, FiniteSets, Sequences, SequencesExt

CONSTANTS
  NoCall,      \* a row without tool_use_id
  MaxMessages, \* bound: messages of the session
  MaxTools,    \* bound: tool calls among them
  MaxSteps,    \* bound: finished steps of a message
  MaxImports,  \* bound: runs of the import
  MaxReported  \* bound: rows of the live plugin

ASSUME BackfillAssumption == NoCall \notin Nat

VARIABLES
  talk,   \* opencode's own record of the session: its messages in order
  idle,   \* it has not been touched for longer than IDLE_END_MS
  table,  \* the session's rows of the collector's table events
  steps,  \* its rows of the table usage, by message and step
  seen,   \* the cursor file knows the session
  runs,   \* bound: imports so far
  lost,     \* history: an import's cursor was lost since the last --force
  basis,    \* history: the rows and the steps the last import has read
  reported  \* history: the rows of the live plugin

source   == <<talk, idle>>
database == <<table, steps, seen>>
history  == <<lost, basis, reported>>
import_vars == <<source, database, runs, history>>

ToolsIn(messages) == UNION {ToSet(m.tools) : m \in ToSet(messages)}

-----------------------------------------------------------------------------
(* opencode, of which this is what the import reads.                       *)

(* A message; an assistant's may grow by tool calls and finished steps.    *)
Say(role) ==
  /\ Len(talk) < MaxMessages
  /\ talk' = Append(talk, [role |-> role, tools |-> <<>>, steps |-> 0])
  /\ idle' = FALSE /\ UNCHANGED <<database, runs, history>>

Work ==
  /\ talk # <<>> /\ Last(talk).role = "assistant"
  /\ \/ /\ Cardinality(ToolsIn(talk)) < MaxTools
        /\ talk' = [talk EXCEPT ![Len(talk)].tools = Append(@, Cardinality(ToolsIn(talk)) + 1)]
     \/ /\ Last(talk).steps < MaxSteps
        /\ talk' = [talk EXCEPT ![Len(talk)].steps = @ + 1]
  /\ idle' = FALSE /\ UNCHANGED <<database, runs, history>>

Rest == /\ talk # <<>> /\ ~idle
        /\ idle' = TRUE /\ UNCHANGED <<talk, database, runs, history>>

-----------------------------------------------------------------------------
(* buildRows.                                                              *)

ImportRow(type, id, m) == [type |-> type, id |-> id, message |-> m, backfill |-> TRUE]

Then(rows, more) == rows \o more

(* A prompt; or the two halves of every call, and a Stop.                  *)
RowsOfMessage(m) ==
  IF talk[m].role = "user" THEN <<ImportRow("UserPromptSubmit", NoCall, m)>>
  ELSE FoldLeft(Then, <<>>, [k \in DOMAIN talk[m].tools |->
                              <<ImportRow("PreToolUse", talk[m].tools[k], m),
                                ImportRow("PostToolUse", talk[m].tools[k], m)>>])
       \o <<ImportRow("Stop", NoCall, m)>>

(* Messages and calls follow one another in time, so that the sort by      *)
(* timestamp, which is stable, leaves them as they are.                    *)
BuildRows ==
  <<ImportRow("SessionStart", NoCall, 0)>>
    \o FoldLeft(Then, <<>>, [m \in DOMAIN talk |-> RowsOfMessage(m)])
    \o (IF idle THEN <<ImportRow("SessionEnd", NoCall, 0)>> ELSE <<>>)

StepsRead == {[message |-> m, step |-> n] : m \in DOMAIN talk, n \in 0 .. MaxSteps}
BuildUsage == {s \in StepsRead : s.step < talk[s.message].steps}

-----------------------------------------------------------------------------
(* writeRows.                                                              *)

(* UNIQUE(tool_use_id, hook_event_type), and INSERT OR IGNORE.             *)
Clashes(rows, r) ==
  r.id # NoCall /\ \E x \in ToSet(rows) : x.id = r.id /\ x.type = r.type
Inserted(rows, r) == IF Clashes(rows, r) THEN rows ELSE Append(rows, r)

(* Faulty: the rows of the import before are left to the unique index.     *)
KeptAll(rows, force) == rows

(* --force: what this script wrote goes, what the plugin reported stays.   *)
OnlyLive(rows, r) == IF r.backfill THEN rows ELSE Append(rows, r)
Cleared(rows, force) == IF force THEN FoldLeft(OnlyLive, <<>>, rows) ELSE rows

(* One run.  A session the cursor file knows is skipped without --force,   *)
(* however it has grown.  The cursor is written after COMMIT: a crash, or  *)
(* a failing write, leaves it as it was; one before COMMIT changes nothing. *)
Import(force) ==
  /\ runs < MaxImports /\ runs' = runs + 1
  /\ talk # <<>>
  /\ force \/ ~seen
  /\ table' = FoldLeft(Inserted, Cleared(table, force), BuildRows)
  /\ steps' = (IF force THEN {} ELSE steps) \cup BuildUsage
  /\ seen' \in {seen, TRUE}
  /\ lost' = ((lost /\ ~force) \/ ~seen')
  /\ basis' = [rows |-> ToSet(BuildRows), steps |-> BuildUsage]
  /\ UNCHANGED <<source, reported>>

(* The cursor file is deleted, or unreadable.                              *)
CursorLost ==
  /\ seen /\ seen' = FALSE /\ lost' = TRUE
  /\ UNCHANGED <<source, table, steps, runs, basis, reported>>

-----------------------------------------------------------------------------
(* The plugin, which reports the same session while it happens.            *)

LiveRow(type, id, m) == [ImportRow(type, id, m) EXCEPT !.backfill = FALSE]

(* chat.message.                                                           *)
Prompts(m) == IF talk[m].role = "user" THEN {LiveRow("UserPromptSubmit", NoCall, m)} ELSE {}

(* tool.execute.before and tool.execute.after.                             *)
Halves(m) == {LiveRow(type, id, m) : type \in {"PreToolUse", "PostToolUse"},
                                     id \in ToSet(talk[m].tools)}

(* event: session.idle and session.deleted; errors and compactions are of  *)
(* no message.                                                             *)
BusEvents(m) == {LiveRow("Stop", NoCall, m), LiveRow("SessionEnd", NoCall, 0)}

(* touchSession: before what it reports of a session first, the plugin     *)
(* announces it -- once per process, or again when it has forgotten.       *)
Touched(rows) == {rows, Append(rows, LiveRow("SessionStart", NoCall, 0))}

(* The collector was up, and one of these reached it.                      *)
Live ==
  /\ talk # <<>> /\ Cardinality(reported) < MaxReported
  /\ LET m == Len(talk) IN
     \E live \in Prompts(m) \cup Halves(m) \cup BusEvents(m) :
       /\ live \notin reported
       /\ \E rows \in Touched(table) : table' = Inserted(rows, live)
       /\ reported' = reported \cup {live}
  /\ UNCHANGED <<source, steps, seen, runs, lost, basis>>

InitImport ==
  /\ talk = <<>> /\ idle = FALSE
  /\ table = <<>> /\ steps = {} /\ seen = FALSE
  /\ runs = 0 /\ lost = FALSE /\ basis = [rows |-> {}, steps |-> {}] /\ reported = {}

NextImport ==
  \/ Say("user") \/ Say("assistant")
  \/ Work
  \/ Rest
  \/ Import(FALSE) \/ Import(TRUE)
  \/ CursorLost
  \/ Live

SpecImport == InitImport /\ [][NextImport]_import_vars

-----------------------------------------------------------------------------
(* Properties.                                                             *)

(* backfill.mjs:35-37, "Idempotent", and :384-385, prompts "would pile     *)
(* up": whatever imports were run, failed or were forced, whatever the     *)
(* plugin reported and however the session grew, half a call is there      *)
(* once; and, unless a cursor was lost and no --force has followed, the    *)
(* rows of the import are those the last one read, each of them once --    *)
(* but for halves of calls the plugin had reported.  What the plugin       *)
(* reported stays, or is there as a row of the import.                     *)
ImportedOnce ==
  LET Places(type, id, m, ours) ==
        {i \in DOMAIN table : /\ table[i].type = type /\ table[i].id = id
                              /\ table[i].message = m /\ table[i].backfill = ours}
  IN /\ \A i, j \in DOMAIN table :
          i # j /\ table[i].id # NoCall /\ table[i].id = table[j].id
            => table[i].type # table[j].type
     /\ ~lost =>
          /\ \A r \in basis.rows :
               Cardinality(Places(r.type, r.id, r.message, TRUE))
                 = IF r.id # NoCall /\ Places(r.type, r.id, r.message, FALSE) # {} THEN 0 ELSE 1
          /\ \A r \in ToSet(table) : r.backfill => r \in basis.rows
     /\ steps = basis.steps
     /\ \A r \in reported : r \in ToSet(table) \/ Clashes(table, r)
=============================================================================
