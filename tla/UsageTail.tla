------------------------------- MODULE UsageTail -------------------------------
(***************************************************************************)
(* The transcript parser of the collector                                  *)
(* (src/core/observability/server.mjs): on a trigger it reads the lines a  *)
(* session's transcripts have grown by since a bookmark kept per file and  *)
(* folds them into one usage row per API message.                          *)
(*                                                                         *)
(* One session: its main file and subagent files, which Claude Code        *)
(* appends to at any time; the server's parser, and `ingest-usage`, the    *)
(* same parser in a process of its own.  A line carries a message number   *)
(* and, or not, one tool_use id, which is the line's own number; lines     *)
(* without an assistant message are left out, the parser skips them.  A    *)
(* read ends at any complete line, as chunks of bytes do; lines longer     *)
(* than a chunk, which the parser never gets past, are left out, and so is *)
(* the cap of 32 ids on a bookmark.                                        *)
(***************************************************************************)
EXTENDS Naturals, FiniteSets, SequencesExt

CONSTANTS
  Main,        \* the session's main transcript
  Subs,        \* its subagent transcripts
  Server, Cli, \* the two processes that parse
  NoFile, NoMessage,
  MaxLines,    \* bound: lines of all files
  MaxSubLines, \* bound: lines of a subagent file
  MaxRuns      \* bound: runs of ingest-usage, failed transactions and restarts

Files == {Main} \cup Subs
Message == [msg : Nat, side : BOOLEAN, emitted : SUBSET Nat, follows : SUBSET Nat]

ASSUME UsageTailAssumption == NoMessage \notin Message

Procs == {Server, Cli}

VARIABLES
  lines,     \* file -> the complete lines Claude Code has written
  usage,     \* the usage table: a set of rows keyed by <<file, msg>>
  cursor,    \* file -> the transcript_cursor row: [offset, last]
  usageBusy, \* the server has a parse of the session scheduled, or is in it
  immediate, \* the callback of setImmediate is due
  parse,     \* process -> the parse it is in: [file, offset, last, todo, upto]
  runs,      \* bound: disturbances so far
  promised   \* history: file -> lines at the last trigger since a failure

vars == <<lines, usage, cursor, usageBusy, immediate, parse, runs, promised>>

Top == [offset |-> 0, last |-> {}]
NotParsing == [file |-> NoFile, offset |-> 0, last |-> {}, todo |-> {}]

IdsOf(n, line) == IF line.tool THEN {n} ELSE {}

-----------------------------------------------------------------------------
(* ingestUsageLines.                                                       *)

(* Faulty: a row that exists is written over.                              *)
Replaced(old, new) == new

(* The ids a row has are kept when the message is met again.               *)
Merged(old, new) == old \cup new

(* INSERT OR IGNORE, and the update of the row that was there.             *)
Upserted(rows, f, cur) ==
  LET old == {r \in rows : r.file = f /\ r.msg = cur.msg}
  IN IF old = {} THEN rows \cup {[file |-> f, msg |-> cur.msg, emitted |-> cur.emitted,
                                  follows |-> cur.follows]}
     ELSE (rows \ old) \cup {[r EXCEPT !.emitted = Merged(@, cur.emitted)] : r \in old}

(* Faulty: a sidechain message counts as the previous one.                 *)
LastOfAny(last, cur) == cur.emitted

LastOf(last, cur) == IF cur.side THEN last ELSE cur.emitted

Flush(st) ==
  IF st.cur = NoMessage THEN st
  ELSE [st EXCEPT !.cur = NoMessage, !.last = LastOf(st.last, st.cur),
                  !.rows = Upserted(st.rows, st.file, st.cur)]

(* A line of the message under way, or the first one of the next.          *)
Fold(st, n, line) ==
  IF st.cur # NoMessage /\ st.cur.msg = line.msg
  THEN [st EXCEPT !.cur.emitted = @ \cup IdsOf(n, line)]
  ELSE LET done == Flush(st)
       IN [done EXCEPT !.cur =
             [msg |-> line.msg, side |-> line.side, emitted |-> IdsOf(n, line),
              follows |-> IF line.side THEN {} ELSE done.last]]

(* Lines from + 1 .. to of f, the adjacent ones of a message folded.       *)
Ingested(rows, f, from, to, last) ==
  LET after[n \in from .. to] ==
        IF n = from THEN [file |-> f, cur |-> NoMessage, last |-> last, rows |-> rows]
        ELSE Fold(after[n - 1], n, lines[f][n])
  IN Flush(after[to])

-----------------------------------------------------------------------------
(* Claude Code appends a line: of the message before, or of a new one.     *)
Append1(f, new, tool, side) ==
  /\ Cardinality(UNION {{f2} \X DOMAIN lines[f2] : f2 \in Files}) < MaxLines
  /\ f = Main \/ Len(lines[f]) < MaxSubLines
  /\ LET before == IF lines[f] = <<>> THEN [msg |-> 0, side |-> FALSE] ELSE Last(lines[f])
     IN /\ before.msg = 0 => new
        /\ side => tool   \* a side line without a call changes no ids
        /\ IF new THEN f # Main => side ELSE side = before.side
        /\ lines' = [lines EXCEPT ![f] = Append(@,
             [msg |-> before.msg + (IF new THEN 1 ELSE 0), tool |-> tool, side |-> side])]
  /\ UNCHANGED <<usage, cursor, usageBusy, immediate, parse, runs, promised>>

(* Stop, SubagentStop or SessionEnd reaches the server between two turns   *)
(* of its event loop: a parse is scheduled unless one is.                  *)
Trigger ==
  /\ parse[Server].file = NoFile
  /\ usageBusy' = TRUE
  /\ immediate' = (immediate \/ ~usageBusy)
  /\ promised' = [f \in Files |-> Len(lines[f])]
  /\ UNCHANGED <<lines, usage, cursor, parse, runs>>

(* parseTranscriptTail begins: the bookmark is read.                       *)
Opened(p, f, todo) ==
  parse' = [parse EXCEPT ![p] = [file |-> f, offset |-> cursor[f].offset,
                                 last |-> cursor[f].last, todo |-> todo]]

(* parseSessionTranscripts, on the immediate.                              *)
Begin ==
  /\ immediate
  /\ immediate' = FALSE
  /\ Opened(Server, Main, Subs)
  /\ UNCHANGED <<lines, usage, cursor, usageBusy, runs, promised>>

(* ingest-usage --rescan begins by dropping every bookmark.                *)
Rescan ==
  /\ parse[Cli].file = NoFile /\ runs < MaxRuns
  /\ runs' = runs + 1
  /\ cursor' = [f \in Files |-> Top]
  /\ UNCHANGED <<lines, usage, usageBusy, immediate, parse, promised>>

(* ingest-usage, after that or without.                                    *)
IngestUsage ==
  /\ parse[Cli].file = NoFile /\ runs < MaxRuns
  /\ runs' = runs + 1
  /\ Opened(Cli, Main, Subs)
  /\ UNCHANGED <<lines, usage, cursor, usageBusy, immediate, promised>>

MoreLines(p) == parse[p].offset < Len(lines[parse[p].file])

(* One chunk: read, and in one transaction its rows and the bookmark.      *)
Chunk(p) ==
  LET s == parse[p] IN
  /\ s.file # NoFile
  /\ MoreLines(p)
  /\ \E to \in s.offset + 1 .. Len(lines[s.file]) :
       LET done == Ingested(usage, s.file, s.offset, to, s.last)
       IN /\ usage' = done.rows
          /\ cursor' = [cursor EXCEPT ![s.file] = [offset |-> to, last |-> done.last]]
          /\ parse' = [parse EXCEPT ![p].offset = to, ![p].last = done.last]
  /\ UNCHANGED <<lines, usageBusy, immediate, runs, promised>>

(* Caught up with this file: the next subagent file, or the end.           *)
CaughtUp(p) ==
  LET s == parse[p] IN
  /\ s.file # NoFile
  /\ ~MoreLines(p)
  /\ \/ \E f \in s.todo : /\ UNCHANGED <<cursor, usageBusy>>
                          /\ Opened(p, f, s.todo \ {f})
     \/ /\ s.todo = {}
        /\ parse' = [parse EXCEPT ![p] = NotParsing]
        /\ usageBusy' = (usageBusy /\ p # Server)
        /\ UNCHANGED cursor
  /\ UNCHANGED <<lines, usage, immediate, runs, promised>>

(* Faulty: the session is released when its parse returns, not when it     *)
(* throws.                                                                 *)
StillBusy(p) == usageBusy

(* usageBusy after a parse that threw.                                     *)
BusyAfterThrow(p) == usageBusy /\ p # Server

(* The transaction cannot begin, or fails and is rolled back: in the main  *)
(* file that ends the parse, in a subagent file the next one is read.      *)
ChunkFails(p) ==
  LET s == parse[p] IN
  /\ s.file # NoFile /\ MoreLines(p) /\ runs < MaxRuns
  /\ runs' = runs + 1
  /\ \/ /\ s.file # Main
        /\ \E f \in s.todo : UNCHANGED <<cursor, usageBusy>> /\ Opened(p, f, s.todo \ {f})
     \/ /\ s.file = Main \/ s.todo = {}
        /\ parse' = [parse EXCEPT ![p] = NotParsing]
        /\ usageBusy' = BusyAfterThrow(p)
        /\ UNCHANGED cursor
  /\ promised' = [f \in Files |-> 0]
  /\ UNCHANGED <<lines, usage, immediate>>

(* A process is killed between two transactions; the server starts again.  *)
Crash(p) ==
  /\ parse[p].file # NoFile \/ (p = Server /\ usageBusy)
  /\ runs < MaxRuns
  /\ runs' = runs + 1
  /\ parse' = [parse EXCEPT ![p] = NotParsing]
  /\ usageBusy' = (usageBusy /\ p # Server)
  /\ promised' = IF p = Server THEN [f \in Files |-> 0] ELSE promised
  /\ immediate' = (immediate /\ p # Server)
  /\ UNCHANGED <<lines, usage, cursor>>

Init ==
  /\ lines = [f \in Files |-> <<>>] /\ usage = {} /\ cursor = [f \in Files |-> Top]
  /\ usageBusy = FALSE /\ immediate = FALSE /\ parse = [p \in Procs |-> NotParsing]
  /\ runs = 0 /\ promised = [f \in Files |-> 0]

Next ==
  \/ \E f \in Files, new, tool, side \in BOOLEAN : Append1(f, new, tool, side)
  \/ Trigger
  \/ Begin
  \/ Rescan
  \/ IngestUsage
  \/ \E p \in Procs : Chunk(p) \/ CaughtUp(p) \/ ChunkFails(p) \/ Crash(p)

Spec == Init /\ [][Next]_vars

(* The event loop comes to every callback and every read of the parse.     *)
ServerParses == Begin \/ Chunk(Server) \/ CaughtUp(Server)
FairSpec == Spec /\ WF_parse(ServerParses)

-----------------------------------------------------------------------------
(* Properties.                                                             *)

Msgs(f) == {lines[f][n].msg : n \in DOMAIN lines[f]}
IdsOfMsg(f, m) == {n \in DOMAIN lines[f] : lines[f][n].msg = m /\ lines[f][n].tool}
SideMsgs(f) == {lines[f][n].msg : n \in {n \in DOMAIN lines[f] : lines[f][n].side}}

(* The main-chain message before m, 0 when there is none.                  *)
Previous(f, m) == Max({0} \cup {k \in Msgs(f) \ SideMsgs(f) : k < m})

Read(f, n) == \E r \in usage : /\ r.file = f /\ r.msg = lines[f][n].msg
                              /\ IdsOf(n, lines[f][n]) \subseteq r.emitted

(* One row per message and file; what lies before a bookmark is in the     *)
(* table, every tool id of it; and no row claims another message's id:     *)
(* whatever is read in pieces, read twice, by both processes at once, or   *)
(* cut off by a crash.                                                     *)
NothingSkipped ==
  /\ \A f \in Files : \A n \in 1 .. cursor[f].offset : Read(f, n)
  /\ \A r \in usage : r.emitted \subseteq IdsOfMsg(r.file, r.msg)
  /\ \A r, s \in usage : r.file = s.file /\ r.msg = s.msg => r = s

(* The ids a message is said to follow are ids of the main-chain message   *)
(* before it, never an older one's: the bookmark carries them from one     *)
(* read to the next, also when two processes move it.                      *)
FollowsTheOneBefore ==
  \A r \in usage : r.follows \subseteq
    IF r.msg \in SideMsgs(r.file) THEN {} ELSE IdsOfMsg(r.file, Previous(r.file, r.msg))

(* A trigger that finds a parse scheduled is dropped, and yet every line   *)
(* written before a trigger gets into the table, unless a transaction      *)
(* fails or the server dies before.                                        *)
TriggeredIsRead ==
  LET due == \E f \in Files : \E n \in 1 .. promised[f] : ~Read(f, n)
  IN due ~> ~due
=============================================================================
