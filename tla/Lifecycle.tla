------------------------------ MODULE Lifecycle ------------------------------
(***************************************************************************)
(* Several collector processes on one data directory                       *)
(* (src/core/observability/server.mjs, "lifecycle"): started by a hook     *)
(* that found the port closed, by hand or by systemd, each seeds SEQ from  *)
(* the events table and then tries to listen; the one that holds the port  *)
(* serves, the others ask GET /health and exit; a signal closes the port   *)
(* at once and the process later.  Beside them runs the opencode backfill  *)
(* (src/adapters/opencode/backfill.mjs), a second writer of seq.           *)
(*                                                                         *)
(* What happens inside one process is Collector's; here a flush stores all *)
(* that is queued, or the process dies with it.                            *)
(***************************************************************************)
EXTENDS Naturals, FiniteSets

CONSTANTS
  Procs,     \* server processes, each started once
  NoProc,    \* nobody
  MaxEvents, \* bound: events accepted
  MaxOpen    \* bound: connections of a process with a request under way

ASSUME LifecycleAssumption ==
  /\ NoProc \notin Procs
  /\ MaxEvents \in Nat /\ MaxOpen \in Nat

VARIABLES
  pc,       \* how far each process is
  SEQ,      \* the last sequence number each handed out
  q,        \* the rows each has accepted and not flushed
  open,     \* the connections that keep server.close() waiting
  socket,   \* the process that listens on the port
  pidfile,  \* the process server.pid names
  events,   \* the events table
  backfill, \* how far the backfill is
  maxSeq,   \* ... and the MAX(seq) it has read
  acked,    \* history: events acknowledged so far
  ignored,  \* history: rows that INSERT OR IGNORE dropped for their seq
  served,   \* history: the processes that have listened
  outdated  \* history: those past whose seed somebody else could store rows

vars == <<pc, SEQ, q, open, socket, pidfile, events, backfill, maxSeq, acked, ignored, served, outdated>>

Row == [seq : Nat, id : Nat]   \* id 0 is imported history

(* "probing" has seen EADDRINUSE; "gone" has exited or been killed.        *)
Stage == {"off", "opening", "seeded", "listening", "probing", "closing", "gone"}

TypeOK ==
  /\ pc \in [Procs -> Stage]
  /\ SEQ \in [Procs -> Nat] /\ q \in [Procs -> SUBSET Row] /\ open \in [Procs -> Nat]
  /\ socket \in Procs \cup {NoProc} /\ pidfile \in Procs \cup {NoProc}
  /\ events \subseteq Row /\ ignored \subseteq Row
  /\ backfill \in {"idle", "checked", "read", "done"}
  /\ maxSeq \in Nat /\ acked \in Nat
  /\ served \subseteq Procs /\ outdated \subseteq Procs

(* It may still be sent events.                                            *)
Serving(p) == p \in served /\ pc[p] \in {"listening", "closing"}
Goto(p, stage) == pc' = [pc EXCEPT ![p] = stage]
Taken(r) == \E s \in events : s.seq = r.seq

(* The end of a process takes its socket along.                            *)
Exit(p) == /\ Goto(p, "gone")
           /\ socket' = IF socket = p THEN NoProc ELSE socket

-----------------------------------------------------------------------------
(* Started: by obs-lazy-start, whose probe of the port is old news by now  *)
(* and says "closed" when it times out, by hand, or by systemd.            *)
Start(p) ==
  /\ pc[p] = "off"
  /\ Goto(p, "opening")
  /\ UNCHANGED <<SEQ, q, open, socket, pidfile, events, backfill, maxSeq, acked, ignored, served, outdated>>

(* Faulty: the boot seed is left out.                                      *)
SeedForgotten(p) ==
  /\ pc[p] = "opening"
  /\ Goto(p, "seeded")
  /\ outdated' = IF \E r \in Procs : Serving(r) THEN outdated \cup {p} ELSE outdated
  /\ UNCHANGED <<SEQ, q, open, socket, pidfile, events, backfill, maxSeq, acked, ignored, served>>

(* startBackend: SEQ continues from MAX(seq), before the port is asked for.*)
Seed(p) ==
  /\ pc[p] = "opening"
  /\ Goto(p, "seeded")
  /\ \E s \in {0} \cup {r.seq : r \in events} :
       /\ \A r \in events : r.seq <= s
       /\ SEQ' = [SEQ EXCEPT ![p] = s]
  /\ outdated' = IF \E r \in Procs : Serving(r) THEN outdated \cup {p} ELSE outdated
  /\ UNCHANGED <<q, open, socket, pidfile, events, backfill, maxSeq, acked, ignored, served>>

(* listen() binds the free port and the pidfile is written ...             *)
Listen(p) ==
  /\ pc[p] = "seeded" /\ socket = NoProc
  /\ Goto(p, "listening")
  /\ socket' = p /\ pidfile' = p
  /\ served' = served \cup {p}
  /\ outdated' = outdated \cup {r \in Procs \ {p} : pc[r] = "seeded"}
  /\ UNCHANGED <<SEQ, q, open, events, backfill, maxSeq, acked, ignored>>

(* ... or fails with EADDRINUSE, and /health is asked who holds it.        *)
AddressInUse(p) ==
  /\ pc[p] = "seeded" /\ socket # NoProc
  /\ Goto(p, "probing")
  /\ UNCHANGED <<SEQ, q, open, socket, pidfile, events, backfill, maxSeq, acked, ignored, served, outdated>>

(* Faulty: without an answer from one of ours the process stays.           *)
ProbedOursOnly(p) ==
  /\ pc[p] = "probing" /\ socket # NoProc
  /\ Exit(p)
  /\ UNCHANGED <<SEQ, q, open, pidfile, events, backfill, maxSeq, acked, ignored, served, outdated>>

(* Ours, foreign or no answer within a second: it exits, with 0 or 3.      *)
Probed(p) ==
  /\ pc[p] = "probing"
  /\ Exit(p)
  /\ UNCHANGED <<SEQ, q, open, pidfile, events, backfill, maxSeq, acked, ignored, served, outdated>>

-----------------------------------------------------------------------------
(* A client connects; its request, or its stream, is under way.            *)
Connect(p) ==
  /\ socket = p /\ open[p] < MaxOpen
  /\ open' = [open EXCEPT ![p] = @ + 1]
  /\ UNCHANGED <<pc, SEQ, q, socket, pidfile, events, backfill, maxSeq, acked, ignored, served, outdated>>

(* The request was no event, or was given up.                              *)
Disconnect(p) ==
  /\ Serving(p) /\ open[p] > 0
  /\ open' = [open EXCEPT ![p] = @ - 1]
  /\ UNCHANGED <<pc, SEQ, q, socket, pidfile, events, backfill, maxSeq, acked, ignored, served, outdated>>

(* The body arrives: the next seq, 202, the row queued.  A process past    *)
(* its signal still serves the connections it has.                         *)
Receive(p) ==
  /\ Serving(p) /\ open[p] > 0 /\ acked < MaxEvents
  /\ acked' = acked + 1
  /\ SEQ' = [SEQ EXCEPT ![p] = @ + 1]
  /\ q' = [q EXCEPT ![p] = @ \cup {[seq |-> SEQ[p] + 1, id |-> acked + 1]}]
  /\ open' = [open EXCEPT ![p] = @ - 1]
  /\ UNCHANGED <<pc, socket, pidfile, events, backfill, maxSeq, ignored, served, outdated>>

(* flush(): INSERT OR IGNORE stores the rows whose seq is free.            *)
FlushQueue(p) ==
  /\ events' = events \cup {r \in q[p] : ~Taken(r)}
  /\ ignored' = ignored \cup {r \in q[p] : Taken(r)}
  /\ q' = [q EXCEPT ![p] = {}]

Flush(p) ==
  /\ Serving(p) /\ q[p] # {}
  /\ FlushQueue(p)
  /\ UNCHANGED <<pc, SEQ, open, socket, pidfile, backfill, maxSeq, acked, served, outdated>>

(* SIGINT, SIGTERM, SIGHUP or `stop': the port is free for the next one    *)
(* at once.  The handler is installed whether or not listen() succeeds.    *)
Signal(p) ==
  /\ pc[p] \in {"seeded", "listening", "probing"}
  /\ Goto(p, "closing")
  /\ socket' = IF socket = p THEN NoProc ELSE socket
  /\ UNCHANGED <<SEQ, q, open, pidfile, events, backfill, maxSeq, acked, ignored, served, outdated>>

(* server.close() calls back: last flush, the pidfile is unlinked, exit.   *)
Closed(p) ==
  /\ pc[p] = "closing" /\ open[p] = 0
  /\ FlushQueue(p)
  /\ pidfile' = NoProc
  /\ Exit(p)
  /\ UNCHANGED <<SEQ, open, backfill, maxSeq, acked, served, outdated>>

(* Faulty: the backstop is armed once the connections have ended.          *)
ForceExitWhenClosed(p) ==
  /\ pc[p] = "closing" /\ open[p] = 0
  /\ Exit(p)
  /\ UNCHANGED <<SEQ, q, open, pidfile, events, backfill, maxSeq, acked, ignored, served, outdated>>

(* The grace is over: exit, with what is queued.                           *)
ForceExit(p) ==
  /\ pc[p] = "closing"
  /\ Exit(p)
  /\ UNCHANGED <<SEQ, q, open, pidfile, events, backfill, maxSeq, acked, ignored, served, outdated>>

(* kill -9; or a signal before the handler is installed.                   *)
Kill(p) ==
  /\ pc[p] \notin {"off", "gone"}
  /\ Exit(p)
  /\ UNCHANGED <<SEQ, q, open, pidfile, events, backfill, maxSeq, acked, ignored, served, outdated>>

-----------------------------------------------------------------------------
(* backfill --write refuses to go on while the port is open, ...           *)
BackfillChecks ==
  /\ backfill = "idle" /\ socket = NoProc
  /\ backfill' = "checked"
  /\ UNCHANGED <<pc, SEQ, q, open, socket, pidfile, events, maxSeq, acked, ignored, served, outdated>>

(* ... reads MAX(seq) ...                                                  *)
BackfillReads ==
  /\ backfill = "checked"
  /\ backfill' = "read"
  /\ maxSeq' \in {0} \cup {r.seq : r \in events}
  /\ \A r \in events : r.seq <= maxSeq'
  /\ UNCHANGED <<pc, SEQ, q, open, socket, pidfile, events, acked, ignored, served, outdated>>

(* ... and inserts from there on, in one transaction, what is not ignored. *)
BackfillWrites ==
  /\ backfill = "read"
  /\ backfill' = "done"
  /\ events' = events \cup {r \in {[seq |-> maxSeq + 1, id |-> 0]} : ~Taken(r)}
  /\ outdated' = outdated \cup {p \in Procs : Serving(p) \/ pc[p] = "seeded"}
  /\ UNCHANGED <<pc, SEQ, q, open, socket, pidfile, maxSeq, acked, ignored, served>>

Init ==
  /\ pc = [p \in Procs |-> "off"]
  /\ SEQ = [p \in Procs |-> 0] /\ q = [p \in Procs |-> {}] /\ open = [p \in Procs |-> 0]
  /\ socket = NoProc /\ pidfile = NoProc
  /\ events = {} /\ backfill = "idle" /\ maxSeq = 0
  /\ acked = 0 /\ ignored = {} /\ served = {} /\ outdated = {}

Next ==
  \/ \E p \in Procs :
       \/ Start(p) \/ Seed(p) \/ Listen(p) \/ AddressInUse(p) \/ Probed(p)
       \/ Connect(p) \/ Disconnect(p) \/ Receive(p) \/ Flush(p)
       \/ Signal(p) \/ Closed(p) \/ ForceExit(p) \/ Kill(p)
  \/ BackfillChecks
  \/ BackfillReads
  \/ BackfillWrites

Spec == Init /\ [][Next]_vars

(* A started process runs on, probeHealth answers within its timeout, and  *)
(* the grace timer fires.  No client is obliged to anything.               *)
FairSpec ==
  /\ Spec
  /\ \A p \in Procs :
       WF_vars(Seed(p)) /\ WF_vars(Listen(p) \/ AddressInUse(p)) /\ WF_vars(Probed(p))
         /\ WF_vars(ForceExit(p))

-----------------------------------------------------------------------------
(* Properties.                                                             *)

(* If INSERT OR IGNORE ever drops an acknowledged event, a process served  *)
(* whose SEQ was seeded while somebody else could still store rows: seeds  *)
(* that nobody outran are enough, through any chain of stops and kills.    *)
LossNeedsOutdatedSeed == ignored # {} => served \cap outdated # {}

(* No zombie (docs/agent-dashboard-implementation-notes.md:53): a process  *)
(* that is started comes to listen or ends, whoever holds the port.        *)
NoZombie ==
  \A p \in Procs : pc[p] = "opening" ~> pc[p] \in {"listening", "closing", "gone"}

(* A signal ends a process, connections that never end notwithstanding.    *)
EveryStopEnds == \A p \in Procs : pc[p] = "closing" ~> pc[p] = "gone"
=============================================================================
