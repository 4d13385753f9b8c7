------------------------------- MODULE ContextDocs -------------------------------
(***************************************************************************)
(* Document injection of the context hook (src/core/context): on every     *)
(* prompt a process of its own matches the prompt against an index,        *)
(* freshens the matched documents from a hub into a mirror directory,      *)
(* skips what the project's ledger says this session was given lately, and *)
(* hands the rest to the runner, which cuts them to a budget.              *)
(*                                                                         *)
(* One project, its sessions and one provider instance; a session has one  *)
(* prompt at a time.  The mirror, its sidecar .hub-cache.json and the      *)
(* ledger are files that every process reads and rewrites whole, without a *)
(* lock.  The ledger is cut off before it is written, and a ledger that    *)
(* cannot be read is an empty one; the mirror and the sidecar are written  *)
(* in one step.  A document is its version, an ETag names a version, and   *)
(* which documents match is a choice; a pointer, which also needs the      *)
(* file, is not told from a body.  Fewer than MAX_SESSIONS sessions; the   *)
(* statistics file is left out.                                            *)
(***************************************************************************)
EXTENDS Naturals, FiniteSets, SequencesExt

CONSTANTS
  Sessions,
  Docs,        \* the documents of the indexes
  HubDocs,     \* those whose source has a hub
  Index,       \* the index file of that source, which is mirrored too
  Nothing,     \* no item, no answer
  MaxDocs,     \* maxDocs: bodies per prompt
  BudgetDocs,  \* bodies that fit into the budget of UserPromptSubmit
  Ttl,         \* dedupTtlMs
  IndexTtl,    \* indexTtlMs
  MaxVersion,  \* bound: versions of an item on the server
  MaxPrompts,  \* bound: prompts of all sessions
  MaxNow,      \* bound: the clock
  MaxFaults    \* bound: requests that fail, timeouts, processes killed, and
               \* ledgers that are not written or deleted

ASSUME ContextDocsAssumption ==
  /\ IsFiniteSet(Docs) /\ HubDocs \subseteq Docs /\ Index \notin Docs
  /\ Ttl \in Nat /\ IndexTtl \in Nat

Items == HubDocs \cup {Index}

VARIABLES
  now, faults,
  prompts,  \* session -> how many it has submitted
  server,   \* item -> its version on the hub
  mirror,   \* item -> the version of the file, 0 when there is none
  sidecar,  \* .hub-cache.json: item -> ETag (0: none), and the index's fetchedAt
  ledger,   \* session -> document -> when it was given, 0: never; as it was
            \* last written whole
  torn,     \* the file was cut off since, to be written, or is gone
  hook,     \* session -> its hook process
  context,  \* history: what reached a session's context
  raced,    \* history: items two processes fetched at once
  forgotten \* history: sessions something of which the ledger has lost

files == <<mirror, sidecar, ledger, torn>>
history == <<context, raced, forgotten>>
vars == <<now, prompts, faults, server, files, hook, history>>

NoLedger == [s \in Sessions |-> [d \in Docs |-> 0]]
Gone == [pc |-> "gone", at |-> 0, hub |-> [etag |-> [x \in Items |-> 0], at |-> 0], led |-> NoLedger,
         todo |-> <<>>, item |-> Nothing, answer |-> Nothing, confirmed |-> 0,
         blocks |-> <<>>, late |-> FALSE]

-----------------------------------------------------------------------------
(* A prompt is submitted: the process starts, reads the sidecar and the    *)
(* clock, which it reads again only when it matches.                       *)
Prompt(s) ==
  /\ hook[s].pc = "gone" /\ MapThenSumSet(LAMBDA t : prompts[t], Sessions) < MaxPrompts
  /\ prompts' = [prompts EXCEPT ![s] = @ + 1]
  /\ hook' = [hook EXCEPT ![s] = [Gone EXCEPT !.pc = "index", !.at = now, !.hub = sidecar]]
  /\ UNCHANGED <<now, faults, server, files, history>>

(* refreshIndexIfStale: still fresh, or asked for.  The sidecar is written *)
(* back either way.                                                        *)
IndexDue(h) == h.hub.at = 0 \/ h.at - h.hub.at >= IndexTtl
IndexFresh(s) ==
  /\ hook[s].pc = "index" /\ ~IndexDue(hook[s])
  /\ sidecar' = hook[s].hub
  /\ hook' = [hook EXCEPT ![s].pc = "match"]
  /\ UNCHANGED <<now, prompts, faults, server, mirror, ledger, torn, history>>

IndexStale(s) ==
  /\ hook[s].pc = "index" /\ IndexDue(hook[s])
  /\ hook' = [hook EXCEPT ![s].pc = "ask", ![s].item = Index]
  /\ UNCHANGED <<now, prompts, faults, server, files, history>>

(* The hub has the request: If-None-Match decides between 304 and 200.     *)
Asked(s) ==
  LET h == hook[s]
      x == h.item
  IN /\ h.pc = "ask"
     /\ hook' = [hook EXCEPT ![s].pc = "answered", ![s].answer =
                   IF h.hub.etag[x] = server[x] THEN "304" ELSE "200", ![s].confirmed = server[x]]
     /\ raced' = raced \cup {y \in {x} : \E t \in Sessions \ {s} :
                               hook[t].item = y /\ hook[t].pc \in {"answered", "save"}}
     /\ UNCHANGED <<now, prompts, faults, server, files, context, forgotten>>

(* Where a confirmed ETag goes in the process's copy of the sidecar.       *)
Noted(h, x, v) ==
  [etag |-> [h.hub.etag EXCEPT ![x] = v], at |-> IF x = Index THEN h.at ELSE h.hub.at]

(* Faulty: the ETag is noted with the headers, before the body has come.   *)
NotedWithHeaders(h) == IF h.pc = "answered" THEN Noted(h, h.item, h.confirmed) ELSE h.hub

(* A request that fails, at whatever point, notes nothing.                 *)
AfterFailure(h) == h.hub

(* No answer in time, one cut off, or one that is no success: whatever is  *)
(* on disk is used.                                                        *)
NoAnswer(s) ==
  /\ hook[s].pc \in {"ask", "answered"} /\ faults < MaxFaults
  /\ faults' = faults + 1
  /\ hook' = [hook EXCEPT ![s].pc = "save", ![s].hub = AfterFailure(hook[s]), ![s].confirmed = 0]
  /\ UNCHANGED <<now, prompts, server, files, history>>

(* 200: the body is written, then the ETag noted; 304: noted.              *)
Received(s) ==
  LET h == hook[s] IN
  /\ h.pc = "answered"
  /\ mirror' = IF h.answer = "200" THEN [mirror EXCEPT ![h.item] = h.confirmed] ELSE mirror
  /\ hook' = [hook EXCEPT ![s].pc = "save", ![s].hub = Noted(h, h.item, h.confirmed)]
  /\ UNCHANGED <<now, prompts, faults, server, sidecar, ledger, torn, history>>

(* saveCacheState, the process's whole copy.                               *)
Save(s) ==
  /\ hook[s].pc = "save"
  /\ sidecar' = hook[s].hub
  /\ hook' = [hook EXCEPT ![s].pc = IF hook[s].item = Index THEN "match" ELSE "use",
                          ![s].answer = Nothing]
  /\ UNCHANGED <<now, prompts, faults, server, mirror, ledger, torn, history>>

(* What a prompt may match, best first: without an index on disk nothing   *)
(* of the hub's source.                                                    *)
Candidates(docs) ==
  {todo \in UNION {[1 .. n -> docs] : n \in 0 .. Cardinality(Docs)} : IsInjective(todo)}

(* loadLedger: one that is missing or half-written is an empty one.        *)
LoadLedger == IF torn THEN NoLedger ELSE ledger

(* The indexes are matched and, when anything does, the ledger is read;    *)
(* otherwise the provider is done.                                         *)
Match(s) ==
  LET h == hook[s] IN
  /\ h.pc = "match"
  /\ \E todo \in Candidates(IF mirror[Index] = 0 THEN Docs \ HubDocs ELSE Docs) :
       /\ hook' = [hook EXCEPT ![s] = IF todo = <<>> THEN Gone
                     ELSE [h EXCEPT !.pc = "next", !.at = now, !.led = LoadLedger, !.item = Nothing,
                                    !.todo = todo]]
       /\ forgotten' = forgotten \cup {t \in {s} : todo # <<>> /\ LoadLedger[t] # ledger[t]}
  /\ UNCHANGED <<now, prompts, faults, server, files, context, raced>>

StillFresh(h, s, d) == h.led[s][d] # 0 /\ h.at - h.led[s][d] < Ttl

(* The next candidate: skipped, asked for, or read as it is.               *)
Candidate(s) ==
  LET h == hook[s]
      d == Head(h.todo)
  IN /\ h.pc = "next" /\ h.todo # <<>> /\ Len(h.blocks) < MaxDocs
     /\ hook' = [hook EXCEPT ![s] =
                   IF StillFresh(h, s, d) THEN [h EXCEPT !.todo = Tail(@)]
                   ELSE [h EXCEPT !.pc = IF d \in HubDocs THEN "ask" ELSE "use", !.item = d,
                                  !.confirmed = 0]]
     /\ UNCHANGED <<now, prompts, faults, server, files, history>>

(* The file is read, if there is one, and the document marked as given.    *)
Use(s) ==
  LET h == hook[s]
      d == h.item
      v == IF d \in HubDocs THEN mirror[d] ELSE 1
  IN /\ h.pc = "use"
     /\ hook' = [hook EXCEPT ![s] = IF v = 0 THEN [h EXCEPT !.pc = "next", !.todo = Tail(@)]
          ELSE [h EXCEPT !.pc = "next", !.todo = Tail(@), !.led[s][d] = h.at, !.blocks =
                  Append(@, [session |-> s, prompt |-> prompts[s], doc |-> d, at |-> h.at,
                             version |-> v, confirmed |-> h.confirmed])]]
     /\ UNCHANGED <<now, prompts, faults, server, files, history>>

(* budgetFragments, in documents: the text is cut off where the budget of  *)
(* the event ends, and what follows is dropped.                            *)
WithinBudget(blocks) == {blocks[i] : i \in {i \in DOMAIN blocks : i <= BudgetDocs}}

(* The provider is done: unless the runner has stopped waiting, the text   *)
(* is cut to the budget and injected.                                      *)
Done(h) == h.pc = "next" /\ (h.todo = <<>> \/ Len(h.blocks) = MaxDocs)
Inject(s) ==
  /\ context' = IF hook[s].late THEN context ELSE context \cup WithinBudget(hook[s].blocks)
  /\ hook' = [hook EXCEPT ![s] = Gone]
  /\ UNCHANGED <<now, prompts, server, mirror, sidecar, raced>>

(* saveLedger opens the file, which cuts it off.                           *)
Truncate(s) ==
  /\ Done(hook[s])
  /\ torn' = TRUE
  /\ hook' = [hook EXCEPT ![s].pc = "write"]
  /\ UNCHANGED <<now, prompts, faults, server, mirror, sidecar, ledger, history>>

(* Faulty: only this session's entry is written.                           *)
OwnEntryOnly(s) == [NoLedger EXCEPT ![s] = hook[s].led[s]]

(* What is written is what was read, with this session's changes.          *)
LedgerOf(s) == hook[s].led

(* It is written, over what others have noted since it was read.           *)
Finish(s) ==
  /\ hook[s].pc = "write"
  /\ ledger' = LedgerOf(s) /\ torn' = FALSE
  /\ forgotten' = forgotten \cup {t \in Sessions \ {s} : hook[s].led[t] # ledger[t]}
  /\ Inject(s) /\ UNCHANGED faults

(* The file cannot be opened, or not be written, or another process, which *)
(* cut it off too, has written a longer text meanwhile whose end remains:  *)
(* the error is swallowed, and nothing is noted of what is injected.       *)
Unsaved(s) ==
  /\ Done(hook[s]) \/ hook[s].pc = "write"
  /\ faults < MaxFaults /\ faults' = faults + 1
  /\ torn' \in IF hook[s].pc = "write" THEN {torn, TRUE} ELSE {torn}
  /\ forgotten' = forgotten \cup {t \in {s} : hook[s].blocks # <<>>}
  /\ Inject(s) /\ UNCHANGED ledger

(* The runner's soft timeout: the provider's text is lost, and it runs on  *)
(* until the process exits.                                                *)
TimesOut(s) ==
  /\ hook[s].pc # "gone" /\ ~hook[s].late /\ faults < MaxFaults
  /\ faults' = faults + 1
  /\ hook' = [hook EXCEPT ![s].late = TRUE]
  /\ UNCHANGED <<now, prompts, server, files, history>>

(* The process exits after a timeout, or is killed.                        *)
Exits(s) ==
  /\ hook[s].pc # "gone"
  /\ \/ hook[s].late /\ UNCHANGED faults
     \/ faults < MaxFaults /\ faults' = faults + 1
  /\ hook' = [hook EXCEPT ![s] = Gone]
  /\ UNCHANGED <<now, prompts, server, files, history>>

(* Somebody publishes a new version on the hub.                            *)
Publish(x) ==
  /\ server[x] < MaxVersion
  /\ server' = [server EXCEPT ![x] = @ + 1]
  /\ UNCHANGED <<now, prompts, faults, files, hook, history>>

(* The system clears its temporary directory, where the ledger is.         *)
Cleared ==
  /\ ~torn /\ faults < MaxFaults
  /\ torn' = TRUE /\ faults' = faults + 1
  /\ UNCHANGED <<now, prompts, server, mirror, sidecar, ledger, hook, history>>

Tick ==
  /\ now < MaxNow
  /\ now' = now + 1
  /\ UNCHANGED <<prompts, faults, server, files, hook, history>>

Init ==
  /\ now = 1 /\ prompts = [s \in Sessions |-> 0] /\ faults = 0
  /\ server = [x \in Items |-> 1] /\ mirror = [x \in Items |-> 0]
  /\ sidecar = Gone.hub /\ ledger = NoLedger /\ torn = FALSE
  /\ hook = [s \in Sessions |-> Gone]
  /\ context = {} /\ raced = {} /\ forgotten = {}

Next ==
  \/ \E s \in Sessions :
       \/ Prompt(s) \/ IndexFresh(s) \/ IndexStale(s) \/ Asked(s) \/ NoAnswer(s) \/ Received(s)
       \/ Save(s) \/ Match(s) \/ Candidate(s) \/ Use(s) \/ Truncate(s) \/ Finish(s) \/ Unsaved(s)
       \/ TimesOut(s) \/ Exits(s)
  \/ \E x \in Items : Publish(x)
  \/ Cleared \/ Tick

Spec == Init /\ [][Next]_vars

-----------------------------------------------------------------------------
(* Properties.                                                             *)

(* What is injected after the hub has answered is the version it answered  *)
(* with, or a newer one: an ETag on disk never vouches for another body,   *)
(* although processes are killed between the two writes and overwrite each *)
(* other's sidecar.  Only two fetches of the same document at once may     *)
(* leave the older body under the newer ETag.                              *)
ConfirmedIsInjected ==
  \A c \in context : c.doc \notin raced => c.version >= c.confirmed

(* A session is not given a document twice within the TTL, by whatever     *)
(* prompts, unless the ledger has lost something of it: another session    *)
(* wrote back what it had read before, or had not been able to read; the   *)
(* session's own hook could not read the ledger, not even because another  *)
(* was about to write it, or was killed then; or could not write it.       *)
NotTwiceWithinTtl ==
  \A b, c \in context :
    b.session = c.session /\ b.doc = c.doc /\ b.session \notin forgotten =>
      b = c \/ b.at - c.at >= Ttl \/ c.at - b.at >= Ttl

(* keyword-docs.mjs:33-35: "a doc already injected in THIS session" is     *)
(* skipped, so as not to "re-inject what is already in context".           *)
SkippedIsInContext ==
  \A s \in Sessions :
    LET h == hook[s] IN
    h.pc = "next" /\ h.todo # <<>> /\ Len(h.blocks) < MaxDocs /\ StillFresh(h, s, Head(h.todo)) =>
      \E c \in context : c.session = s /\ c.doc = Head(h.todo) /\ h.at - c.at < Ttl
=============================================================================
