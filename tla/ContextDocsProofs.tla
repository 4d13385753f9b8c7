--------------------------- MODULE ContextDocsProofs ---------------------------
(***************************************************************************)
(* Proofs about ContextDocs, for any number of sessions, documents and     *)
(* hook processes at once.                                                 *)
(***************************************************************************)
EXTENDS ContextDocs, FiniteSetTheorems, SequenceTheorems, TLAPS

Stamps == [Docs -> Nat]
Hub == [etag : [Items -> Nat], at : Nat]
Block == [session : Sessions, prompt : Nat, doc : Docs, at : Nat, version : Nat, confirmed : Nat]
Stages == {"gone", "index", "ask", "answered", "save", "match", "next", "use", "write"}
Answers == {Nothing, "304", "200"}
Hook == [pc : Stages,
         at : Nat, hub : Hub, led : [Sessions -> Stamps], todo : Seq(Docs),
         item : Items \cup Docs \cup {Nothing}, answer : Answers,
         confirmed : Nat, blocks : Seq(Block), late : BOOLEAN]

(* With an item under way: of a document once the indexes are matched.     *)
Asking(h) == h.pc \in {"ask", "answered", "save"}
Using(h) == h.pc = "use" \/ (Asking(h) /\ h.item # Index)
Matched(h) == h.pc \in {"next", "write"} \/ Using(h)

(* A process has an item while it asks for one, and no text before it has  *)
(* matched.                                                                *)
Fit(h) ==
  /\ h \in Hook
  /\ Asking(h) => h.item \in Items
  /\ Using(h) => h.item \in Docs /\ h.todo # <<>>
  /\ ~Matched(h) => h.blocks = <<>>

OwnBlocks(s, h) == \A i \in DOMAIN h.blocks : h.blocks[i].session = s

TypeInv ==
  /\ now \in Nat \ {0} /\ prompts \in [Sessions -> Nat]
  /\ server \in [Items -> Nat] /\ mirror \in [Items -> Nat]
  /\ sidecar \in Hub /\ ledger \in [Sessions -> Stamps]
  /\ hook \in [Sessions -> Hook]
  /\ context \subseteq Block /\ forgotten \subseteq Sessions
  /\ \A s \in Sessions : Fit(hook[s]) /\ hook[s].at <= now /\ OwnBlocks(s, hook[s])

(* What a session was given is in the ledger, at its time or a later one.  *)
Recorded(s) ==
  /\ \A d \in Docs : ledger[s][d] <= now
  /\ \A c \in context : c.session = s => c.at > 0 /\ ledger[s][c.doc] >= c.at

(* A process that has read the ledger knows as much of its own session.    *)
Informed(s) ==
  LET h == hook[s] IN
  Matched(h) => /\ h.at > 0
                /\ \A d \in Docs : h.led[s][d] >= ledger[s][d] /\ h.led[s][d] <= h.at

(* The document under way was not given within the TTL.                    *)
Due(s) == Using(hook[s]) => ~StillFresh(hook[s], s, hook[s].item)

(* Nor was any that is in the process's text, each of which is there once. *)
Waiting(s) ==
  LET h == hook[s] IN
  Matched(h) => \A i \in DOMAIN h.blocks :
    LET b == h.blocks[i] IN
    /\ b.at = h.at /\ h.led[s][b.doc] = h.at
    /\ \A c \in context : c.session = s /\ c.doc = b.doc => h.at - c.at >= Ttl
    /\ \A j \in DOMAIN h.blocks : j # i => h.blocks[j].doc # b.doc \/ Ttl = 0

Own(s) == Recorded(s) /\ Informed(s) /\ Due(s) /\ Waiting(s)

Inv ==
  /\ TypeInv
  /\ \A s \in Sessions \ forgotten : Own(s)
  /\ NotTwiceWithinTtl

-----------------------------------------------------------------------------
(* What the steps do to the record of a process.                           *)

(* The record of a session without a process.                              *)
LEMMA GoneIsFit == Gone \in Hook /\ Fit(Gone) /\ ~Matched(Gone) /\ Gone.at = 0 /\ Gone.blocks = <<>>
  BY DEF Gone, NoLedger, Stages, Answers, Hook, Hub, Stamps, Block, Asking, Using, Matched, Fit

(* Prompt: a new process, with what it read.                               *)
LEMMA Started ==
  ASSUME NEW at \in Nat, NEW hub \in Hub
  PROVE  LET g == [Gone EXCEPT !.pc = "index", !.at = at, !.hub = hub] IN
         g \in Hook /\ Fit(g) /\ ~Matched(g) /\ g.at = at
<1>. DEFINE g == [Gone EXCEPT !.pc = "index", !.at = at, !.hub = hub]
<1>0. Gone \in Hook /\ Gone.blocks = <<>>
  BY GoneIsFit DEF Fit
<1>1. g \in Hook /\ g.pc = "index" /\ g.at = at /\ g.blocks = <<>>
  BY <1>0 DEF Hook, Stages
<1>. QED  BY <1>1 DEF Asking, Using, Matched, Fit

(* A step to another stage.                                                *)
LEMMA AtStage ==
  ASSUME NEW h \in Hook, NEW pc \in Stages
  PROVE  LET g == [h EXCEPT !.pc = pc] IN
         g \in Hook /\ g.pc = pc /\ g.at = h.at /\ g.blocks = h.blocks
  BY DEF Hook

(* IndexStale: the index is asked for.                                     *)
LEMMA AskingForIndex ==
  ASSUME NEW h \in Hook
  PROVE  LET g == [h EXCEPT !.pc = "ask", !.item = Index] IN
         g \in Hook /\ g.pc = "ask" /\ g.item = Index /\ g.at = h.at /\ g.blocks = h.blocks
  BY DEF Hook, Stages, Items

(* The version the hub has confirmed.                                      *)
LEMMA WithConfirmed ==
  ASSUME NEW h \in Hook, NEW n \in Nat
  PROVE  LET g == [h EXCEPT !.confirmed = n] IN
         /\ g \in Hook /\ g.pc = h.pc /\ g.item = h.item /\ g.at = h.at /\ g.led = h.led
         /\ g.todo = h.todo /\ g.blocks = h.blocks
  BY DEF Hook

(* The kind of answer.                                                     *)
LEMMA WithAnswer ==
  ASSUME NEW h \in Hook, NEW pc \in Stages, NEW answer \in Answers
  PROVE  LET g == [h EXCEPT !.pc = pc, !.answer = answer] IN
         /\ g \in Hook /\ g.pc = pc /\ g.item = h.item /\ g.at = h.at /\ g.led = h.led
         /\ g.todo = h.todo /\ g.blocks = h.blocks
  BY DEF Hook

(* The copy of the sidecar.                                                *)
LEMMA WithHub ==
  ASSUME NEW h \in Hook, NEW hub \in Hub
  PROVE  LET g == [h EXCEPT !.pc = "save", !.hub = hub] IN
         /\ g \in Hook /\ g.pc = "save" /\ g.item = h.item /\ g.at = h.at /\ g.led = h.led
         /\ g.todo = h.todo /\ g.blocks = h.blocks
  BY DEF Hook, Stages

(* TimesOut: the runner does not wait any longer.                          *)
LEMMA Overdue ==
  ASSUME NEW h \in Hook
  PROVE  LET g == [h EXCEPT !.late = TRUE] IN
         /\ g \in Hook /\ g.pc = h.pc /\ g.item = h.item /\ g.at = h.at /\ g.led = h.led
         /\ g.todo = h.todo /\ g.blocks = h.blocks
  BY DEF Hook

(* What a prompt may match is a sequence of documents.                     *)
LEMMA CandidatesAreDocs ==
  ASSUME NEW docs, docs \subseteq Docs, NEW todo \in Candidates(docs)
  PROVE  todo \in Seq(Docs)
<1>1. Cardinality(Docs) \in Nat
  BY ContextDocsAssumption, FS_CardinalityType
<1>2. PICK n \in 0 .. Cardinality(Docs) : todo \in [1 .. n -> docs]
  BY DEF Candidates
<1>. QED  BY <1>1, <1>2

-----------------------------------------------------------------------------
(* Most steps change nothing the property is about: they leave the ledger  *)
(* and the contexts alone, and the process stays with its document, its    *)
(* copy of the ledger and its text, or gives them up.                      *)
Quiet(h, g) ==
  Matched(g) => /\ Matched(h) /\ g.at = h.at /\ g.led = h.led /\ g.blocks = h.blocks
                /\ Using(g) => Using(h) /\ g.item = h.item

QuietStep(s) ==
  /\ \E g \in Hook : /\ hook' = [hook EXCEPT ![s] = g]
                     /\ Fit(g) /\ g.at <= now /\ Quiet(hook[s], g)
  /\ UNCHANGED <<now, server, ledger, context, forgotten>>
  /\ mirror' \in [Items -> Nat] /\ sidecar' \in Hub /\ prompts' \in [Sessions -> Nat]

(* A step that replaces one process's record keeps the types.              *)
LEMMA TypeKept ==
  ASSUME TypeInv, NEW s \in Sessions, NEW g, Fit(g), g.at <= now, OwnBlocks(s, g),
         hook' = [hook EXCEPT ![s] = g], UNCHANGED <<now, server>>,
         mirror' \in [Items -> Nat], sidecar' \in Hub, ledger' \in [Sessions -> Stamps],
         context' \subseteq Block, forgotten' \subseteq Sessions, prompts' \in [Sessions -> Nat]
  PROVE  TypeInv'
<1>1. g \in Hook
  BY DEF Fit
<1>2. hook' \in [Sessions -> Hook] /\ \A t \in Sessions : hook'[t] = IF t = s THEN g ELSE hook[t]
  BY <1>1 DEF TypeInv
<1>3. \A t \in Sessions : Fit(hook'[t]) /\ hook'[t].at <= now /\ OwnBlocks(t, hook'[t])
  BY <1>2 DEF TypeInv
<1>. QED  BY <1>2, <1>3 DEF TypeInv

(* Such a step keeps the invariant.                                        *)
LEMMA QuietStepKeepsInv ==
  ASSUME Inv, NEW s \in Sessions, QuietStep(s)
  PROVE  Inv'
<1>1. PICK g \in Hook : /\ hook' = [hook EXCEPT ![s] = g]
                        /\ Fit(g) /\ g.at <= now /\ Quiet(hook[s], g)
  BY DEF QuietStep
<1>2. UNCHANGED <<now, server, ledger, context, forgotten>>
  BY DEF QuietStep
<1>3. TypeInv
  BY DEF Inv
<1>4. hook[s] \in Hook /\ OwnBlocks(s, hook[s])
  BY <1>3 DEF TypeInv
<1>5. OwnBlocks(s, g)
  BY <1>1, <1>4 DEF Quiet, Fit, OwnBlocks
<1>6. TypeInv'
  BY <1>1, <1>2, <1>3, <1>5, TypeKept DEF QuietStep, TypeInv
<1>7. ASSUME NEW t \in Sessions \ forgotten' PROVE Own(t)'
  <2>1. Own(t) /\ hook'[t] = IF t = s THEN g ELSE hook[t]
    BY <1>1, <1>2, <1>3, <1>7 DEF Inv, TypeInv
  <2>2. Quiet(hook[t], hook'[t])
    BY <1>1, <2>1 DEF Quiet
  <2>. HIDE DEF Inv
  <2>3. Recorded(t)'
    BY <1>2, <2>1 DEF Own, Recorded
  <2>4. Informed(t)'
    BY <1>2, <2>1, <2>2 DEF Own, Informed, Quiet
  <2>5. Due(t)'
    <3>1. SUFFICES ASSUME Using(hook'[t]) PROVE ~StillFresh(hook'[t], t, hook'[t].item)
      BY DEF Due
    <3>. QED  BY <2>1, <2>2, <3>1 DEF Own, Due, Quiet, Matched, StillFresh
  <2>6. Waiting(t)'
    BY <1>2, <2>1, <2>2 DEF Own, Waiting, Quiet
  <2>. QED  BY <2>3, <2>4, <2>5, <2>6 DEF Own
<1>8. NotTwiceWithinTtl'
  BY <1>2 DEF Inv, NotTwiceWithinTtl
<1>. QED  BY <1>6, <1>7, <1>8 DEF Inv

(* What the type invariant says of one process.                            *)
LEMMA Types ==
  ASSUME TypeInv, NEW s \in Sessions
  PROVE  /\ hook \in [Sessions -> Hook] /\ hook[s] \in Hook /\ Fit(hook[s]) /\ hook[s].at <= now
         /\ hook[s].hub \in Hub /\ hook[s].at \in Nat /\ hook[s].confirmed \in Nat
         /\ now \in Nat /\ server \in [Items -> Nat] /\ mirror \in [Items -> Nat] /\ sidecar \in Hub
         /\ ledger \in [Sessions -> Stamps] /\ prompts \in [Sessions -> Nat]
  BY DEF TypeInv, Hook

(* Noting an ETag keeps the type of the copy of the sidecar.               *)
LEMMA NotedIsHub ==
  ASSUME NEW h \in Hook, h.item \in Items
  PROVE  Noted(h, h.item, h.confirmed) \in Hub
  BY DEF Noted, Hook, Hub

(* Ten of the fifteen actions of a process are such steps.                 *)
LEMMA QuietSteps ==
  ASSUME TypeInv, NEW s \in Sessions,
         \/ Prompt(s) \/ IndexFresh(s) \/ IndexStale(s) \/ Asked(s) \/ NoAnswer(s) \/ Received(s)
         \/ Save(s) \/ Truncate(s) \/ TimesOut(s) \/ Exits(s)
  PROVE  QuietStep(s)
<1>. DEFINE h == hook[s]
<1>t. /\ hook \in [Sessions -> Hook] /\ h \in Hook /\ Fit(h) /\ h.at <= now
      /\ h.hub \in Hub /\ h.at \in Nat /\ h.confirmed \in Nat
      /\ now \in Nat /\ server \in [Items -> Nat] /\ mirror \in [Items -> Nat] /\ sidecar \in Hub
      /\ prompts \in [Sessions -> Nat]
  BY Types
<1>h. h \in Hook
  BY <1>t
<1>s. /\ "match" \in Stages /\ "ask" \in Stages /\ "answered" \in Stages /\ "save" \in Stages
      /\ "write" \in Stages
  BY DEF Stages
<1>. HIDE DEF h
<1>1. CASE Prompt(s)
  <2>. DEFINE g == [Gone EXCEPT !.pc = "index", !.at = now, !.hub = sidecar]
  <2>1. g \in Hook /\ Fit(g) /\ ~Matched(g) /\ g.at = now
    BY <1>t, Started
  <2>2. hook' = [hook EXCEPT ![s] = g]
    BY <1>1 DEF Prompt
  <2>. HIDE DEF g
  <2>3. Quiet(hook[s], g) /\ g.at <= now
    BY <1>t, <2>1 DEF Quiet
  <2>4. prompts' \in [Sessions -> Nat]
    BY <1>1, <1>t DEF Prompt
  <2>. QED  BY <1>1, <1>t, <2>1, <2>2, <2>3, <2>4 DEF Prompt, QuietStep, files, history
<1>2. CASE IndexFresh(s)
  <2>. DEFINE g == [h EXCEPT !.pc = "match"]
  <2>0. h.pc = "index"
    BY <1>2 DEF IndexFresh, h
  <2>1. g \in Hook /\ g.pc = "match" /\ g.at = h.at /\ g.blocks = h.blocks
    BY <1>t, AtStage, <1>s
  <2>2. hook' = [hook EXCEPT ![s] = g]
    BY <1>2, <1>t DEF IndexFresh, h
  <2>. HIDE DEF g
  <2>3. Fit(g) /\ ~Matched(g)
    BY <1>t, <2>0, <2>1 DEF Fit, Asking, Using, Matched
  <2>. QED  BY <1>2, <1>t, <2>1, <2>2, <2>3 DEF IndexFresh, QuietStep, Quiet, history, h
<1>3. CASE IndexStale(s)
  <2>. DEFINE g == [h EXCEPT !.pc = "ask", !.item = Index]
  <2>0. h.pc = "index"
    BY <1>3 DEF IndexStale, h
  <2>1. g \in Hook /\ g.pc = "ask" /\ g.item = Index /\ g.at = h.at /\ g.blocks = h.blocks
    BY <1>t, AskingForIndex
  <2>2. hook' = [hook EXCEPT ![s] = g]
    BY <1>3, <1>t DEF IndexStale, h
  <2>. HIDE DEF g
  <2>3. Fit(g) /\ ~Matched(g)
    BY <1>t, <2>0, <2>1 DEF Fit, Asking, Using, Matched, Items
  <2>. QED  BY <1>3, <1>t, <2>1, <2>2, <2>3 DEF IndexStale, QuietStep, Quiet, files, history, h
<1>4. ASSUME NEW g \in Hook, hook' = [hook EXCEPT ![s] = g], Asking(h), Asking(g),
             g.item = h.item, g.at = h.at, g.led = h.led, g.todo = h.todo, g.blocks = h.blocks,
             UNCHANGED <<now, prompts, server, ledger, context, forgotten>>,
             mirror' \in [Items -> Nat], sidecar' \in Hub
      PROVE  QuietStep(s)
  <2>1. Using(g) = Using(h) /\ Matched(g) = Matched(h)
    BY <1>4 DEF Asking, Using, Matched
  <2>2. Fit(g) /\ Quiet(hook[s], g)
    BY <1>4, <1>t, <2>1 DEF Fit, Quiet, h
  <2>. QED  BY <1>4, <1>t, <2>2 DEF QuietStep
<1>5. CASE Asked(s)
  <2>. DEFINE pc == "answered"
  <2>p. pc \in Stages
    BY <1>s
  <2>. HIDE DEF pc
  <2>. DEFINE v == server[h.item]
              a == IF h.hub.etag[h.item] = v THEN "304" ELSE "200"
              b == [h EXCEPT !.pc = pc, !.answer = a]
              g == [b EXCEPT !.confirmed = v]
  <2>0. h.pc = "ask" /\ Asking(h) /\ h.item \in Items
    BY <1>5, <1>t DEF Asked, Asking, Fit, h
  <2>1. v \in Nat /\ a \in Answers
    BY <1>t, <2>0 DEF Answers
  <2>. HIDE DEF v, a
  <2>2. /\ b \in Hook /\ b.pc = pc /\ b.item = h.item /\ b.at = h.at /\ b.led = h.led
        /\ b.todo = h.todo /\ b.blocks = h.blocks
    BY <1>h, <2>p, <2>1, WithAnswer, ZenonT(40)
  <2>3. hook' = [hook EXCEPT ![s] = g]
    BY <1>5, <1>t DEF Asked, h, v, a, pc
  <2>. HIDE DEF b
  <2>4. /\ g \in Hook /\ g.pc = b.pc /\ g.item = b.item /\ g.at = b.at /\ g.led = b.led
        /\ g.todo = b.todo /\ g.blocks = b.blocks
    BY <2>1, <2>2, WithConfirmed
  <2>. HIDE DEF g
  <2>5. Asking(g)
    BY <2>2, <2>4 DEF Asking, pc
  <2>. QED  BY <1>4, <1>5, <1>t, <2>0, <2>2, <2>3, <2>4, <2>5 DEF Asked, files
<1>6. CASE NoAnswer(s)
  <2>. DEFINE b == [h EXCEPT !.pc = "save", !.hub = h.hub]
              g == [b EXCEPT !.confirmed = 0]
  <2>0. Asking(h)
    BY <1>6 DEF NoAnswer, Asking, h
  <2>2. /\ b \in Hook /\ b.pc = "save" /\ b.item = h.item /\ b.at = h.at /\ b.led = h.led
        /\ b.todo = h.todo /\ b.blocks = h.blocks
    BY <1>t, WithHub
  <2>3. hook' = [hook EXCEPT ![s] = g]
    BY <1>6, <1>t DEF NoAnswer, AfterFailure, h
  <2>. HIDE DEF b
  <2>4. /\ g \in Hook /\ g.pc = b.pc /\ g.item = b.item /\ g.at = b.at /\ g.led = b.led
        /\ g.todo = b.todo /\ g.blocks = b.blocks
    BY <2>2, WithConfirmed
  <2>. HIDE DEF g
  <2>5. Asking(g)
    BY <2>2, <2>4 DEF Asking
  <2>. QED  BY <1>4, <1>6, <1>t, <2>0, <2>2, <2>3, <2>4, <2>5 DEF NoAnswer, files, history
<1>7. CASE Received(s)
  <2>. DEFINE hub == Noted(h, h.item, h.confirmed)
              g   == [h EXCEPT !.pc = "save", !.hub = hub]
  <2>0. Asking(h) /\ h.item \in Items
    BY <1>7, <1>t DEF Received, Asking, Fit, h
  <2>1. hub \in Hub
    BY <1>t, <2>0, NotedIsHub
  <2>2. hook' = [hook EXCEPT ![s] = g]
    BY <1>7, <1>t DEF Received, h
  <2>. HIDE DEF hub
  <2>3. /\ g \in Hook /\ g.pc = "save" /\ g.item = h.item /\ g.at = h.at /\ g.led = h.led
        /\ g.todo = h.todo /\ g.blocks = h.blocks
    BY <1>t, <2>1, WithHub
  <2>. HIDE DEF g
  <2>4. Asking(g)
    BY <2>3 DEF Asking
  <2>5. mirror' \in [Items -> Nat]
    BY <1>7, <1>t DEF Received, h
  <2>. QED  BY <1>4, <1>7, <1>t, <2>0, <2>2, <2>3, <2>4, <2>5 DEF Received, history
<1>8. CASE Save(s)
  <2>. DEFINE pc == IF h.item = Index THEN "match" ELSE "use"
              g  == [h EXCEPT !.pc = pc, !.answer = Nothing]
  <2>0. h.pc = "save"
    BY <1>8 DEF Save, h
  <2>1. hook' = [hook EXCEPT ![s] = g]
    BY <1>8, <1>t DEF Save, h
  <2>2. pc \in Stages /\ pc \notin {"next", "write", "ask", "answered", "save"}
        /\ (pc = "use" <=> h.item # Index)
    BY DEF Stages
  <2>. HIDE DEF pc
  <2>3. /\ g \in Hook /\ g.pc = pc /\ g.item = h.item /\ g.at = h.at /\ g.led = h.led
        /\ g.todo = h.todo /\ g.blocks = h.blocks
    BY <1>t, <2>2, WithAnswer DEF Answers
  <2>. HIDE DEF g
  <2>4. ~Asking(g) /\ Using(g) = Using(h) /\ Matched(g) = Matched(h)
    BY <2>0, <2>2, <2>3 DEF Asking, Using, Matched
  <2>5. Fit(g) /\ Quiet(hook[s], g)
    BY <1>t, <2>3, <2>4 DEF Fit, Quiet, h
  <2>6. sidecar' \in Hub
    BY <1>8, <1>t DEF Save, h
  <2>. QED  BY <1>8, <1>t, <2>1, <2>3, <2>5, <2>6 DEF Save, QuietStep, history
<1>9. CASE TimesOut(s)
  <2>. DEFINE g == [h EXCEPT !.late = TRUE]
  <2>1. hook' = [hook EXCEPT ![s] = g]
    BY <1>9, <1>t DEF TimesOut, h
  <2>2. /\ g \in Hook /\ g.pc = h.pc /\ g.item = h.item /\ g.at = h.at /\ g.led = h.led
        /\ g.todo = h.todo /\ g.blocks = h.blocks
    BY <1>t, Overdue
  <2>. HIDE DEF g
  <2>3. Asking(g) = Asking(h) /\ Using(g) = Using(h) /\ Matched(g) = Matched(h)
    BY <2>2 DEF Asking, Using, Matched
  <2>4. Fit(g) /\ Quiet(hook[s], g)
    BY <1>t, <2>2, <2>3 DEF Fit, Quiet, h
  <2>. QED  BY <1>9, <1>t, <2>1, <2>2, <2>4 DEF TimesOut, QuietStep, files, history
<1>10. CASE Exits(s)
  <2>1. hook' = [hook EXCEPT ![s] = Gone]
    BY <1>10 DEF Exits
  <2>2. Quiet(hook[s], Gone) /\ Gone.at <= now
    BY <1>t, GoneIsFit DEF Quiet
  <2>. QED  BY <1>10, <1>t, <2>1, <2>2, GoneIsFit DEF Exits, QuietStep, files, history
<1>11. CASE Truncate(s)
  <2>. DEFINE g == [h EXCEPT !.pc = "write"]
  <2>0. h.pc = "next"
    BY <1>11 DEF Truncate, Done, h
  <2>1. g \in Hook /\ g.pc = "write" /\ g.at = h.at /\ g.blocks = h.blocks /\ g.led = h.led
    BY <1>t, <1>s DEF Hook
  <2>2. hook' = [hook EXCEPT ![s] = g]
    BY <1>11, <1>t DEF Truncate, h
  <2>. HIDE DEF g
  <2>3. Matched(g) /\ Matched(h) /\ ~Asking(g) /\ ~Using(g)
    BY <2>0, <2>1 DEF Matched, Asking, Using
  <2>4. Fit(g) /\ Quiet(hook[s], g)
    BY <1>t, <2>1, <2>3 DEF Fit, Quiet, h
  <2>. QED  BY <1>11, <1>t, <2>1, <2>2, <2>4 DEF Truncate, QuietStep, history
<1>. QED  BY <1>1, <1>2, <1>3, <1>5, <1>6, <1>7, <1>8, <1>9, <1>10, <1>11

-----------------------------------------------------------------------------
(* The steps that do touch it.  After matching, a process knows what the   *)
(* ledger knows of its session, or the session counts as forgotten, and    *)
(* has no text yet.                                                        *)
LEMMA MatchKeepsInv ==
  ASSUME Inv, NEW s \in Sessions, Match(s)
  PROVE  Inv'
<1>. DEFINE h == hook[s]
<1>t. /\ TypeInv /\ hook \in [Sessions -> Hook] /\ h \in Hook /\ Fit(h)
      /\ now \in Nat \ {0} /\ ledger \in [Sessions -> Stamps] /\ sidecar \in Hub
      /\ server \in [Items -> Nat] /\ mirror \in [Items -> Nat]
      /\ context \subseteq Block /\ forgotten \subseteq Sessions /\ prompts \in [Sessions -> Nat]
  BY DEF Inv, TypeInv
<1>1. UNCHANGED <<now, prompts, server, mirror, sidecar, ledger, context>>
  BY DEF Match, files, history
<1>2. h.blocks = <<>>
  BY <1>t DEF Match, Fit, Matched, Using, Asking
<1>3. PICK todo \in Seq(Docs) :
        /\ hook' = [hook EXCEPT ![s] = IF todo = <<>> THEN Gone
                      ELSE [h EXCEPT !.pc = "next", !.at = now, !.led = LoadLedger, !.item = Nothing,
                                     !.todo = todo]]
        /\ forgotten' = forgotten \cup {t \in {s} : todo # <<>> /\ LoadLedger[t] # ledger[t]}
  BY CandidatesAreDocs, ContextDocsAssumption DEF Match
<1>l. LoadLedger \in [Sessions -> Stamps]
  BY <1>t DEF LoadLedger, NoLedger, Stamps
<1>. DEFINE led == LoadLedger
<1>. HIDE DEF h, led
<1>4. CASE todo = <<>>
  <2>1. Gone \in Hook /\ Fit(Gone) /\ Gone.at <= now /\ Quiet(hook[s], Gone)
    BY <1>t, GoneIsFit DEF Quiet
  <2>2. forgotten' = forgotten
    BY <1>3, <1>4
  <2>. QED  BY <1>t, <1>1, <1>3, <1>4, <2>1, <2>2, QuietStepKeepsInv DEF QuietStep
<1>5. CASE todo # <<>>
  <2>. DEFINE g == [h EXCEPT !.pc = "next", !.at = now, !.led = led, !.item = Nothing,
                             !.todo = todo]
  <2>0. h \in Hook /\ now \in Nat /\ led \in [Sessions -> Stamps] /\ todo \in Seq(Docs)
    BY <1>t, <1>3, <1>l DEF led
  <2>1. /\ g \in Hook /\ g.pc = "next" /\ g.at = now /\ g.led = led /\ g.blocks = <<>>
    <3>1. /\ g \in Hook /\ g.pc = "next" /\ g.at = now /\ g.led = led /\ g.blocks = h.blocks
      BY <2>0 DEF Hook, Stages
    <3>. QED  BY <1>2, <3>1
  <2>2. /\ hook' = [hook EXCEPT ![s] = g]
        /\ forgotten \subseteq forgotten' /\ forgotten' \subseteq Sessions
        /\ s \notin forgotten' => led[s] = ledger[s]
    BY <1>t, <1>3, <1>5 DEF led
  <2>. HIDE DEF g
  <2>3. Matched(g) /\ ~Asking(g) /\ ~Using(g)
    BY <2>1 DEF Matched, Asking, Using
  <2>4. Fit(g) /\ OwnBlocks(s, g) /\ g.at <= now
    BY <1>t, <2>1, <2>3 DEF Fit, OwnBlocks
  <2>5. TypeInv'
    BY <1>t, <1>1, <2>2, <2>4, TypeKept
  <2>6. ASSUME NEW t \in Sessions \ forgotten' PROVE Own(t)'
    <3>1. Own(t)
      BY <2>2 DEF Inv
    <3>2. CASE t # s
      <4>1. hook'[t] = hook[t]
        BY <1>t, <2>2, <3>2
      <4>. QED  BY <1>1, <3>1, <4>1 DEF Own, Recorded, Informed, Due, Waiting, StillFresh
    <3>3. CASE t = s
      <4>1. hook'[s] = g
        BY <1>t, <2>2
      <4>2. Recorded(s)'
        BY <1>1, <3>1, <3>3 DEF Own, Recorded
      <4>3. Informed(s)'
        <5>1. led[s] = ledger[s]
          BY <2>2, <2>6, <3>3
        <5>. QED  BY <1>t, <1>1, <2>1, <3>1, <3>3, <4>1, <5>1 DEF Own, Recorded, Informed, Stamps
      <4>4. Due(s)' /\ Waiting(s)'
        BY <2>1, <2>3, <4>1 DEF Due, Waiting
      <4>. QED  BY <3>3, <4>2, <4>3, <4>4 DEF Own
    <3>. QED  BY <3>2, <3>3
  <2>7. NotTwiceWithinTtl'
    BY <1>1, <2>2 DEF Inv, NotTwiceWithinTtl
  <2>. QED  BY <2>5, <2>6, <2>7 DEF Inv
<1>. QED  BY <1>4, <1>5

(* Another process's step leaves what is known of a session alone.         *)
LEMMA OthersKept ==
  ASSUME TypeInv, NEW s \in Sessions, NEW g, hook' = [hook EXCEPT ![s] = g],
         UNCHANGED <<now, ledger, context>>, NEW t \in Sessions, t # s, Own(t)
  PROVE  Own(t)'
<1>1. hook'[t] = hook[t]
  BY DEF TypeInv
<1>. QED  BY <1>1 DEF Own, Recorded, Informed, Due, Waiting, StillFresh

(* A candidate that is not skipped was not given within the TTL.           *)
LEMMA CandidateKeepsInv ==
  ASSUME Inv, NEW s \in Sessions, Candidate(s)
  PROVE  Inv'
<1>. DEFINE h == hook[s]
            d == Head(h.todo)
            on  == [h EXCEPT !.todo = Tail(h.todo)]
            pc  == IF d \in HubDocs THEN "ask" ELSE "use"
            ask == [h EXCEPT !.pc = pc, !.item = d, !.confirmed = 0]
<1>t. /\ TypeInv /\ hook \in [Sessions -> Hook] /\ h \in Hook /\ Fit(h)
      /\ h.at \in Nat /\ now \in Nat /\ h.at <= now /\ OwnBlocks(s, h)
      /\ sidecar \in Hub /\ mirror \in [Items -> Nat] /\ ledger \in [Sessions -> Stamps]
      /\ context \subseteq Block /\ forgotten \subseteq Sessions /\ prompts \in [Sessions -> Nat]
  BY DEF Inv, TypeInv, Hook
<1>0. h.pc = "next" /\ h.todo # <<>> /\ h.todo \in Seq(Docs)
  BY <1>t DEF Candidate, Hook
<1>1. d \in Docs /\ Tail(h.todo) \in Seq(Docs)
  BY <1>0, HeadTailProperties
<1>2. UNCHANGED <<now, prompts, server, mirror, sidecar, ledger, context, forgotten>>
  BY DEF Candidate, files, history
<1>3. \/ hook' = [hook EXCEPT ![s] = on]
      \/ /\ ~StillFresh(h, s, d)
         /\ hook' = [hook EXCEPT ![s] = ask]
  BY <1>t DEF Candidate
<1>4. /\ on \in Hook /\ on.pc = "next" /\ on.at = h.at /\ on.led = h.led /\ on.blocks = h.blocks
  BY <1>t, <1>0, <1>1 DEF Hook
<1>5. /\ ask \in Hook /\ ask.pc = pc /\ ask.item = d /\ ask.at = h.at /\ ask.led = h.led
      /\ ask.todo = h.todo /\ ask.blocks = h.blocks
  BY <1>t, <1>1 DEF Hook, Stages
<1>6. Matched(h)
  BY <1>0 DEF Matched
<1>. HIDE DEF h, on, ask
<1>7. CASE hook' = [hook EXCEPT ![s] = on]
  <2>1. Matched(on) /\ ~Asking(on) /\ ~Using(on)
    BY <1>4 DEF Matched, Asking, Using
  <2>2. Fit(on) /\ Quiet(hook[s], on)
    BY <1>4, <1>6, <2>1 DEF Fit, Quiet, h
  <2>3. QuietStep(s)
    BY <1>t, <1>2, <1>4, <1>7, <2>2 DEF QuietStep
  <2>. QED  BY <2>3, QuietStepKeepsInv
<1>8. CASE ~StillFresh(h, s, d) /\ hook' = [hook EXCEPT ![s] = ask]
  <2>1. Matched(ask) /\ (Asking(ask) => ask.item \in Items)
    BY <1>1, <1>5, ContextDocsAssumption DEF Matched, Asking, Using, Items
  <2>2. Fit(ask) /\ OwnBlocks(s, ask) /\ ask.at <= now
    BY <1>t, <1>0, <1>1, <1>5, <2>1 DEF Fit, OwnBlocks
  <2>3. TypeInv'
    BY <1>t, <1>2, <1>8, <2>2, TypeKept
  <2>4. ASSUME NEW t \in Sessions \ forgotten' PROVE Own(t)'
    <3>1. Own(t)
      BY <1>2 DEF Inv
    <3>2. CASE t # s
      BY <1>t, <1>2, <1>8, <3>1, <3>2, OthersKept
    <3>3. CASE t = s
      <4>1. hook'[s] = ask /\ hook[s] = h
        BY <1>t, <1>8 DEF h
      <4>2. Recorded(s)'
        BY <1>2, <3>1, <3>3 DEF Own, Recorded
      <4>3. Informed(s)'
        BY <1>2, <1>5, <1>6, <3>1, <3>3, <4>1 DEF Own, Informed
      <4>4. Due(s)'
        BY <1>5, <1>8, <4>1 DEF Due, StillFresh
      <4>5. Waiting(s)'
        BY <1>2, <1>5, <1>6, <3>1, <3>3, <4>1 DEF Own, Waiting
      <4>. QED  BY <3>3, <4>2, <4>3, <4>4, <4>5 DEF Own
    <3>. QED  BY <3>2, <3>3
  <2>5. NotTwiceWithinTtl'
    BY <1>2 DEF Inv, NotTwiceWithinTtl
  <2>. QED  BY <2>3, <2>4, <2>5 DEF Inv
<1>. QED  BY <1>3, <1>7, <1>8

(* A document that is used is marked with the process's time, which is no  *)
(* earlier than what the ledger has, and a TTL later than what was given.  *)
LEMMA UseKeepsInv ==
  ASSUME Inv, NEW s \in Sessions, Use(s)
  PROVE  Inv'
<1>. DEFINE h == hook[s]
            d == h.item
            v == IF d \in HubDocs THEN mirror[d] ELSE 1
            b == [session |-> s, prompt |-> prompts[s], doc |-> d, at |-> h.at, version |-> v, confirmed |-> h.confirmed]
            on   == [h EXCEPT !.pc = "next", !.todo = Tail(h.todo)]
            led  == [h.led EXCEPT ![s][d] = h.at]
            used == [h EXCEPT !.pc = "next", !.todo = Tail(h.todo), !.led[s][d] = h.at,
                              !.blocks = Append(h.blocks, b)]
<1>t. /\ TypeInv /\ hook \in [Sessions -> Hook] /\ h \in Hook /\ Fit(h)
      /\ h.at \in Nat /\ h.confirmed \in Nat /\ now \in Nat /\ h.at <= now /\ OwnBlocks(s, h)
      /\ h.led \in [Sessions -> Stamps] /\ h.blocks \in Seq(Block) /\ h.todo \in Seq(Docs)
      /\ sidecar \in Hub /\ mirror \in [Items -> Nat] /\ ledger \in [Sessions -> Stamps]
      /\ context \subseteq Block /\ forgotten \subseteq Sessions /\ prompts \in [Sessions -> Nat]
  BY DEF Inv, TypeInv, Hook
<1>0. Using(h) /\ Matched(h) /\ d \in Docs /\ h.todo # <<>>
  BY <1>t DEF Use, Using, Matched, Fit
<1>1. Tail(h.todo) \in Seq(Docs)
  BY <1>t, <1>0, HeadTailProperties
<1>2. UNCHANGED <<now, prompts, server, mirror, sidecar, ledger, context, forgotten>>
  BY DEF Use, files, history
<1>3. hook' = [hook EXCEPT ![s] = on] \/ hook' = [hook EXCEPT ![s] = used]
  BY <1>t DEF Use
<1>4. on \in Hook /\ on.pc = "next" /\ on.at = h.at /\ on.led = h.led /\ on.blocks = h.blocks
  BY <1>t, <1>1 DEF Hook, Stages
<1>5. b \in Block /\ b.session = s /\ b.doc = d /\ b.at = h.at
  <2>1. v \in Nat
    BY <1>t DEF Items
  <2>. QED  BY <1>t, <1>0, <2>1 DEF Block
<1>. HIDE DEF b
<1>6. /\ Append(h.blocks, b) \in Seq(Block)
      /\ DOMAIN Append(h.blocks, b) = 1 .. Len(h.blocks) + 1 /\ DOMAIN h.blocks = 1 .. Len(h.blocks)
      /\ Len(h.blocks) \in Nat
      /\ \A i \in 1 .. Len(h.blocks) + 1 :
           Append(h.blocks, b)[i] = IF i = Len(h.blocks) + 1 THEN b ELSE h.blocks[i]
  BY <1>t, <1>5, AppendProperties
<1>7. /\ used \in Hook /\ used.pc = "next" /\ used.at = h.at /\ used.led = led
      /\ used.blocks = Append(h.blocks, b)
  <2>. DEFINE blocks == Append(h.blocks, b)
  <2>1. h \in Hook /\ d \in Docs /\ Tail(h.todo) \in Seq(Docs) /\ blocks \in Seq(Block)
    BY <1>t, <1>0, <1>1, <1>6
  <2>. HIDE DEF blocks
  <2>. QED  BY <2>1 DEF Hook, Stages, Stamps, blocks
<1>8. \A e \in Docs : led[s][e] = IF e = d THEN h.at ELSE h.led[s][e]
  BY <1>t, <1>0 DEF Stamps
<1>. HIDE DEF h, on, used, led
<1>9. CASE hook' = [hook EXCEPT ![s] = on]
  <2>1. Matched(on) /\ ~Asking(on) /\ ~Using(on)
    BY <1>4 DEF Matched, Asking, Using
  <2>2. Fit(on) /\ Quiet(hook[s], on)
    BY <1>0, <1>4, <2>1 DEF Fit, Quiet, h
  <2>3. QuietStep(s)
    BY <1>t, <1>2, <1>4, <1>9, <2>2 DEF QuietStep
  <2>. QED  BY <2>3, QuietStepKeepsInv
<1>10. CASE hook' = [hook EXCEPT ![s] = used]
  <2>1. Matched(used) /\ ~Asking(used) /\ ~Using(used)
    BY <1>7 DEF Matched, Asking, Using
  <2>2. Fit(used) /\ OwnBlocks(s, used) /\ used.at <= now
    BY <1>t, <1>5, <1>6, <1>7, <2>1 DEF Fit, OwnBlocks
  <2>3. TypeInv'
    BY <1>t, <1>2, <1>10, <2>2, TypeKept
  <2>4. ASSUME NEW t \in Sessions \ forgotten' PROVE Own(t)'
    <3>1. Own(t)
      BY <1>2 DEF Inv
    <3>2. CASE t # s
      BY <1>t, <1>2, <1>10, <3>1, <3>2, OthersKept
    <3>3. CASE t = s
      <4>1. hook'[s] = used /\ hook[s] = h
        BY <1>t, <1>10 DEF h
      <4>0. h.at \in Nat /\ \A e \in Docs : h.led[s][e] \in Nat /\ ledger[s][e] \in Nat
        BY <1>t DEF Stamps
      <4>2. Recorded(s)'
        BY <1>2, <3>1, <3>3 DEF Own, Recorded
      <4>3. /\ h.at > 0
            /\ \A e \in Docs : h.led[s][e] >= ledger[s][e] /\ h.led[s][e] <= h.at
        BY <1>0, <3>1, <3>3, <4>1 DEF Own, Informed
      <4>4. Informed(s)'
        <5>1. \A e \in Docs : led[s][e] >= ledger[s][e] /\ led[s][e] <= h.at
          BY <1>8, <4>0, <4>3
        <5>. QED  BY <1>2, <1>7, <4>1, <4>3, <5>1 DEF Informed
      <4>5. Due(s)'
        BY <2>1, <4>1 DEF Due
      <4>6. \A c \in context : c.session = s /\ c.doc = d => h.at - c.at >= Ttl
        <5>1. h.led[s][d] = 0 \/ h.at - h.led[s][d] >= Ttl
          BY <1>t, <1>0, <3>1, <3>3, <4>1, ContextDocsAssumption DEF Own, Due, StillFresh, Stamps
        <5>2. \A c \in context : c.session = s /\ c.doc = d =>
                c.at \in Nat /\ c.at > 0 /\ h.led[s][d] >= c.at
          BY <1>t, <1>0, <3>1, <3>3, <4>3 DEF Own, Recorded, Stamps, Block
        <5>. QED  BY <1>0, <4>0, <5>1, <5>2, ContextDocsAssumption
      <4>7. \A i \in DOMAIN h.blocks : h.blocks[i].doc = d => Ttl = 0
        <5>1. h.led[s][d] = 0 \/ h.at - h.led[s][d] >= Ttl
          BY <1>t, <1>0, <3>1, <3>3, <4>1, ContextDocsAssumption DEF Own, Due, StillFresh, Stamps
        <5>2. \A i \in DOMAIN h.blocks : h.led[s][h.blocks[i].doc] = h.at
          BY <1>0, <3>1, <3>3, <4>1 DEF Own, Waiting
        <5>. QED  BY <1>t, <4>3, <5>1, <5>2, ContextDocsAssumption
      <4>8. Waiting(s)'
        <5>1. \A i \in DOMAIN h.blocks : h.blocks[i] \in Block
          BY <1>t
        <5>2. \A i \in DOMAIN h.blocks :
                LET x == h.blocks[i] IN
                /\ x.at = h.at /\ led[s][x.doc] = h.at
                /\ \A c \in context : c.session = s /\ c.doc = x.doc => h.at - c.at >= Ttl
                /\ \A j \in DOMAIN h.blocks : j # i => h.blocks[j].doc # x.doc \/ Ttl = 0
          BY <1>0, <1>8, <3>1, <3>3, <4>1, <5>1 DEF Own, Waiting, Block
        <5>. DEFINE new == used.blocks
        <5>3. /\ DOMAIN new = 1 .. Len(h.blocks) + 1
              /\ \A i \in DOMAIN new : \/ i \in DOMAIN h.blocks /\ new[i] = h.blocks[i]
                                       \/ i = Len(h.blocks) + 1 /\ new[i] = b
          BY <1>6, <1>7
        <5>. HIDE DEF new
        <5>4. ASSUME NEW i \in DOMAIN new
              PROVE  /\ new[i].at = h.at /\ led[s][new[i].doc] = h.at
                     /\ \A c \in context : c.session = s /\ c.doc = new[i].doc => h.at - c.at >= Ttl
          BY <1>0, <1>5, <1>8, <4>6, <5>2, <5>3
        <5>5. ASSUME NEW i \in DOMAIN new, NEW j \in DOMAIN new, j # i
              PROVE  new[j].doc # new[i].doc \/ Ttl = 0
          BY <1>5, <4>7, <5>2, <5>3, <5>5
        <5>. QED  BY <1>2, <1>7, <4>1, <5>4, <5>5 DEF Waiting, new
      <4>. QED  BY <3>3, <4>2, <4>4, <4>5, <4>8 DEF Own
    <3>. QED  BY <3>2, <3>3
  <2>5. NotTwiceWithinTtl'
    BY <1>2 DEF Inv, NotTwiceWithinTtl
  <2>. QED  BY <2>3, <2>4, <2>5 DEF Inv
<1>. QED  BY <1>3, <1>9, <1>10

(* When a process is done, the ledger has what it gives the session, and   *)
(* any other session's entry is as it was; or the session counts as        *)
(* forgotten.                                                              *)
LEMMA FinishKeepsInv ==
  ASSUME Inv, NEW s \in Sessions, Finish(s) \/ Unsaved(s)
  PROVE  Inv'
<1>. DEFINE h == hook[s]
            given == WithinBudget(h.blocks)
<1>t. /\ TypeInv /\ hook \in [Sessions -> Hook] /\ h \in Hook /\ Fit(h)
      /\ h.at \in Nat /\ now \in Nat /\ h.at <= now /\ OwnBlocks(s, h)
      /\ h.led \in [Sessions -> Stamps] /\ h.blocks \in Seq(Block)
      /\ sidecar \in Hub /\ mirror \in [Items -> Nat] /\ ledger \in [Sessions -> Stamps]
      /\ context \subseteq Block /\ forgotten \subseteq Sessions /\ prompts \in [Sessions -> Nat]
  BY DEF Inv, TypeInv, Hook
<1>0. Matched(h)
  BY DEF Finish, Unsaved, Done, Matched
<1>1. /\ UNCHANGED <<now, prompts, server, mirror, sidecar>>
      /\ hook' = [hook EXCEPT ![s] = Gone]
      /\ context' = context \/ context' = context \cup given
  BY DEF Finish, Unsaved, Inject
<1>9. \/ /\ ledger' = h.led
         /\ forgotten' = forgotten \cup {t \in Sessions \ {s} : h.led[t] # ledger[t]}
      \/ /\ ledger' = ledger
         /\ forgotten' = forgotten \cup {t \in {s} : h.blocks # <<>>}
  BY DEF Finish, Unsaved, LedgerOf
<1>2. \A b \in given : \E i \in DOMAIN h.blocks : b = h.blocks[i]
  BY DEF WithinBudget
<1>3. \A b \in given : b \in Block /\ b.session = s
  BY <1>t, <1>2 DEF OwnBlocks
<1>10. /\ forgotten \subseteq forgotten' /\ forgotten' \subseteq Sessions
       /\ ledger' \in [Sessions -> Stamps]
       /\ \A t \in Sessions \ forgotten' : t # s => ledger'[t] = ledger[t]
       /\ s \notin forgotten' => ledger' = h.led \/ (ledger' = ledger /\ given = {})
  <2>1. h.blocks = <<>> => given = {}
    BY <1>2
  <2>. HIDE DEF h, given
  <2>. QED  BY <1>t, <1>9, <2>1
<1>. HIDE DEF h, given
<1>4. TypeInv'
  <2>1. Fit(Gone) /\ OwnBlocks(s, Gone) /\ Gone.at <= now
    BY <1>t, GoneIsFit DEF OwnBlocks
  <2>. QED  BY <1>t, <1>1, <1>3, <1>10, <2>1, TypeKept
<1>5. ASSUME s \notin forgotten
      PROVE  /\ Own(s) /\ h.at > 0
             /\ \A d \in Docs : h.led[s][d] >= ledger[s][d] /\ h.led[s][d] <= h.at
             /\ \A i \in DOMAIN h.blocks :
                  LET b == h.blocks[i] IN
                  /\ b.at = h.at /\ h.led[s][b.doc] = h.at
                  /\ \A c \in context : c.session = s /\ c.doc = b.doc => h.at - c.at >= Ttl
                  /\ \A j \in DOMAIN h.blocks : j # i => h.blocks[j].doc # b.doc \/ Ttl = 0
  BY <1>0, <1>5 DEF Inv, Own, Informed, Waiting, h
<1>6. ASSUME NEW t \in Sessions \ forgotten' PROVE Own(t)'
  <2>1. Own(t) /\ t \notin forgotten
    BY <1>10 DEF Inv
  <2>2. hook'[t] = IF t = s THEN Gone ELSE hook[t]
    BY <1>t, <1>1
  <2>3. CASE t = s
    <3>1. \A d \in Docs : h.led[s][d] \in Nat /\ ledger[s][d] \in Nat
      BY <1>t DEF Stamps
    <3>w. ledger' = h.led \/ (ledger' = ledger /\ given = {})
      BY <1>6, <1>10, <2>3
    <3>2. \A d \in Docs : ledger'[s][d] <= now'
      <4>1. \A d \in Docs : ledger[s][d] <= now
        BY <2>1, <2>3 DEF Own, Recorded
      <4>. QED  BY <1>t, <1>1, <1>5, <2>1, <2>3, <3>1, <3>w, <4>1
    <3>3. ASSUME NEW c \in context', c.session = s
          PROVE  c.at > 0 /\ ledger'[s][c.doc] >= c.at
      <4>1. CASE c \in context
        <5>1. c.doc \in Docs /\ c.at \in Nat
          BY <1>t, <4>1 DEF Block
        <5>2. c.at > 0 /\ ledger[s][c.doc] >= c.at
          BY <2>1, <2>3, <3>3, <4>1 DEF Own, Recorded
        <5>3. h.led[s][c.doc] >= ledger[s][c.doc]
          BY <1>5, <2>1, <2>3, <5>1
        <5>. QED  BY <3>1, <3>w, <5>1, <5>2, <5>3
      <4>2. CASE c \in given
        <5>1. c.at = h.at /\ h.led[s][c.doc] = h.at /\ h.at > 0
          BY <1>2, <1>5, <2>1, <2>3, <4>2
        <5>. QED  BY <1>t, <3>w, <4>2, <5>1
      <4>. QED  BY <1>1, <3>3, <4>1, <4>2
    <3>4. Recorded(s)'
      BY <3>2, <3>3 DEF Recorded
    <3>5. Informed(s)' /\ Due(s)' /\ Waiting(s)'
      BY <2>2, <2>3, GoneIsFit DEF Informed, Due, Waiting, Matched
    <3>. QED  BY <2>3, <3>4, <3>5 DEF Own
  <2>4. CASE t # s
    <3>1. ledger'[t] = ledger[t] /\ hook'[t] = hook[t]
      BY <1>6, <1>10, <2>2, <2>4
    <3>2. \A c \in context' : c.session = t => c \in context
      BY <1>1, <1>3, <2>4
    <3>3. Recorded(t)'
      BY <1>1, <2>1, <3>1, <3>2 DEF Own, Recorded
    <3>4. Informed(t)'
      BY <1>1, <2>1, <3>1 DEF Own, Informed
    <3>5. Due(t)'
      BY <2>1, <3>1 DEF Own, Due, StillFresh
    <3>6. Waiting(t)'
      BY <2>1, <3>1, <3>2 DEF Own, Waiting
    <3>. QED  BY <3>3, <3>4, <3>5, <3>6 DEF Own
  <2>. QED  BY <2>3, <2>4
<1>7. ASSUME NEW b \in context', NEW c \in context',
             b.session = c.session, b.doc = c.doc, b.session \notin forgotten'
      PROVE  b = c \/ b.at - c.at >= Ttl \/ c.at - b.at >= Ttl
  <2>0. b.session \notin forgotten
    BY <1>7, <1>10
  <2>1. CASE b \in context /\ c \in context
    BY <1>7, <2>0, <2>1 DEF Inv, NotTwiceWithinTtl
  <2>2. ASSUME NEW x \in given, NEW y \in context, x.session = y.session, x.doc = y.doc,
               x.session \notin forgotten
        PROVE  x.at - y.at >= Ttl
    BY <1>2, <1>3, <1>5, <2>2
  <2>3. CASE b \in given /\ c \in given
    <3>1. s \notin forgotten
      BY <1>3, <2>0, <2>3
    <3>2. PICK i \in DOMAIN h.blocks : b = h.blocks[i]
      BY <1>2, <2>3
    <3>3. PICK j \in DOMAIN h.blocks : c = h.blocks[j]
      BY <1>2, <2>3
    <3>4. b.at = h.at /\ c.at = h.at
      BY <1>5, <3>1, <3>2, <3>3
    <3>5. i = j \/ Ttl = 0
      BY <1>5, <1>7, <3>1, <3>2, <3>3
    <3>. QED  BY <1>t, <3>2, <3>3, <3>4, <3>5
  <2>. QED  BY <1>1, <1>7, <2>0, <2>1, <2>2, <2>3
<1>8. NotTwiceWithinTtl'
  BY <1>7 DEF NotTwiceWithinTtl
<1>. QED  BY <1>4, <1>6, <1>8 DEF Inv

(* The invariant holds when nobody has prompted yet.                       *)
LEMMA InitInv == Init => Inv
<1>. SUFFICES ASSUME Init PROVE Inv
  OBVIOUS
<1>1. Gone \in Hook /\ Fit(Gone) /\ ~Matched(Gone) /\ ~Using(Gone) /\ Gone.at = 0 /\ Gone.blocks = <<>>
  BY GoneIsFit DEF Matched
<1>2. TypeInv
  <2>1. sidecar \in Hub /\ ledger \in [Sessions -> Stamps]
    BY <1>1 DEF Init, Hook, NoLedger, Stamps
  <2>2. hook \in [Sessions -> Hook] /\ \A s \in Sessions : hook[s] = Gone
    BY <1>1 DEF Init
  <2>3. \A s \in Sessions : Fit(hook[s]) /\ hook[s].at <= now /\ OwnBlocks(s, hook[s])
    BY <1>1, <2>2 DEF Init, OwnBlocks
  <2>. QED  BY <2>1, <2>2, <2>3 DEF Init, TypeInv
<1>3. ASSUME NEW s \in Sessions PROVE Own(s)
  <2>1. hook[s] = Gone
    BY DEF Init
  <2>2. Recorded(s)
    BY DEF Init, Recorded, NoLedger
  <2>. QED  BY <1>1, <2>1, <2>2 DEF Own, Informed, Due, Waiting
<1>4. NotTwiceWithinTtl
  BY DEF Init, NotTwiceWithinTtl
<1>. QED  BY <1>2, <1>3, <1>4 DEF Inv

(* And every step keeps it.                                                *)
LEMMA NextKeepsInv == Inv /\ [Next]_vars => Inv'
<1>. SUFFICES ASSUME Inv, [Next]_vars PROVE Inv'
  OBVIOUS
<1>t. TypeInv
  BY DEF Inv
<1>1. ASSUME NEW s \in Sessions,
             \/ Prompt(s) \/ IndexFresh(s) \/ IndexStale(s) \/ Asked(s) \/ NoAnswer(s)
             \/ Received(s) \/ Save(s) \/ Truncate(s) \/ TimesOut(s) \/ Exits(s)
      PROVE  Inv'
  BY <1>t, <1>1, QuietSteps, QuietStepKeepsInv
<1>2. ASSUME NEW s \in Sessions, Match(s) \/ Candidate(s) \/ Use(s) \/ Finish(s) \/ Unsaved(s)
      PROVE  Inv'
  BY <1>2, MatchKeepsInv, CandidateKeepsInv, UseKeepsInv, FinishKeepsInv
<1>3. ASSUME UNCHANGED <<prompts, mirror, sidecar, ledger, hook, context, forgotten>>, now' \in Nat, now' >= now,
             server' \in [Items -> Nat]
      PROVE  Inv'
  <2>1. \A s \in Sessions : hook[s] \in Hook /\ hook[s].at \in Nat
    BY <1>t DEF TypeInv, Hook
  <2>2. TypeInv'
    BY <1>3, <1>t, <2>1 DEF TypeInv, Fit
  <2>3. ASSUME NEW s \in Sessions \ forgotten PROVE Own(s)'
    <3>1. Own(s)
      BY DEF Inv
    <3>2. \A d \in Docs : ledger[s][d] \in Nat
      BY <1>t DEF TypeInv, Stamps
    <3>3. Recorded(s)'
      BY <1>3, <1>t, <3>1, <3>2 DEF TypeInv, Own, Recorded
    <3>. QED  BY <1>3, <3>1, <3>3 DEF Own, Informed, Due, Waiting, StillFresh
  <2>. QED  BY <1>3, <2>2, <2>3 DEF Inv, NotTwiceWithinTtl
<1>4. ASSUME NEW x \in Items, Publish(x) PROVE Inv'
  BY <1>3, <1>4, <1>t DEF TypeInv, Publish, files, history
<1>5. CASE Tick
  BY <1>3, <1>5, <1>t DEF TypeInv, Tick, files, history
<1>6. CASE Cleared
  BY <1>3, <1>6, <1>t DEF TypeInv, Cleared, history
<1>7. CASE UNCHANGED vars
  BY <1>3, <1>7, <1>t DEF TypeInv, vars, files, history
<1>. QED  BY <1>1, <1>2, <1>4, <1>5, <1>6, <1>7 DEF Next

(* However many sessions prompt at once, and whenever processes are        *)
(* killed or given up, a session is given a document again only after the  *)
(* TTL, or after the ledger has lost something of it: by what another      *)
(* session wrote back, by a file that could not be read when its own hook  *)
(* matched, or by a write of its own that failed.                          *)
THEOREM NoDocumentTwice == Spec => []NotTwiceWithinTtl
<1>1. Inv => NotTwiceWithinTtl
  BY DEF Inv
<1>. QED  BY <1>1, InitInv, NextKeepsInv, PTL DEF Spec

-----------------------------------------------------------------------------
(***************************************************************************)
(* The ETags.  Of a document that no two processes fetched at once, no     *)
(* note is newer than the file, whoever holds it; the file is not newer    *)
(* than the hub; and what a process was answered, it will read or write.   *)
(***************************************************************************)
Fetching(h, x) == h.item = x /\ h.pc = "answered"

Truthful(h, x, file, hub) ==
  /\ h.hub.etag[x] <= file
  /\ Fetching(h, x) => /\ file <= h.confirmed /\ h.confirmed <= hub
                       /\ h.answer # "200" => h.confirmed <= h.hub.etag[x]
  /\ h.item = x /\ h.pc \in {"save", "use"} => h.confirmed <= file

Grounded(h, shared) ==
  /\ h.pc = "use" /\ h.item \notin Items => h.confirmed = 0
  /\ \A i \in DOMAIN h.blocks :
       h.blocks[i].doc \notin shared => h.blocks[i].version >= h.blocks[i].confirmed

Vouched(x) ==
  /\ mirror[x] <= server[x] /\ sidecar.etag[x] <= mirror[x]
  /\ \A s \in Sessions : Truthful(hook[s], x, mirror[x], server[x])
  /\ \A s, t \in Sessions : Fetching(hook[s], x) /\ Fetching(hook[t], x) => s = t

FreshInv ==
  /\ \A x \in Items \ raced : Vouched(x)
  /\ \A s \in Sessions : Grounded(hook[s], raced)
  /\ ConfirmedIsInjected

(* What the types say of the numbers.                                      *)
LEMMA Numbers ==
  ASSUME TypeInv, NEW s \in Sessions, NEW x \in Items
  PROVE  /\ mirror[x] \in Nat /\ server[x] \in Nat /\ sidecar.etag[x] \in Nat
         /\ hook[s].hub.etag[x] \in Nat /\ hook[s].confirmed \in Nat
  BY DEF TypeInv, Hook, Hub

(* A step of one process keeps the invariant when what it leaves behind    *)
(* does, and a file it replaces was fetched by nobody else.                *)
LEMMA FreshKept ==
  ASSUME TypeInv, TypeInv', FreshInv, NEW s \in Sessions,
         \A t \in Sessions \ {s} : hook'[t] = hook[t],
         raced \subseteq raced', UNCHANGED server,
         Grounded(hook'[s], raced'), ConfirmedIsInjected',
         \A x \in Items \ raced' :
           /\ mirror[x] <= mirror'[x] /\ mirror'[x] <= server[x] /\ sidecar'.etag[x] <= mirror'[x]
           /\ Truthful(hook'[s], x, mirror'[x], server[x])
           /\ mirror'[x] # mirror[x] \/ Fetching(hook'[s], x) =>
                \A t \in Sessions \ {s} : ~Fetching(hook[t], x)
  PROVE  FreshInv'
<1>1. ASSUME NEW x \in Items \ raced' PROVE Vouched(x)'
  <2>1. Vouched(x) /\ x \in Items
    BY DEF FreshInv
  <2>2. ASSUME NEW t \in Sessions \ {s}
        PROVE  Truthful(hook[t], x, mirror'[x], server[x])
    <3>1. Truthful(hook[t], x, mirror[x], server[x])
      BY <2>1 DEF Vouched
    <3>2. /\ mirror[x] \in Nat /\ mirror'[x] \in Nat /\ hook[t].hub.etag[x] \in Nat
          /\ hook[t].confirmed \in Nat /\ mirror[x] <= mirror'[x]
      BY Numbers, <2>1 DEF TypeInv
    <3>3. mirror'[x] # mirror[x] => ~Fetching(hook[t], x)
      OBVIOUS
    <3>. QED  BY <3>1, <3>2, <3>3 DEF Truthful
  <2>3. \A t \in Sessions : Truthful(hook'[t], x, mirror'[x], server'[x])
    BY <2>2
  <2>4. ASSUME NEW t \in Sessions, NEW u \in Sessions, Fetching(hook'[t], x), Fetching(hook'[u], x)
        PROVE  t = u
    <3>1. CASE t # s /\ u # s
      BY <2>1, <2>4, <3>1 DEF Vouched
    <3>2. CASE t = s \/ u = s
      BY <2>4, <3>2
    <3>. QED  BY <3>1, <3>2
  <2>. QED  BY <2>3, <2>4 DEF Vouched
<1>2. ASSUME NEW t \in Sessions PROVE Grounded(hook'[t], raced')
  BY DEF FreshInv, Grounded
<1>. QED  BY <1>1, <1>2 DEF FreshInv

(* Most steps touch none of it but the process's own record.               *)
LEMMA FreshStep ==
  ASSUME TypeInv, TypeInv', FreshInv, NEW s \in Sessions,
         \/ Prompt(s) \/ IndexFresh(s) \/ IndexStale(s) \/ Asked(s) \/ NoAnswer(s) \/ Received(s)
         \/ Save(s) \/ Match(s) \/ Candidate(s) \/ Use(s) \/ Truncate(s) \/ Finish(s)
         \/ Unsaved(s) \/ TimesOut(s) \/ Exits(s)
  PROVE  FreshInv'
<1>. DEFINE h == hook[s]
<1>t. /\ hook \in [Sessions -> Hook] /\ h \in Hook /\ Fit(h) /\ h.hub \in Hub
      /\ h.at \in Nat /\ h.confirmed \in Nat
      /\ server \in [Items -> Nat] /\ mirror \in [Items -> Nat] /\ sidecar \in Hub
  BY Types
<1>v. ASSUME NEW x \in Items \ raced
      PROVE  /\ mirror[x] \in Nat /\ server[x] \in Nat /\ sidecar.etag[x] \in Nat
             /\ h.hub.etag[x] \in Nat
             /\ mirror[x] <= mirror[x] /\ mirror[x] <= server[x] /\ sidecar.etag[x] <= mirror[x]
             /\ Truthful(h, x, mirror[x], server[x]) /\ h.hub.etag[x] <= mirror[x]
  BY Numbers DEF FreshInv, Vouched, Truthful
<1>g. Grounded(h, raced)
  BY DEF FreshInv
<1>c. UNCHANGED context /\ raced \subseteq raced' => ConfirmedIsInjected'
  BY DEF FreshInv, ConfirmedIsInjected
<1>n. Gone.pc = "gone" /\ Gone.item = Nothing /\ Gone.blocks = <<>> /\ Gone.confirmed = 0
      /\ Gone.hub.etag = [x \in Items |-> 0] /\ Gone.answer = Nothing
  BY DEF Gone
<1>. HIDE DEF h
(* Nothing is fetched, confirmed or written but the record.                *)
<1>q. ASSUME \A t \in Sessions \ {s} : hook'[t] = hook[t], UNCHANGED <<server, mirror, context, raced>>,
             hook'[s].pc # "answered",
             hook'[s].pc \in {"save", "use"} =>
                 \/ /\ hook'[s].item = h.item /\ h.pc \in {"save", "use"}
                    /\ hook'[s].confirmed = h.confirmed
                 \/ hook'[s].confirmed = 0,
             hook'[s].blocks = h.blocks \/ hook'[s].blocks = <<>>,
             \A x \in Items \ raced : /\ hook'[s].hub.etag[x] <= mirror[x]
                                      /\ sidecar'.etag[x] <= mirror[x]
      PROVE  FreshInv'
  <2>1. ASSUME NEW x \in Items \ raced
        PROVE  Truthful(hook'[s], x, mirror[x], server[x])
    BY <1>q, <1>v, <2>1 DEF Truthful, Fetching
  <2>2. Grounded(hook'[s], raced)
    <3>1. Asking(h) => h.item \in Items
      BY <1>t DEF Fit
    <3>. QED  BY <1>q, <1>g, <3>1 DEF Grounded, Asking
  <2>. QED  BY <1>q, <1>c, <1>v, <2>1, <2>2, FreshKept DEF Fetching
<1>e. ASSUME NEW g, hook' = [hook EXCEPT ![s] = g]
      PROVE  hook'[s] = g /\ \A t \in Sessions \ {s} : hook'[t] = hook[t]
  BY <1>e, <1>t
<1>1. CASE Prompt(s)
  <2>1. hook' = [hook EXCEPT ![s] = [Gone EXCEPT !.pc = "index", !.at = now, !.hub = sidecar]]
    BY <1>1 DEF Prompt
  <2>2. hook'[s].pc = "index" /\ hook'[s].blocks = <<>> /\ hook'[s].hub = sidecar
    BY <1>t, <2>1 DEF Gone
  <2>. QED  BY <1>1, <1>e, <1>q, <1>v, <2>1, <2>2 DEF Prompt, files, history
<1>2. CASE IndexFresh(s)
  <2>1. hook' = [hook EXCEPT ![s] = [h EXCEPT !.pc = "match"]]
    BY <1>2, <1>t DEF IndexFresh, h
  <2>2. hook'[s].pc = "match" /\ hook'[s].blocks = h.blocks /\ hook'[s].hub = h.hub
    BY <1>t, <2>1 DEF Hook
  <2>3. sidecar' = h.hub
    BY <1>2 DEF IndexFresh, h
  <2>. QED  BY <1>2, <1>e, <1>q, <1>v, <2>1, <2>2, <2>3 DEF IndexFresh, history
<1>3. CASE IndexStale(s)
  <2>1. hook' = [hook EXCEPT ![s] = [h EXCEPT !.pc = "ask", !.item = Index]]
    BY <1>3, <1>t DEF IndexStale, h
  <2>2. hook'[s].pc = "ask" /\ hook'[s].blocks = h.blocks /\ hook'[s].hub = h.hub
    BY <1>t, <2>1 DEF Hook
  <2>. QED  BY <1>3, <1>e, <1>q, <1>v, <2>1, <2>2 DEF IndexStale, files, history
(* The request itself: the hub's version is the newest there is.           *)
<1>4. CASE Asked(s)
  <2>. DEFINE a == IF h.hub.etag[h.item] = server[h.item] THEN "304" ELSE "200"
  <2>0. h.pc = "ask" /\ h.item \in Items
    BY <1>4, <1>t DEF Asked, h, Fit, Asking
  <2>1. hook' = [hook EXCEPT ![s] = [h EXCEPT !.pc = "answered", !.answer = a, !.confirmed = server[h.item]]]
    BY <1>4, <1>t DEF Asked, h
  <2>2. /\ hook'[s].pc = "answered" /\ hook'[s].answer = a /\ hook'[s].confirmed = server[h.item]
        /\ hook'[s].item = h.item /\ hook'[s].blocks = h.blocks /\ hook'[s].hub = h.hub
    BY <1>t, <2>1 DEF Hook
  <2>3. a # "200" => h.hub.etag[h.item] = server[h.item]
    OBVIOUS
  <2>. HIDE DEF a
  <2>4. /\ UNCHANGED <<server, mirror, sidecar, context>>
        /\ raced' = raced \cup {y \in {h.item} : \E t \in Sessions \ {s} :
                               hook[t].item = y /\ hook[t].pc \in {"answered", "save"}}
    BY <1>4 DEF Asked, files, h
  <2>5. ASSUME NEW x \in Items \ raced'
        PROVE  /\ Truthful(hook'[s], x, mirror'[x], server[x])
               /\ Fetching(hook'[s], x) => \A t \in Sessions \ {s} : ~Fetching(hook[t], x)
    <3>1. x \in Items \ raced
      BY <2>4
    <3>2. Truthful(hook'[s], x, mirror[x], server[x])
      BY <1>v, <2>2, <2>3, <3>1 DEF Truthful, Fetching
    <3>3. ASSUME x = h.item, NEW t \in Sessions \ {s} PROVE ~Fetching(hook[t], x)
      BY <2>4, <2>5, <3>3 DEF Fetching
    <3>. QED  BY <2>2, <2>4, <3>2, <3>3 DEF Fetching
  <2>6. Grounded(hook'[s], raced')
    BY <1>g, <2>2, <2>4 DEF Grounded
  <2>7. raced \subseteq raced'
    BY <2>4
  <2>8. \A t \in Sessions \ {s} : hook'[t] = hook[t]
    BY <1>e, <2>1
  <2>9. ASSUME NEW x \in Items \ raced'
        PROVE  /\ mirror[x] <= mirror'[x] /\ mirror'[x] <= server[x] /\ sidecar'.etag[x] <= mirror'[x]
               /\ mirror'[x] = mirror[x]
    BY <1>v, <2>4
  <2>. QED  BY <1>c, <2>4, <2>5, <2>6, <2>7, <2>8, <2>9, FreshKept
<1>5. CASE NoAnswer(s)
  <2>1. hook' = [hook EXCEPT ![s] = [h EXCEPT !.pc = "save", !.hub = h.hub, !.confirmed = 0]]
    BY <1>5, <1>t DEF NoAnswer, AfterFailure, h
  <2>2. hook'[s].pc = "save" /\ hook'[s].confirmed = 0 /\ hook'[s].blocks = h.blocks /\ hook'[s].hub = h.hub
    BY <1>t, <2>1 DEF Hook
  <2>. QED  BY <1>5, <1>e, <1>q, <1>v, <2>1, <2>2 DEF NoAnswer, files, history
(* The answer comes: its version is in the file, or was.                   *)
<1>6. CASE Received(s)
  <2>0. h.pc = "answered" /\ h.item \in Items
    BY <1>6, <1>t DEF Received, h, Fit, Asking
  <2>. DEFINE hub == Noted(h, h.item, h.confirmed)
  <2>1. hook' = [hook EXCEPT ![s] = [h EXCEPT !.pc = "save", !.hub = hub]]
    BY <1>6, <1>t DEF Received, h
  <2>2. /\ hub.etag = [h.hub.etag EXCEPT ![h.item] = h.confirmed]
        /\ h.hub.etag \in [Items -> Nat]
    BY <1>t DEF Noted, Hub
  <2>. HIDE DEF hub
  <2>3. /\ hook'[s].pc = "save" /\ hook'[s].hub = hub /\ hook'[s].confirmed = h.confirmed
        /\ hook'[s].item = h.item /\ hook'[s].blocks = h.blocks
    BY <1>t, <2>1 DEF Hook
  <2>4. /\ UNCHANGED <<server, sidecar, context, raced>>
        /\ mirror' = IF h.answer = "200" THEN [mirror EXCEPT ![h.item] = h.confirmed] ELSE mirror
    BY <1>6 DEF Received, history, h
  <2>6. ASSUME NEW x \in Items \ raced
        PROVE  /\ mirror[x] <= mirror'[x] /\ mirror'[x] <= server[x] /\ sidecar'.etag[x] <= mirror'[x]
               /\ Truthful(hook'[s], x, mirror'[x], server[x])
               /\ mirror'[x] # mirror[x] => \A t \in Sessions \ {s} : ~Fetching(hook[t], x)
    <3>1. CASE x # h.item
      <4>1. mirror'[x] = mirror[x] /\ hub.etag[x] = h.hub.etag[x]
        BY <1>t, <2>0, <2>2, <2>4, <3>1
      <4>. QED  BY <1>v, <2>3, <2>4, <3>1, <4>1 DEF Truthful, Fetching
    <3>2. CASE x = h.item
      <4>1. /\ mirror[x] <= h.confirmed /\ h.confirmed <= server[x]
            /\ h.answer # "200" => h.confirmed <= h.hub.etag[x]
        BY <1>v, <2>0, <3>2 DEF Truthful, Fetching
      <4>2. mirror'[x] = IF h.answer = "200" THEN h.confirmed ELSE mirror[x]
        BY <1>t, <2>4, <3>2
      <4>3. hub.etag[x] = h.confirmed
        BY <2>2, <3>2
      <4>4. \A t \in Sessions \ {s} : ~Fetching(hook[t], x)
        BY <2>0, <3>2 DEF FreshInv, Vouched, Fetching, h
      <4>5. h.confirmed <= mirror'[x] /\ mirror[x] <= mirror'[x] /\ mirror'[x] <= server[x]
            /\ sidecar.etag[x] <= mirror'[x]
        BY <1>t, <1>v, <4>1, <4>2
      <4>. QED  BY <2>3, <2>4, <4>3, <4>4, <4>5 DEF Truthful, Fetching
    <3>. QED  BY <3>1, <3>2
  <2>7. Grounded(hook'[s], raced')
    BY <1>g, <2>3, <2>4 DEF Grounded
  <2>. QED  BY <1>c, <1>e, <2>1, <2>3, <2>4, <2>6, <2>7, FreshKept DEF Fetching
<1>7. CASE Save(s)
  <2>. DEFINE pc == IF h.item = Index THEN "match" ELSE "use"
  <2>0. h.pc = "save" /\ pc \in {"match", "use"}
    BY <1>7 DEF Save, h
  <2>1. hook' = [hook EXCEPT ![s] = [h EXCEPT !.pc = pc, !.answer = Nothing]]
    BY <1>7, <1>t DEF Save, h
  <2>. HIDE DEF pc
  <2>2. /\ hook'[s].pc = pc /\ hook'[s].blocks = h.blocks /\ hook'[s].hub = h.hub
        /\ hook'[s].item = h.item /\ hook'[s].confirmed = h.confirmed
    BY <1>t, <2>1 DEF Hook
  <2>3. sidecar' = h.hub /\ UNCHANGED <<server, mirror, context, raced>>
    BY <1>7 DEF Save, history, h
  <2>. QED  BY <1>e, <1>q, <1>v, <2>0, <2>1, <2>2, <2>3
<1>8. CASE Match(s)
  <2>1. PICK todo : hook' = [hook EXCEPT ![s] = IF todo = <<>> THEN Gone
                  ELSE [h EXCEPT !.pc = "next", !.at = now, !.led = LoadLedger, !.item = Nothing,
                                 !.todo = todo]]
    BY <1>8, <1>t DEF Match, h
  <2>2. \/ hook'[s] = Gone
        \/ hook'[s].pc = "next" /\ hook'[s].blocks = h.blocks /\ hook'[s].hub = h.hub
    BY <1>t, <2>1 DEF Hook
  <2>3. UNCHANGED <<server, mirror, sidecar, context, raced>>
    BY <1>8 DEF Match, files
  <2>4. \A x \in Items \ raced : hook'[s].hub.etag[x] <= mirror[x] /\ sidecar'.etag[x] <= mirror[x]
    BY <1>n, <1>v, <2>2, <2>3
  <2>. QED  BY <1>e, <1>n, <1>q, <2>1, <2>2, <2>3, <2>4
<1>9. CASE Candidate(s)
  <2>. DEFINE d   == Head(h.todo)
              pc  == IF d \in HubDocs THEN "ask" ELSE "use"
              rest == Tail(h.todo)
              on  == [h EXCEPT !.todo = rest]
              ask == [h EXCEPT !.pc = pc, !.item = d, !.confirmed = 0]
  <2>0. hook' = [hook EXCEPT ![s] = on] \/ hook' = [hook EXCEPT ![s] = ask]
    BY <1>9, <1>t DEF Candidate, h
  <2>1. hook'[s] \in {on, ask} /\ \A t \in Sessions \ {s} : hook'[t] = hook[t]
    BY <1>t, <2>0
  <2>p. pc \in {"ask", "use"}
    OBVIOUS
  <2>. HIDE DEF d, rest, pc
  <2>2. on.pc = h.pc /\ on.blocks = h.blocks /\ on.hub = h.hub
    BY <1>t DEF Hook
  <2>3. ask.pc \in {"ask", "use"} /\ ask.confirmed = 0 /\ ask.blocks = h.blocks /\ ask.hub = h.hub
    BY <1>t, <2>p DEF Hook
  <2>. HIDE DEF on, ask
  <2>4. h.pc = "next" /\ UNCHANGED <<server, mirror, sidecar, context, raced>>
    BY <1>9 DEF Candidate, files, history, h
  <2>. QED  BY <1>q, <1>v, <2>1, <2>2, <2>3, <2>4
(* The document that is read is no older than the version confirmed.       *)
<1>10. CASE Use(s)
  <2>. DEFINE v == IF h.item \in HubDocs THEN mirror[h.item] ELSE 1
              b == [session |-> s, prompt |-> prompts[s], doc |-> h.item, at |-> h.at, version |-> v, confirmed |-> h.confirmed]
              rest == Tail(h.todo)
              text == Append(h.blocks, b)
              on   == [h EXCEPT !.pc = "next", !.todo = rest]
              used == [h EXCEPT !.pc = "next", !.todo = rest, !.led[s][h.item] = h.at, !.blocks = text]
  <2>0. h.pc = "use" /\ UNCHANGED <<server, mirror, sidecar, context, raced>>
    BY <1>10 DEF Use, files, history, h
  <2>1. hook' = [hook EXCEPT ![s] = on] \/ hook' = [hook EXCEPT ![s] = used]
    BY <1>10, <1>t DEF Use, h
  <2>a. hook'[s] \in {on, used} /\ \A t \in Sessions \ {s} : hook'[t] = hook[t]
    BY <1>t, <2>1
  <2>. HIDE DEF rest, text
  <2>b. /\ on.pc = "next" /\ on.hub = h.hub /\ on.blocks = h.blocks
        /\ used.pc = "next" /\ used.hub = h.hub /\ used.blocks = text
    BY <1>t DEF Hook
  <2>. HIDE DEF on, used
  <2>2. hook'[s].pc = "next" /\ hook'[s].hub = h.hub
    BY <2>a, <2>b
  <2>3. hook'[s].blocks \in {h.blocks, Append(h.blocks, b)}
    BY <2>a, <2>b DEF text
  <2>4. h.item \notin raced => v >= h.confirmed
    <3>1. CASE h.item \in HubDocs
      BY <1>v, <2>0, <3>1 DEF Truthful, Items
    <3>2. CASE h.item \notin HubDocs
      <4>1. h.item \in Docs
        BY <1>t, <2>0 DEF Fit, Using
      <4>. QED  BY <1>g, <2>0, <3>2, <4>1, ContextDocsAssumption DEF Grounded, Items
    <3>. QED  BY <3>1, <3>2
  <2>. HIDE DEF v
  <2>5. b.doc = h.item /\ b.version = v /\ b.confirmed = h.confirmed
    OBVIOUS
  <2>. HIDE DEF b
  <2>6. h.blocks \in Seq(Block)
    BY <1>t DEF Hook
  <2>7. \A i \in DOMAIN Append(h.blocks, b) :
          Append(h.blocks, b)[i] = IF i = Len(h.blocks) + 1 THEN b ELSE h.blocks[i]
    BY <2>6
  <2>8. \A i \in DOMAIN Append(h.blocks, b) : i = Len(h.blocks) + 1 \/ i \in DOMAIN h.blocks
    BY <2>6
  <2>9. Grounded(hook'[s], raced)
    BY <1>g, <2>2, <2>3, <2>4, <2>5, <2>7, <2>8 DEF Grounded
  <2>10. \A x \in Items \ raced : Truthful(hook'[s], x, mirror[x], server[x]) /\ ~Fetching(hook'[s], x)
    BY <1>v, <2>2 DEF Truthful, Fetching
  <2>. QED  BY <1>c, <1>v, <2>a, <2>0, <2>9, <2>10, FreshKept
<1>11. CASE Finish(s) \/ Unsaved(s)
  <2>1. hook' = [hook EXCEPT ![s] = Gone] /\ UNCHANGED <<server, mirror, sidecar, raced>>
        /\ context' \subseteq context \cup WithinBudget(h.blocks)
    BY <1>11 DEF Finish, Unsaved, Inject, h
  <2>2. ConfirmedIsInjected'
    BY <1>g, <2>1 DEF FreshInv, ConfirmedIsInjected, WithinBudget, Grounded
  <2>3. hook'[s] = Gone /\ \A t \in Sessions \ {s} : hook'[t] = hook[t]
    BY <1>t, <2>1
  <2>4. Grounded(hook'[s], raced')
    BY <1>n, <2>3 DEF Grounded
  <2>5. \A x \in Items \ raced : Truthful(hook'[s], x, mirror[x], server[x]) /\ ~Fetching(hook'[s], x)
    BY <1>n, <1>v, <2>3 DEF Truthful, Fetching
  <2>. QED  BY <1>v, <2>1, <2>2, <2>3, <2>4, <2>5, FreshKept
<1>12. CASE TimesOut(s)
  <2>1. hook' = [hook EXCEPT ![s] = [h EXCEPT !.late = TRUE]]
        /\ UNCHANGED <<server, mirror, sidecar, context, raced>>
    BY <1>12, <1>t DEF TimesOut, files, history, h
  <2>2. /\ hook'[s].pc = h.pc /\ hook'[s].item = h.item /\ hook'[s].confirmed = h.confirmed
        /\ hook'[s].answer = h.answer /\ hook'[s].hub = h.hub /\ hook'[s].blocks = h.blocks
    BY <1>t, <2>1 DEF Hook
  <2>3. Grounded(hook'[s], raced')
    BY <1>g, <2>1, <2>2 DEF Grounded
  <2>4. ASSUME NEW x \in Items \ raced
        PROVE  /\ Truthful(hook'[s], x, mirror[x], server[x])
               /\ Fetching(hook'[s], x) => \A t \in Sessions \ {s} : ~Fetching(hook[t], x)
    <3>1. Truthful(hook'[s], x, mirror[x], server[x])
      BY <1>v, <2>2 DEF Truthful, Fetching
    <3>2. Fetching(hook'[s], x) => Fetching(hook[s], x)
      BY <2>2 DEF Fetching, h
    <3>3. \A t \in Sessions : Fetching(hook[s], x) /\ Fetching(hook[t], x) => s = t
      BY DEF FreshInv, Vouched
    <3>. QED  BY <3>1, <3>2, <3>3
  <2>. QED  BY <1>c, <1>e, <1>v, <2>1, <2>3, <2>4, FreshKept
<1>13. CASE Exits(s)
  <2>1. hook' = [hook EXCEPT ![s] = Gone] /\ UNCHANGED <<server, mirror, sidecar, context, raced>>
    BY <1>13 DEF Exits, files, history
  <2>2. \A x \in Items \ raced : Gone.hub.etag[x] <= mirror[x]
    BY <1>n, <1>v
  <2>. QED  BY <1>e, <1>n, <1>q, <1>v, <2>1, <2>2
<1>14. CASE Truncate(s)
  <2>1. hook' = [hook EXCEPT ![s] = [h EXCEPT !.pc = "write"]]
    BY <1>14, <1>t DEF Truncate, h
  <2>2. hook'[s].pc = "write" /\ hook'[s].blocks = h.blocks /\ hook'[s].hub = h.hub
    BY <1>t, <2>1 DEF Hook
  <2>3. UNCHANGED <<server, mirror, sidecar, context, raced>>
    BY <1>14 DEF Truncate, history
  <2>. QED  BY <1>e, <1>q, <1>v, <2>1, <2>2, <2>3
<1>. QED  BY <1>1, <1>2, <1>3, <1>4, <1>5, <1>6, <1>7, <1>8, <1>9, <1>10, <1>11, <1>12, <1>13,
             <1>14

(* Every step keeps the invariant, and what the hub confirmed, or newer,   *)
(* is injected, of every document no two processes fetched at once.        *)
THEOREM ConfirmedAlwaysInjected == Spec => []ConfirmedIsInjected
<1>1. Inv /\ Init => FreshInv
  <2>. SUFFICES ASSUME Inv, Init PROVE FreshInv
    OBVIOUS
  <2>1. /\ Gone.pc = "gone" /\ Gone.item = Nothing /\ Gone.blocks = <<>>
        /\ Gone.hub.etag = [x \in Items |-> 0]
    BY DEF Gone
  <2>2. \A x \in Items : Vouched(x)
    BY <2>1 DEF Init, Vouched, Truthful, Fetching
  <2>3. \A s \in Sessions : Grounded(hook[s], raced)
    BY <2>1 DEF Init, Grounded
  <2>. QED  BY <2>2, <2>3 DEF Init, FreshInv, ConfirmedIsInjected
<1>2. Inv /\ Inv' /\ FreshInv /\ [Next]_vars => FreshInv'
  <2>. SUFFICES ASSUME Inv, Inv', FreshInv, [Next]_vars PROVE FreshInv'
    OBVIOUS
  <2>t. TypeInv /\ TypeInv'
    BY DEF Inv
  <2>1. ASSUME NEW s \in Sessions,
         \/ Prompt(s) \/ IndexFresh(s) \/ IndexStale(s) \/ Asked(s) \/ NoAnswer(s) \/ Received(s)
         \/ Save(s) \/ Match(s) \/ Candidate(s) \/ Use(s) \/ Truncate(s) \/ Finish(s)
         \/ Unsaved(s) \/ TimesOut(s) \/ Exits(s)
        PROVE  FreshInv'
    BY <2>t, <2>1, FreshStep
  <2>2. ASSUME UNCHANGED <<mirror, sidecar, hook, context, raced>>,
               \A x \in Items : server'[x] >= server[x]
        PROVE  FreshInv'
    <3>1. ASSUME NEW x \in Items \ raced PROVE Vouched(x)'
      <4>1. Vouched(x)
        BY DEF FreshInv
      <4>2. ASSUME NEW s \in Sessions PROVE Truthful(hook[s], x, mirror[x], server'[x])
        <5>1. Truthful(hook[s], x, mirror[x], server[x])
          BY <4>1 DEF Vouched
        <5>2. server[x] \in Nat /\ server'[x] \in Nat /\ hook[s].confirmed \in Nat /\ server[x] <= server'[x]
          BY <2>t, <2>2, Numbers DEF TypeInv
        <5>. QED  BY <5>1, <5>2 DEF Truthful
      <4>3. mirror[x] <= server'[x]
        <5>1. server[x] \in Nat /\ server'[x] \in Nat /\ mirror[x] \in Nat /\ server[x] <= server'[x]
          BY <2>t, <2>2 DEF TypeInv
        <5>. QED  BY <4>1, <5>1 DEF Vouched
      <4>. QED  BY <2>2, <4>1, <4>2, <4>3 DEF Vouched
    <3>. QED  BY <2>2, <3>1 DEF FreshInv, ConfirmedIsInjected
  <2>3. ASSUME NEW x \in Items, Publish(x) PROVE FreshInv'
    BY <2>t, <2>2, <2>3 DEF TypeInv, Publish, files, history
  <2>4. CASE Tick
    BY <2>t, <2>2, <2>4 DEF TypeInv, Tick, files, history
  <2>5. CASE Cleared
    BY <2>t, <2>2, <2>5 DEF TypeInv, Cleared, history
  <2>6. CASE UNCHANGED vars
    BY <2>t, <2>2, <2>6 DEF TypeInv, vars, files, history
  <2>. QED  BY <2>1, <2>3, <2>4, <2>5, <2>6 DEF Next
<1>3. FreshInv => ConfirmedIsInjected
  BY DEF FreshInv
<1>. QED  BY <1>1, <1>2, <1>3, InitInv, NextKeepsInv, PTL DEF Spec
=============================================================================
