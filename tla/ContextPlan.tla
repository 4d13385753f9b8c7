------------------------------- MODULE ContextPlan -------------------------------
(***************************************************************************)
(* What a process of the context hook decides (src/core/context/lib) on    *)
(* one kind of event: the providers two layers of configuration and the    *)
(* plugin's bundle leave, the documents that a prompt matches in three     *)
(* layers of indexes, the budget that the layers state, and how much of    *)
(* the texts goes into it.  What the process does meanwhile is in          *)
(* ContextDocs.                                                            *)
(*                                                                         *)
(* A provider has an id, a priority, and runs on this event or not; a text *)
(* is its length and where its spaces are; a keyword matches a prompt or   *)
(* not; a budget is a number.  Which file is a layer's index, and entries  *)
(* without an id, are left out.                                            *)
(***************************************************************************)
EXTENDS Integers, SequencesExt

CONSTANTS
  Registry,       \* REGISTRY: a sequence of [id, priority, runs]
  DefaultProfile, \* DEFAULT_PROFILE: a sequence of entries
  DefaultBudget,  \* DEFAULT_BUDGET of this event
  HardCap, Sep, MinKeep,   \* as in budget.mjs
  Documents, Keywords,
  MaxEntries,     \* bound: entries of both configurations
  MaxIndexed,     \* bound: entries of all indexes
  MaxTexts        \* bound: texts to be cut to the budget

VARIABLES
  user, project,  \* the providers of a configuration: a list, if it has one
  charBudget,     \* layer -> its charBudget, by event
  bundled,        \* ids of which the plugin has an index
  index,          \* layer -> its index, a sequence
  texts           \* what the providers came back with

plan_vars == <<user, project, charBudget, bundled, index, texts>>

-----------------------------------------------------------------------------
(* loadConfig.                                                             *)

Listed(layer) == FlattenSeq(SetToSeq(layer))
Named(list, id) == SelectSeq(list, LAMBDA e : e.id = id)

(* An entry replaces the one of the same id where that stands.             *)
Entered(merged, e) ==
  IF Named(merged, e.id) = <<>> THEN Append(merged, e)
  ELSE [i \in DOMAIN merged |-> IF merged[i].id = e.id THEN e ELSE merged[i]]
MergeById(list) == FoldLeft(Entered, <<>>, list)

(* The kill switch: an empty list of the project, and only of the project. *)
Disabled == project = {<<>>}

LoadConfig ==
  SelectSeq(MergeById(DefaultProfile \o Listed(user) \o Listed(project)), LAMBDA e : e.enabled)

(* Key by key, the project wins; what no layer states is the default.      *)
Event == "UserPromptSubmit"
CharBudget == charBudget["project"] @@ charBudget["user"]
Budget == IF Event \in DOMAIN CharBudget THEN CharBudget[Event] ELSE DefaultBudget

-----------------------------------------------------------------------------
(* selectProviders.                                                        *)

(* {} or the first element.                                                *)
First(list) == {list[i] : i \in {1} \cap DOMAIN list}

(* Faulty: the user's entry is asked first.                                *)
UserFirst(id) == First(Named(Listed(user) \o Listed(project), id))

(* The first entry of the project that has the id, or of the user.         *)
ConfigEntry(id) == First(Named(Listed(project) \o Listed(user), id))

Provider(p, priority) == [id |-> p.id, priority |-> priority]

(* The entries that name a provider of this event, in their order.         *)
Configured ==
  FlattenSeq([i \in DOMAIN LoadConfig |->
    LET e     == LoadConfig[i]
        known == SelectSeq(Named(Registry, e.id), LAMBDA p : p.runs)
    IN [k \in DOMAIN known |->
          Provider(known[k], Head(SetToSeq(e.priority) \o <<known[k].priority>>))]])

(* Those with a bundled index that no entry has selected or switched off.  *)
Bundled ==
  SelectSeq(Registry, LAMBDA p :
    /\ p.runs /\ p.id \in bundled
    /\ Named(Configured, p.id) = <<>>
    /\ \A e \in ConfigEntry(p.id) : e.enabled)

SelectProviders ==
  Configured \o [k \in DOMAIN Bundled |-> Provider(Bundled[k], Bundled[k].priority)]

-----------------------------------------------------------------------------
(* keyword-docs: the candidates of a prompt.                               *)

Layers == <<"project", "user", "bundle">>

(* All entries, the project's first; `layer' is the place of theirs.       *)
Entries ==
  FlattenSeq([n \in DOMAIN Layers |->
    [k \in DOMAIN index[Layers[n]] |-> [layer |-> n] @@ index[Layers[n]][k]]])

(* The keywords of an entry that the prompt has and no candidate claims.   *)
Fired(entry, prompt, got) ==
  (entry.keywords \cap prompt) \ UNION {c.matched : c \in ToSet(got)}

(* A document is a candidate once, for the entry that came first.          *)
Matched(prompt) ==
  FoldLeft(LAMBDA got, entry :
             IF Fired(entry, prompt, got) = {} \/ \E c \in ToSet(got) : c.doc = entry.doc THEN got
             ELSE Append(got, [doc |-> entry.doc, layer |-> entry.layer,
                               matched |-> Fired(entry, prompt, got)]),
           <<>>, Entries)

-----------------------------------------------------------------------------
(* budgetFragments.                                                        *)

(* By descending priority; ties keep the order they came in.               *)
Ranked(fragments) ==
  SortSeq([i \in DOMAIN fragments |-> i], LAMBDA i, j :
    \/ fragments[i].priority > fragments[j].priority
    \/ fragments[i].priority = fragments[j].priority /\ i < j)

(* The beginning of a text and an ellipsis, of room characters or less: no *)
(* space is left before the ellipsis.                                      *)
Cut(f, room) == 1 + Max((1 .. room - 1) \ f.spaces)

(* The next one: whole, cut off, or dropped; nothing follows an overflow.  *)
Kept(acc, i, f, cap) ==
  LET sep  == IF acc.out = <<>> THEN 0 ELSE Sep
      room == cap - acc.used - sep
      Take(chars) == Append(acc.out, [of |-> i, chars |-> chars])
  IN CASE acc.over -> acc
       [] ~acc.over /\ f.size <= room -> [acc EXCEPT !.out = Take(f.size), !.used = @ + sep + f.size]
       [] OTHER -> [acc EXCEPT !.over = TRUE, !.out = IF room >= MinKeep THEN Take(Cut(f, room)) ELSE @]

CapOf(budget) == IF budget < HardCap THEN budget ELSE HardCap
BudgetFragments(fragments, budget) ==
  FoldLeft(LAMBDA acc, i : Kept(acc, i, fragments[i], CapOf(budget)),
           [out |-> <<>>, used |-> 0, over |-> FALSE], Ranked(fragments)).out

-----------------------------------------------------------------------------
(* runContext, when the provider p comes back with the text of[p.id], or   *)
(* with nothing: what is injected, as pairs of an id and a length.         *)
RunContext(of) ==
  LET came == SelectSeq(SelectProviders, LAMBDA p : of[p.id].size > 0)
      body == [k \in DOMAIN came |-> of[came[k].id] @@ came[k]]
      out  == BudgetFragments(body, Budget)
  IN IF Disabled THEN <<>>
     ELSE [k \in DOMAIN out |-> [id |-> body[out[k].of].id, chars |-> out[k].chars]]

-----------------------------------------------------------------------------
(* The configurations, the indexes or the texts grow by an entry, or a     *)
(* layer states a budget, for this event or for another.                   *)

Written(id, enabled, priority) == [id |-> id, enabled |-> enabled, priority |-> priority]
Writable ==
  UNION {{Written(p.id, FALSE, {}), Written(p.id, TRUE, {}), Written(p.id, TRUE, {HardCap})} :
           p \in ToSet(Registry)}

(* A file without a list of providers gets one, or one gets longer.        *)
Longer(layer) ==
  IF layer = {} THEN {{<<>>}} ELSE {{Append(list, e)} : list \in layer, e \in Writable}

NoIndex == [layer \in ToSet(Layers) |-> <<>>]

NoBudget == [layer \in {"user", "project"} |-> [e \in {} |-> 0]]

(* A text neither begins nor ends with a space.                            *)
Texts ==
  UNION {{[size |-> size, spaces |-> spaces] : spaces \in SUBSET (2 .. size - 1)} : size \in 1 .. HardCap}

Configure ==
  /\ charBudget = NoBudget /\ index = NoIndex /\ texts = <<>>
  /\ Len(Listed(user)) + Len(Listed(project)) < MaxEntries
  /\ \/ user' \in Longer(user) /\ UNCHANGED project
     \/ project' \in Longer(project) /\ UNCHANGED user
  /\ UNCHANGED <<charBudget, bundled, index, texts>>

Limit(layer, e, n) ==
  /\ user = {} /\ project = {} /\ index = NoIndex /\ texts = <<>>
  /\ e \notin DOMAIN charBudget[layer]
  /\ charBudget' = [charBudget EXCEPT ![layer] = (e :> n) @@ @]
  /\ UNCHANGED <<user, project, bundled, index, texts>>

Ship(id) ==
  /\ index = NoIndex /\ texts = <<>> /\ id \notin bundled
  /\ bundled' = bundled \cup {id}
  /\ UNCHANGED <<user, project, charBudget, index, texts>>

Curate(layer, entry) ==
  /\ user = {} /\ project = {} /\ charBudget = NoBudget /\ bundled = {} /\ texts = <<>>
  /\ Len(Entries) < MaxIndexed
  /\ index' = [index EXCEPT ![layer] = Append(@, entry)]
  /\ UNCHANGED <<user, project, charBudget, bundled, texts>>

Collect(text) ==
  /\ user = {} /\ project = {} /\ charBudget = NoBudget /\ bundled = {} /\ index = NoIndex
  /\ Len(texts) < MaxTexts
  /\ texts' = Append(texts, text)
  /\ UNCHANGED <<user, project, charBudget, bundled, index>>

Init ==
  /\ user = {} /\ project = {} /\ charBudget = NoBudget
  /\ bundled = {} /\ index = NoIndex /\ texts = <<>>

Next ==
  \/ Configure
  \/ \E layer \in {"user", "project"}, e \in {Event, "SessionStart"}, n \in {0, MinKeep, HardCap} :
       Limit(layer, e, n)
  \/ \E p \in ToSet(Registry) : Ship(p.id)
  \/ \E layer \in ToSet(Layers), doc \in Documents, keywords \in SUBSET Keywords \ {{}} :
       Curate(layer, [doc |-> doc, keywords |-> keywords])
  \/ \E priority \in {1, 2}, text \in Texts : Collect([priority |-> priority] @@ text)

Spec == Init /\ [][Next]_plan_vars

-----------------------------------------------------------------------------
(* Properties.                                                             *)

(* What is configured for an id: by the project if it says anything of it, *)
(* else by the user.                                                       *)
Ruling(id) ==
  LET of_project == Named(Listed(project), id)
      of_user    == Named(Listed(user), id)
  IN IF of_project # <<>> THEN {Last(of_project)}
     ELSE IF of_user # <<>> THEN {Last(of_user)} ELSE {}

(* An id listed twice in one file is merged by its last entry, but whether *)
(* it was switched off is read from its first.                             *)
ListedTwice(id) ==
  Len(Named(Listed(project), id)) > 1 \/ Len(Named(Listed(user), id)) > 1

On(id) ==
  \/ \E e \in Ruling(id) : e.enabled
  \/ Ruling(id) = {} /\ (id \in bundled \/ Named(DefaultProfile, id) # <<>>)

(* config.mjs:6-16, registry.mjs:8-13: the project's entry replaces the    *)
(* user's, which replaces the default; what is bundled is on unless it is  *)
(* switched off; nothing that is off, by an entry or by the kill switch,   *)
(* has a text injected; and no provider runs twice.                        *)
SelectionSound ==
  /\ \A i, j \in DOMAIN SelectProviders : SelectProviders[i].id = SelectProviders[j].id => i = j
  /\ \A p \in ToSet(Registry) :
       p.runs /\ ~ListedTwice(p.id) =>
         /\ On(p.id) <=> Named(SelectProviders, p.id) # <<>>
         /\ \A e \in Ruling(p.id), c \in ToSet(Named(SelectProviders, p.id)) :
              c.priority = IF e.priority = {} THEN p.priority ELSE Max(e.priority)
  /\ \A out \in {RunContext([id \in {p.id : p \in ToSet(Registry)} |-> [size |-> 1, spaces |-> {}]])} :
       \A k \in DOMAIN out : ~Disabled /\ (ListedTwice(out[k].id) \/ On(out[k].id))

(* keyword-docs.mjs:10-12: a keyword claimed by a higher layer is shadowed *)
(* in lower ones.  Each document is matched once, as ContextDocs takes for *)
(* granted, each keyword by one document; one that matches and is no       *)
(* candidate has lost all its keywords to candidates before it; and a      *)
(* lower layer speaks for a keyword only when the documents that a higher  *)
(* one has for it are candidates anyway.                                   *)
MatchSound ==
  \A prompt \in SUBSET Keywords : \A got \in {Matched(prompt)} :
    /\ \A i, j \in DOMAIN got :
         i # j => got[i].doc # got[j].doc /\ got[i].matched \cap got[j].matched = {}
    /\ \A e \in ToSet(Entries) :
         \/ \E c \in ToSet(got) : c.doc = e.doc
         \/ /\ \A word \in e.keywords \cap prompt :
                 \E c \in ToSet(got) : word \in c.matched /\ c.layer <= e.layer

(* Of the texts, the budget takes the most important ones, in their order: *)
(* a text that is kept has everything more important before it, whole; one *)
(* is cut off only at the end, only when MinKeep characters or more are    *)
(* left for it, and loses of what they can hold nothing but spaces (with   *)
(* these it may get shorter than MinKeep); it is dropped only when less is *)
(* left; what fits is not cut; and with what stands between them, they are *)
(* within budget and HardCap.                                              *)
Joined(lengths) == MapThenSumSet(LAMBDA k : lengths[k], DOMAIN lengths) + Sep * (Len(lengths) - 1)
Chars(out) == [k \in DOMAIN out |-> out[k].chars]
Left(out, budget) == CapOf(budget) - IF out = <<>> THEN 0 ELSE Joined(Chars(out)) + Sep
BudgetSound ==
  texts # <<>> => \A budget \in 0 .. HardCap + 1 : \A out \in {BudgetFragments(texts, budget)} :
    LET Whole(k) == out[k].chars = texts[out[k].of].size
        CutOff(k) == LET left == Left(SubSeq(out, 1, k - 1), budget)
                     IN /\ k = Len(out) /\ left >= MinKeep
                        /\ out[k].chars - 1 \notin texts[out[k].of].spaces
                        /\ out[k].chars .. left - 1 \subseteq texts[out[k].of].spaces
    IN /\ out # <<>> => Joined(Chars(out)) <= CapOf(budget)
       /\ \A k \in DOMAIN out : Whole(k) \/ CutOff(k)
       /\ \A k \in DOMAIN out, i \in DOMAIN texts :
            \/ texts[i].priority > texts[out[k].of].priority
            \/ texts[i].priority = texts[out[k].of].priority /\ i < out[k].of
            => \E j \in 1 .. k - 1 : out[j].of = i /\ Whole(j)
       /\ Len(out) < Len(texts) => Left(out, budget) < MinKeep \/ \E k \in DOMAIN out : ~Whole(k)
       /\ Joined([i \in DOMAIN texts |-> texts[i].size]) <= CapOf(budget) =>
            Len(out) = Len(texts) /\ \A k \in DOMAIN out : Whole(k)

(* config.mjs:13, runner.mjs:57: the budget is the project's if it states  *)
(* one for this event, whatever else it states, else the user's, else the  *)
(* default: more is never injected, and what is within it is all injected. *)
Stated(layer) == {charBudget[layer][e] : e \in {Event} \cap DOMAIN charBudget[layer]}
Stating == IF Stated("project") # {} THEN Stated("project")
           ELSE IF Stated("user") # {} THEN Stated("user") ELSE {DefaultBudget}
LimitSound ==
  \A n \in Stating, size \in 1 .. HardCap :
    \A out \in {RunContext([id \in {p.id : p \in ToSet(Registry)} |-> [size |-> size, spaces |-> {}]])} :
      LET all == Joined([k \in DOMAIN SelectProviders |-> size])
      IN /\ out # <<>> => Joined(Chars(out)) <= CapOf(n)
         /\ ~Disabled /\ all <= CapOf(n) =>
              Len(out) = Len(SelectProviders) /\ \A k \in DOMAIN out : out[k].chars = size

(* The hook injects what its configuration, its indexes and its budget     *)
(* say, whatever they say.  What is selected, and the budget, is a matter  *)
(* of the configuration alone.                                             *)
InjectsAsConfigured ==
  /\ index = NoIndex /\ texts = <<>> => SelectionSound /\ LimitSound
  /\ MatchSound /\ BudgetSound
=============================================================================
