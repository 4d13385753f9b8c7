---------------------------- MODULE MCContextHook ----------------------------
(***************************************************************************)
(* The context hook for TLC: a behaviour is about its processes and their  *)
(* files (ContextDocs), or about what one process decides from its         *)
(* configuration, its indexes and its budget (ContextPlan).                *)
(***************************************************************************)
EXTENDS MCContextDocs

CONSTANTS
  DefaultBudget, HardCap, Sep, MinKeep, Documents, Keywords, \* see ContextPlan
  MaxEntries, MaxIndexed, MaxTexts

VARIABLES
  part,                                            \* what the behaviour is about
  user, project, charBudget, bundled, index, texts \* see ContextPlan

(* A provider of sessions, one of prompts, and one that may be bundled;    *)
(* the first two are on by default.                                        *)
Known == <<[id |-> "git", priority |-> 9, runs |-> FALSE],
           [id |-> "time", priority |-> 4, runs |-> TRUE],
           [id |-> "docs", priority |-> 5, runs |-> TRUE]>>
OnByDefault == <<[id |-> "git", enabled |-> TRUE, priority |-> {9}],
                 [id |-> "time", enabled |-> TRUE, priority |-> {4}]>>

Plan == INSTANCE ContextPlan WITH Registry <- Known, DefaultProfile <- OnByDefault

plan == <<user, project, charBudget, bundled, index, texts>>

InitAll == part \in {"processes", "plan"} /\ Init /\ Plan!Init

(* Bounds: the index keeps its version, and the clock passes the TTL only  *)
(* while the documents keep theirs.                                        *)
Bounded == server'[Index] = 1 /\ (now' > Ttl => server' = [x \in Items |-> 1])

NextAll ==
  \/ part = "processes" /\ Next /\ Bounded /\ UNCHANGED <<part, plan>>
  \/ part = "plan" /\ Plan!Next /\ UNCHANGED <<part, vars>>

SpecAll == InitAll /\ [][NextAll]_<<part, vars, plan>>

(* See ContextPlan: what is injected is what its configuration, the        *)
(* indexes and the budget say.                                             *)
InjectsAsConfigured == part = "plan" => Plan!InjectsAsConfigured
=============================================================================
