--------------------------------- MODULE Guards ---------------------------------
(***************************************************************************)
(* The guards of one tool call, as the opencode plugin runs them           *)
(* (src/adapters/opencode/plugin.js): bash-guard's verdict, then           *)
(* git-guard's (src/core/git-guard/decide.mjs), then the count of          *)
(* identical refusals, and only then either the refusal or the call.       *)
(*                                                                         *)
(* git-guard judges a whole command line before any of it runs, on the     *)
(* branch each segment would find: it follows `cd' and `git switch' along  *)
(* the line.  The shell and git that run the line afterwards are external. *)
(* A line is a sequence of segments, already cut into words; a directory   *)
(* is named by an absolute path, and one checkout has several.             *)
(***************************************************************************)
EXTENDS Naturals, FiniteSets, SequencesExt

CONSTANTS
  Checkouts,   \* working trees, each the set of its directories
  Cwd,         \* the directory a call starts in
  Places,      \* the directories that `-C' and `cd' name
  Branches,    \* local branches
  Protected,   \* those of them in PROTECTED
  Here, Unknown, None, \* no `-C'; "$VAR", `-', a missing directory; nothing
  MaxKeys,     \* REPEAT_MAX_KEYS
  MaxLen,      \* bound: segments of a line
  MaxAttempts, \* bound: times a line is tried
  MaxRetried,  \* bound: segments of a line that is refused more than once
  MaxFaults    \* bound: reads of a branch and segments that fail, branches moved

Dirs == UNION Checkouts
Flags == {"no-verify", "recover", "force", "help", "GET", "PUT"}

ASSUME GuardsAssumption ==
  /\ \A c, d \in Checkouts : c = d \/ c \cap d = {}
  /\ Cwd \in Dirs /\ Places \subseteq Dirs /\ Protected \subseteq Branches
  /\ {Here, Unknown, None} \cap (Dirs \cup Branches) = {}
  /\ Here # Unknown /\ Unknown # None /\ None \notin Flags
  /\ MaxKeys \in Nat /\ MaxLen \in Nat

VARIABLES
  head,     \* checkout -> the branch HEAD is on
  line,     \* the command line, empty before there is one
  scoped,   \* it has a parenthesis or a backtick
  bash,     \* what bash-guard says of it
  blockAsk, \* an "ask" is a refusal: CLAUDE_HOOKS_OC_ASK is not "allow"
  pc,       \* "new", "asked", "refused", "told", "running", "done"
  next,     \* the segment that runs next
  where,    \* the directory the shell is in
  attempts, \* times the line was tried
  denials,  \* the map: the count of this line, and how many other keys
  told,     \* the count the last refusal was worded by
  faults,
  forgiven, \* history: the map was cleared by another line's refusal
  overt,    \* history: the verdict was spoken with everything in its sight
  cause,    \* history: what was refused would have been done to a protected branch
  landed    \* history: what ran changed a protected branch

vars == <<head, line, scoped, bash, blockAsk, pc, next, where, attempts, denials, told,
          faults, forgiven, overt, cause, landed>>

CheckoutOf(d) == CHOOSE c \in Checkouts : d \in c

-----------------------------------------------------------------------------
(* The segments a line is made of: the command, the directory named by     *)
(* `-C' or `cd', the branch named, and a flag that changes the judgement.  *)
Segment(cmds, dirs, refs, flags) == [cmd : cmds, at : dirs, ref : refs, flag : flags]

AnyDir == Places \cup {Here, Unknown}
Segments ==
  Segment({"cd"}, Places \cup {Unknown}, {None}, {None})
    \cup Segment({"switch"}, AnyDir, Branches \cup {Unknown}, {None})
    \cup Segment({"commit"}, AnyDir, {None}, {None})
    \cup Segment({"commit"}, {Here}, {None}, {"no-verify"})
    \cup Segment({"merge", "rebase"}, {Here}, {None}, {None, "recover"})
    \cup Segment({"pull"}, {Here}, Branches \cup {None}, {None})
    \cup Segment({"push"}, {Here}, Branches \cup {None}, {None})
    \cup Segment({"push"}, {Here}, {None}, {"force"})
    \cup Segment({"gh pr merge"}, {Here}, {None}, {None, "help"})
    \cup Segment({"gh api"}, {Here}, {None}, {"GET", "PUT"})

Edits == Segment({"edit"}, Places \cup {Here}, {None}, {None})

-----------------------------------------------------------------------------
(* git-guard.                                                              *)

(* A merge or a rebase that ends one under way.                            *)
Finishes(s) == s.flag = "recover"

(* pushTargetsProtected: without a refspec it is the branch HEAD is on.    *)
PushesTo(s, branch) == IF s.ref = None THEN branch ELSE s.ref

(* pullSources: a bare pull, or one of a protected branch, is an update.   *)
PullsForeign(s) == s.ref \notin Protected \cup {None}

(* `gh pr merge', unless it asks for help, and a PUT on the merge endpoint *)
(* of the API; a GET asks whether it is merged.                            *)
MergesPr(s) ==
  \/ s.cmd = "gh pr merge" /\ s.flag # "help"
  \/ s.cmd = "gh api" /\ s.flag = "PUT"

(* What no branch excuses.                                                 *)
NeverAllowed(s) == s.flag \in {"no-verify", "force"} \/ MergesPr(s)

(* Faulty: `git pull origin main' on main is taken for a merge.            *)
RefusesUpdates(s, branch) ==
  \/ NeverAllowed(s)
  \/ s.cmd = "push" /\ PushesTo(s, branch) \in Protected
  \/ s.cmd \in {"commit", "edit"} /\ branch \in Protected
  \/ s.cmd \in {"merge", "rebase"} /\ branch \in Protected /\ ~Finishes(s)
  \/ s.cmd = "pull" /\ branch \in Protected /\ s.ref # None

(* The rules, given the branch a segment is judged on.                     *)
Refuses(s, branch) ==
  \/ NeverAllowed(s)
  \/ s.cmd = "push" /\ PushesTo(s, branch) \in Protected
  \/ s.cmd \in {"commit", "edit"} /\ branch \in Protected
  \/ s.cmd \in {"merge", "rebase"} /\ branch \in Protected /\ ~Finishes(s)
  \/ s.cmd = "pull" /\ branch \in Protected /\ PullsForeign(s)

(* What decideCommand carries from segment to segment: the anchor, the     *)
(* branch each directory was switched to and the branch it was seen on,    *)
(* and whether there is a subshell.  `would' and `overt' are ours: where   *)
(* HEAD would be, and whether the guard could know.                        *)
Fresh(heads, seen, subshell) ==
  [dir |-> Cwd, switched |-> [d \in Dirs |-> None], seen |-> seen, subshell |-> subshell,
   would |-> heads, overt |-> TRUE, refused |-> FALSE, cause |-> FALSE]

Anchor(g, s) == IF s.at = Here THEN g.dir ELSE s.at

(* branchAt: nothing is known of an unknown directory.                     *)
BranchAt(g, dir) ==
  IF dir = Unknown THEN None
  ELSE IF g.switched[dir] # None THEN g.switched[dir] ELSE g.seen[dir]

(* A switch was made under another name of the same checkout.              *)
Aliased(g, dir) ==
  \E d \in CheckoutOf(dir) : d # dir /\ g.switched[d] # None

(* Faulty: the directory is changed only by `-C'.                          *)
CdIgnored(g, s) == [g EXCEPT !.overt = @ /\ ~g.subshell /\ s.at # Unknown]

(* A `cd' moves the anchor, but not in a line with a subshell.             *)
Cd(g, s) ==
  [g EXCEPT !.dir = IF g.subshell THEN @ ELSE s.at,
            !.overt = @ /\ ~g.subshell /\ s.at # Unknown]

(* A switch is remembered for the directory it was given in; Unknown is    *)
(* the empty branch name, which no rule protects.                          *)
Carried(g, s, dir) ==
  IF s.cmd # "switch" \/ dir = Unknown THEN g
  ELSE [g EXCEPT !.switched[dir] = s.ref,
                 !.would = IF s.ref = Unknown THEN @ ELSE [@ EXCEPT ![CheckoutOf(dir)] = s.ref]]

(* What the judgement of a segment could not see.                          *)
Visible(g, s, dir) ==
  dir # Unknown /\ ~(s.cmd = "switch" /\ s.ref = Unknown) /\ ~Aliased(g, dir)

(* What git does to a protected branch when the segment runs on `branch'.  *)
Lands(s, branch) ==
  \/ s.cmd \in {"commit", "edit"} /\ branch \in Protected
  \/ s.cmd \in {"merge", "rebase"} /\ s.flag = None /\ branch \in Protected
  \/ s.cmd = "pull" /\ s.ref \in Branches \ Protected /\ branch \in Protected
  \/ s.cmd = "push" /\ (IF s.ref = None THEN branch ELSE s.ref) \in Protected
  \/ <<s.cmd, s.flag>> \in {<<"gh pr merge", None>>, <<"gh api", "PUT">>}

Judge(g, s) ==
  LET dir == Anchor(g, s) IN
  IF g.refused THEN g
  ELSE IF s.cmd = "cd" THEN Cd(g, s)
  ELSE LET t == [g EXCEPT !.overt = @ /\ Visible(g, s, dir)]
       IN IF Refuses(s, BranchAt(t, dir))
          THEN [t EXCEPT !.refused = TRUE,
                         !.cause = \/ s.flag \in {"no-verify", "force"}
                                   \/ dir # Unknown /\ Lands(s, t.would[CheckoutOf(dir)])]
          ELSE Carried(t, s, dir)

(* currentBranch, asked once for a directory: the empty name when git      *)
(* fails there or does not answer in time.                                 *)
CurrentBranch(unread) == [d \in Dirs |-> IF d \in unread THEN None ELSE head[CheckoutOf(d)]]

(* decideGit, `unread' the directories whose branch could not be read.     *)
Verdict(unread) ==
  LET g == FoldLeft(Judge, Fresh(head, CurrentBranch(unread), scoped), line)
  IN [g EXCEPT !.overt = @ /\ unread = {}]

(* verdictFor: git-guard is asked only when bash-guard has nothing to say. *)
VerdictFor(unread) ==
  IF bash = "clean" THEN Verdict(unread)
  ELSE [refused |-> bash = "deny" \/ blockAsk, overt |-> bash = "deny" \/ blockAsk,
        cause |-> TRUE]

-----------------------------------------------------------------------------
Faulty(n) == faults + n <= MaxFaults /\ faults' = faults + n

(* A line is composed, and tried for the first time.  What bash-guard says *)
(* of it, and what the plugin makes of an "ask", are choices made here.    *)
Compose ==
  /\ pc = "new"
  /\ \/ \E n \in 1 .. MaxLen : line' \in [1 .. n -> Segments]
     \/ line' \in [1 .. 1 -> Edits]
  /\ scoped' \in BOOLEAN /\ (scoped' => \E i \in DOMAIN line' : line'[i].cmd = "cd")
  /\ bash' \in {"clean", "ask", "deny"}
  /\ bash' # "clean" => Len(line') = 1 /\ line'[1].cmd # "edit"
  /\ blockAsk' \in BOOLEAN /\ (bash' # "ask" => blockAsk')
  /\ pc' = "asked" /\ attempts' = 1
  /\ UNCHANGED <<head, next, where, denials, told, faults, forgiven, overt, cause, landed>>

(* The call is let through.                                                *)
Pass(sight) ==
  /\ pc' = "running" /\ overt' = sight
  /\ UNCHANGED <<denials, told, cause>>

(* Faulty: the count is written back unchanged.                            *)
CountNotKept ==
  LET n    == denials.mine + 1
      full == denials.others + (IF denials.mine > 0 THEN 1 ELSE 0) > MaxKeys
  IN /\ told' = n
     /\ denials' = [mine |-> IF denials.mine = 0 THEN 1 ELSE denials.mine,
                    others |-> IF full THEN 0 ELSE denials.others]

(* countAttempt: the count is read, a map that is too large is cleared,    *)
(* and the count is written.                                               *)
CountAttempt ==
  LET n    == denials.mine + 1
      full == denials.others + (IF denials.mine > 0 THEN 1 ELSE 0) > MaxKeys
  IN /\ told' = n
     /\ denials' = [mine |-> n, others |-> IF full THEN 0 ELSE denials.others]

Refuse(sight, why) ==
  /\ pc' = "refused" /\ overt' = sight /\ cause' = why
  /\ CountAttempt

(* tool.execute.before up to the await.                                    *)
Decide ==
  /\ pc = "asked"
  /\ \E unread \in {{}} \cup {{d} : d \in Dirs} :
       /\ Faulty(Cardinality(unread)) /\ (unread # {} => bash = "clean")
       /\ LET v == VerdictFor(unread)
          IN IF v.refused THEN Refuse(v.overt, v.cause) ELSE Pass(v.overt)
  /\ next' = 1 /\ where' = Cwd
  /\ UNCHANGED <<head, line, scoped, bash, blockAsk, attempts, forgiven, landed>>

(* An exception in the hook lets the call through.                         *)
FailOpen ==
  /\ pc = "asked" /\ Faulty(1)
  /\ Pass(FALSE)
  /\ next' = 1 /\ where' = Cwd
  /\ UNCHANGED <<head, line, scoped, bash, blockAsk, attempts, forgiven, landed>>

(* The GuardDecision was posted, or timed out, and the refusal is thrown.  *)
Throw ==
  /\ pc = "refused" /\ pc' = "told"
  /\ UNCHANGED <<head, line, scoped, bash, blockAsk, next, where, attempts, denials, told,
                 faults, forgiven, overt, cause, landed>>

(* The agent tries the same line again.                                    *)
Retry ==
  /\ pc = "told" /\ attempts < MaxAttempts /\ Len(line) <= MaxRetried
  /\ pc' = "asked" /\ attempts' = attempts + 1
  /\ UNCHANGED <<head, line, scoped, bash, blockAsk, next, where, denials, told, faults,
                 forgiven, overt, cause, landed>>

(* Another line, of this session or another, is refused for the first time.*)
RefuseAnother ==
  LET full == denials.others + (IF denials.mine > 0 THEN 1 ELSE 0) > MaxKeys
  IN /\ pc \in {"refused", "told"} /\ Len(line) <= MaxRetried
     /\ denials' = [mine   |-> IF full THEN 0 ELSE denials.mine,
                    others |-> IF full THEN 1 ELSE denials.others + 1]
     /\ forgiven' = (forgiven \/ full)
     /\ UNCHANGED <<head, line, scoped, bash, blockAsk, pc, next, where, attempts, told, faults,
                    overt, cause, landed>>

-----------------------------------------------------------------------------
(* The line runs, segment by segment.                                      *)
Running == pc = "running" /\ next <= Len(line)
Current == line[next]
RunsIn == IF Current.at = Here THEN {where} ELSE IF Current.at = Unknown THEN Dirs ELSE {Current.at}
Goes == pc' = (IF next = Len(line) THEN "done" ELSE pc) /\ next' = next + 1

(* In a line with a subshell a directory holds up to a closing parenthesis.*)
RunCd ==
  /\ Running /\ Current.cmd = "cd" /\ Goes
  /\ where' \in RunsIn \cup (IF scoped THEN {where, Cwd} ELSE {})
  /\ UNCHANGED <<head, line, scoped, bash, blockAsk, attempts, denials, told, faults, forgiven,
                 overt, cause, landed>>

RunSwitch ==
  /\ Running /\ Current.cmd = "switch" /\ Goes
  /\ \E d \in RunsIn, b \in Branches :
       /\ Current.ref \in {b, Unknown}
       /\ head' = [head EXCEPT ![CheckoutOf(d)] = b]
  /\ UNCHANGED <<line, scoped, bash, blockAsk, where, attempts, denials, told, faults, forgiven,
                 overt, cause, landed>>

RunOther ==
  /\ Running /\ Current.cmd \notin {"cd", "switch"} /\ Goes
  /\ \E d \in RunsIn : landed' = (landed \/ Lands(Current, head[CheckoutOf(d)]))
  /\ UNCHANGED <<head, line, scoped, bash, blockAsk, where, attempts, denials, told, faults,
                 forgiven, overt, cause>>

(* A segment fails: after `&&' the line ends, after `;' it goes on in      *)
(* places the guard did not think of.                                      *)
SegmentFails ==
  /\ Running /\ Faulty(1)
  /\ \/ pc' = "done" /\ UNCHANGED <<next, overt>>
     \/ Goes /\ overt' = FALSE
  /\ UNCHANGED <<head, line, scoped, bash, blockAsk, where, attempts, denials, told, forgiven,
                 cause, landed>>

(* Someone else switches a branch under the verdict.                       *)
BranchMoves ==
  /\ pc = "running" /\ Faulty(1)
  /\ \E c \in Checkouts, b \in Branches : head' = [head EXCEPT ![c] = b] /\ head' # head
  /\ overt' = FALSE
  /\ UNCHANGED <<line, scoped, bash, blockAsk, pc, next, where, attempts, denials, told,
                 forgiven, cause, landed>>

Init ==
  /\ head \in [Checkouts -> Branches]
  /\ line = <<>> /\ scoped = FALSE /\ bash = "clean" /\ blockAsk = TRUE
  /\ pc = "new" /\ next = 1 /\ where = Cwd /\ attempts = 0
  /\ denials = [mine |-> 0, others |-> 0] /\ told = 0 /\ faults = 0
  /\ forgiven = FALSE /\ overt = TRUE /\ cause = FALSE /\ landed = FALSE

Next ==
  \/ Compose \/ Decide \/ FailOpen \/ Throw \/ Retry \/ RefuseAnother
  \/ RunCd \/ RunSwitch \/ RunOther \/ SegmentFails \/ BranchMoves

Spec == Init /\ [][Next]_vars

-----------------------------------------------------------------------------
(* Properties.                                                             *)

(* A line that was let through changes no protected branch -- unless it    *)
(* was out of the guard's sight: a directory or branch the text does not   *)
(* name, one checkout under two names, a subshell, a branch that could not *)
(* be read or moved meanwhile, a segment that failed where the next one    *)
(* ran all the same, a line bash-guard would only ask about, an exception. *)
NothingLandsInSight == landed => ~overt

(* No legitimate work is refused: within its sight, git-guard refuses a    *)
(* line only for a segment that would, with everything before it done,     *)
(* change a protected branch, or that no branch excuses.                   *)
RefusedForCause == pc = "refused" /\ overt => cause

(* The wording of a refusal never counts more refusals than there were,    *)
(* nor fewer unless another line's refusal cleared the map; and the map    *)
(* stays one key above its limit at most.                                  *)
RepeatsCounted ==
  /\ told <= attempts
  /\ pc = "refused" /\ ~forgiven => told = attempts
  /\ denials.others + (IF denials.mine > 0 THEN 1 ELSE 0) <= MaxKeys + 1
=============================================================================
