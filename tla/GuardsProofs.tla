------------------------------ MODULE GuardsProofs ------------------------------
(***************************************************************************)
(* Proofs about Guards, for any checkouts, branches and length of line.    *)
(***************************************************************************)
EXTENDS Guards, TLAPS

INSTANCE SequenceFolds WITH op <- Judge

-----------------------------------------------------------------------------
(***************************************************************************)
(* Counting refusals.  A line that is asked about has been refused once    *)
(* less than it was tried, as far as the map remembers.                    *)
(***************************************************************************)
Stages == {"new", "asked", "refused", "told", "running", "done"}
Keys(d) == d.others + (IF d.mine > 0 THEN 1 ELSE 0)

CountInv ==
  /\ attempts \in Nat /\ told \in Nat /\ denials \in [mine : Nat, others : Nat]
  /\ pc \in Stages
  /\ pc = "new" => attempts = 0 /\ denials.mine = 0 /\ told = 0
  /\ pc = "asked" => /\ denials.mine < attempts /\ told < attempts
                     /\ ~forgiven => denials.mine + 1 = attempts
  /\ pc \in {"refused", "told"} => /\ denials.mine <= attempts
                                   /\ ~forgiven => denials.mine = attempts /\ told = attempts
  /\ told <= attempts
  /\ Keys(denials) <= MaxKeys + 1

(* countAttempt.                                                           *)
LEMMA Counted ==
  ASSUME CountInv, CountAttempt
  PROVE  /\ told' = denials.mine + 1 /\ told' \in Nat
         /\ denials' \in [mine : Nat, others : Nat] /\ denials'.mine = told'
         /\ Keys(denials') <= MaxKeys + 1
<1>1. denials.mine \in Nat /\ denials.others \in Nat /\ MaxKeys \in Nat
  BY GuardsAssumption DEF CountInv
<1>2. /\ told' = denials.mine + 1
      /\ denials' = [mine |-> denials.mine + 1,
                     others |-> IF Keys(denials) > MaxKeys THEN 0 ELSE denials.others]
  BY DEF CountAttempt, Keys
<1>3. denials'.mine = denials.mine + 1
      /\ denials'.others = IF Keys(denials) > MaxKeys THEN 0 ELSE denials.others
  BY <1>2
<1>4. denials'.others + 1 <= MaxKeys + 1
  BY <1>1, <1>3 DEF Keys, CountInv
<1>5. Keys(denials') <= MaxKeys + 1
  BY <1>1, <1>3, <1>4 DEF Keys
<1>. QED  BY <1>1, <1>2, <1>3, <1>5

(* A call that is let through.                                             *)
LEMMA Passed ==
  ASSUME CountInv, pc = "asked", NEW sight, Pass(sight), UNCHANGED <<attempts, forgiven>>
  PROVE  CountInv'
  BY DEF Pass, CountInv, Stages, Keys

(* The counts are right whatever the verdicts are.                         *)
LEMMA CountStep == CountInv /\ [Next]_vars => CountInv'
<1>. SUFFICES ASSUME CountInv, [Next]_vars PROVE CountInv'
  OBVIOUS
<1>0. /\ attempts \in Nat /\ told \in Nat /\ denials \in [mine : Nat, others : Nat]
      /\ denials.mine \in Nat /\ denials.others \in Nat /\ MaxKeys \in Nat
  BY GuardsAssumption DEF CountInv
<1>1. CASE Compose
  BY <1>0, <1>1 DEF Compose, CountInv, Stages
<1>2. CASE Decide
  <2>1. pc = "asked" /\ UNCHANGED <<attempts, forgiven>>
    BY <1>2 DEF Decide
  <2>2. PICK sight, why : Refuse(sight, why) \/ Pass(sight)
    BY <1>2 DEF Decide
  <2>3. CASE Refuse(sight, why)
    <3>1. CountAttempt /\ pc' = "refused"
      BY <2>3 DEF Refuse
    <3>2. /\ told' = denials.mine + 1 /\ told' \in Nat
          /\ denials' \in [mine : Nat, others : Nat] /\ denials'.mine = told'
          /\ Keys(denials') <= MaxKeys + 1
      BY <3>1, Counted
    <3>3. denials.mine < attempts /\ (~forgiven => denials.mine + 1 = attempts)
      BY <2>1 DEF CountInv
    <3>. QED  BY <1>0, <2>1, <3>1, <3>2, <3>3 DEF CountInv, Stages
  <2>4. CASE Pass(sight)
    BY <2>1, <2>4, Passed
  <2>. QED  BY <2>2, <2>3, <2>4
<1>3. CASE FailOpen
  BY <1>3, Passed DEF FailOpen
<1>4. CASE Throw
  BY <1>4 DEF Throw, CountInv, Stages
<1>5. CASE Retry
  BY <1>0, <1>5 DEF Retry, CountInv, Stages
<1>6. CASE RefuseAnother
  <2>. DEFINE full == Keys(denials) > MaxKeys
  <2>1. /\ denials' = [mine   |-> IF full THEN 0 ELSE denials.mine,
                       others |-> IF full THEN 1 ELSE denials.others + 1]
        /\ (forgiven' <=> (forgiven \/ full))
        /\ pc \in {"refused", "told"} /\ UNCHANGED <<pc, attempts, told>>
    BY <1>6 DEF RefuseAnother, Keys
  <2>2. /\ denials'.mine = (IF full THEN 0 ELSE denials.mine)
        /\ denials'.others = (IF full THEN 1 ELSE denials.others + 1)
        /\ denials' \in [mine : Nat, others : Nat]
    BY <1>0, <2>1
  <2>3. Keys(denials') <= MaxKeys + 1
    BY <1>0, <2>2 DEF Keys
  <2>. HIDE DEF full
  <2>. QED  BY <1>0, <2>1, <2>2, <2>3 DEF CountInv
<1>7. CASE RunCd \/ RunSwitch \/ RunOther \/ SegmentFails
  BY <1>7 DEF RunCd, RunSwitch, RunOther, SegmentFails, Running, Goes, CountInv, Stages
<1>8. CASE BranchMoves \/ UNCHANGED vars
  BY <1>8 DEF BranchMoves, CountInv, vars
<1>. QED  BY <1>1, <1>2, <1>3, <1>4, <1>5, <1>6, <1>7, <1>8 DEF Next

(* A refusal says how often the line was refused, whatever else was        *)
(* refused meanwhile, and the map does not outgrow its limit.              *)
THEOREM RepeatsAlwaysCounted == Spec => []RepeatsCounted
<1>1. Init => CountInv
  BY GuardsAssumption DEF Init, CountInv, Stages, Keys
<1>2. CountInv => RepeatsCounted
  BY DEF CountInv, RepeatsCounted, Keys
<1>. QED  BY <1>1, <1>2, CountStep, PTL DEF Spec

-----------------------------------------------------------------------------
(***************************************************************************)
(* The judgement of a line.  As long as everything is in the guard's       *)
(* sight, it knows where the shell will be and on which branch every       *)
(* checkout: a checkout that was switched was switched under one name.     *)
(***************************************************************************)
Segs == Segments \cup Edits
Names == Branches \cup {Unknown, None}
Judgement ==
  [dir : Dirs \cup {Unknown}, switched : [Dirs -> Names], seen : [Dirs -> Names],
   subshell : BOOLEAN, would : [Checkouts -> Branches],
   overt : BOOLEAN, refused : BOOLEAN, cause : BOOLEAN]

Knows(g, d) ==
  /\ g.switched[d] # None => g.switched[d] = g.would[CheckoutOf(d)] /\ ~Aliased(g, d)
  /\ g.switched[d] = None /\ ~Aliased(g, d) => g.seen[d] = g.would[CheckoutOf(d)]

Sound(g) ==
  g.overt => /\ g.dir \in Dirs /\ \A d \in Dirs : Knows(g, d)
             /\ g.refused => g.cause

(* The checkout of a directory, which two names of it share.               *)
LEMMA CheckoutIs ==
  /\ \A d \in Dirs : CheckoutOf(d) \in Checkouts /\ d \in CheckoutOf(d)
  /\ \A d \in Dirs : \A e \in CheckoutOf(d) : e \in Dirs /\ CheckoutOf(e) = CheckoutOf(d)
<1>1. ASSUME NEW d \in Dirs PROVE CheckoutOf(d) \in Checkouts /\ d \in CheckoutOf(d)
  <2>1. \E c \in Checkouts : d \in c
    BY DEF Dirs
  <2>. QED  BY <2>1 DEF CheckoutOf
<1>2. ASSUME NEW d \in Dirs, NEW e \in CheckoutOf(d)
      PROVE  e \in Dirs /\ CheckoutOf(e) = CheckoutOf(d)
  <2>1. e \in Dirs
    BY <1>1, <1>2 DEF Dirs
  <2>. QED  BY <1>1, <1>2, <2>1, GuardsAssumption
<1>. QED  BY <1>1, <1>2

(* What a segment may say.                                                 *)
LEMMA SegmentSays ==
  ASSUME NEW s \in Segs
  PROVE  /\ s.at \in Dirs \cup {Here, Unknown} /\ s.ref \in Names
         /\ s.cmd = "cd" => s.at \in Dirs \cup {Unknown}
         /\ s.cmd = "switch" => s.ref \in Branches \cup {Unknown}
         /\ s.cmd \in {"pull", "push"} => s.ref \in Branches \cup {None}
         /\ s.cmd \in {"merge", "rebase"} => s.flag \in {None, "recover"}
         /\ s.cmd = "gh pr merge" => s.flag \in {None, "help"}
  BY GuardsAssumption DEF Segs, Segments, Edits, Segment, AnyDir, Names

(* The rules refuse what lands on a protected branch, and nothing else     *)
(* than that and what no branch excuses.                                   *)
LEMMA RulesAreExact ==
  ASSUME NEW s \in Segs, NEW branch \in Branches
  PROVE  /\ Lands(s, branch) => Refuses(s, branch)
         /\ Refuses(s, branch) => Lands(s, branch) \/ s.flag \in {"no-verify", "force"}
<1>1. s.cmd = "pull" => s.ref \in Branches \cup {None}
  BY SegmentSays
<1>2. s.cmd \in {"merge", "rebase"} => s.flag \in {None, "recover"}
  BY SegmentSays
<1>3. s.cmd = "gh pr merge" => s.flag \in {None, "help"}
  BY SegmentSays
<1>4. None \notin Branches /\ None \notin Protected /\ None \notin Flags
  BY GuardsAssumption
<1>5. /\ MergesPr(s) <=> <<s.cmd, s.flag>> \in {<<"gh pr merge", None>>, <<"gh api", "PUT">>}
      /\ s.cmd \in {"merge", "rebase"} => (~Finishes(s) <=> s.flag = None)
      /\ s.cmd = "pull" => (PullsForeign(s) <=> s.ref \in Branches \ Protected)
  BY <1>1, <1>2, <1>3, <1>4 DEF MergesPr, Finishes, PullsForeign, Flags
<1>. QED  BY <1>5 DEF Lands, Refuses, NeverAllowed, PushesTo

(* The branch of a directory in sight.                                     *)
LEMMA BranchKnown ==
  ASSUME NEW g \in Judgement, NEW d \in Dirs, Knows(g, d), ~Aliased(g, d)
  PROVE  BranchAt(g, d) = g.would[CheckoutOf(d)] /\ g.would[CheckoutOf(d)] \in Branches
<1>1. d # Unknown /\ CheckoutOf(d) \in Checkouts
  BY CheckoutIs, GuardsAssumption
<1>. QED  BY <1>1 DEF Knows, BranchAt, Judgement

(* The three things a judgement can come to.                               *)
Seen(g, s) == [g EXCEPT !.overt = @ /\ Visible(g, s, Anchor(g, s))]
Refused(g, s) ==
  [g EXCEPT !.refused = TRUE,
            !.cause = \/ s.flag \in {"no-verify", "force"}
                      \/ /\ Anchor(g, s) # Unknown
                         /\ Lands(s, g.would[CheckoutOf(Anchor(g, s))])]

LEMMA JudgeIs ==
  ASSUME NEW g \in Judgement, NEW s \in Segs, ~g.refused
  PROVE  Judge(g, s) = IF s.cmd = "cd" THEN Cd(g, s)
                       ELSE IF Refuses(s, BranchAt(Seen(g, s), Anchor(g, s))) THEN Refused(Seen(g, s), s)
                       ELSE Carried(Seen(g, s), s, Anchor(g, s))
<1>1. Anchor(Seen(g, s), s) = Anchor(g, s)
  BY DEF Seen, Anchor, Judgement
<1>. QED  BY <1>1 DEF Judge, Seen, Refused

LEMMA SeenIs ==
  ASSUME NEW g \in Judgement, NEW s \in Segs
  PROVE  /\ Seen(g, s) \in Judgement
         /\ Seen(g, s).overt <=> g.overt /\ Visible(g, s, Anchor(g, s))
         /\ Seen(g, s).dir = g.dir /\ Seen(g, s).switched = g.switched /\ Seen(g, s).seen = g.seen
         /\ Seen(g, s).would = g.would /\ Seen(g, s).refused = g.refused
         /\ Seen(g, s).cause = g.cause /\ Seen(g, s).subshell = g.subshell
         /\ Anchor(Seen(g, s), s) = Anchor(g, s) /\ Anchor(g, s) \in Dirs \cup {Unknown}
<1>1. Anchor(g, s) \in Dirs \cup {Unknown}
  BY SegmentSays DEF Anchor, Judgement
<1>2. PICK v \in BOOLEAN : v = (g.overt /\ Visible(g, s, Anchor(g, s)))
  OBVIOUS
<1>3. Seen(g, s) = [g EXCEPT !.overt = v]
  BY <1>2 DEF Seen
<1>4. v <=> g.overt /\ Visible(g, s, Anchor(g, s))
  BY <1>2
<1>5. /\ Seen(g, s) \in Judgement /\ Seen(g, s).overt = v
      /\ Seen(g, s).dir = g.dir /\ Seen(g, s).switched = g.switched /\ Seen(g, s).seen = g.seen
      /\ Seen(g, s).would = g.would /\ Seen(g, s).refused = g.refused
      /\ Seen(g, s).cause = g.cause /\ Seen(g, s).subshell = g.subshell
  BY <1>3 DEF Judgement
<1>6. Anchor(Seen(g, s), s) = Anchor(g, s)
  BY <1>5 DEF Anchor
<1>. QED  BY <1>1, <1>4, <1>5, <1>6

(* After a `cd' that is in sight, the guard is where the shell is.         *)
LEMMA CdIs ==
  ASSUME NEW g \in Judgement, NEW s \in Segs, s.cmd = "cd"
  PROVE  /\ Cd(g, s) \in Judgement
         /\ Cd(g, s).overt <=> g.overt /\ ~g.subshell /\ s.at # Unknown
         /\ Cd(g, s).dir = IF g.subshell THEN g.dir ELSE s.at
         /\ Cd(g, s).switched = g.switched /\ Cd(g, s).seen = g.seen
         /\ Cd(g, s).would = g.would /\ Cd(g, s).refused = g.refused /\ Cd(g, s).cause = g.cause
         /\ Cd(g, s).subshell = g.subshell
<1>1. s.at \in Dirs \cup {Unknown} /\ g.subshell \in BOOLEAN /\ g.dir \in Dirs \cup {Unknown}
  BY SegmentSays DEF Judgement
<1>2. PICK v \in BOOLEAN : v = (g.overt /\ ~g.subshell /\ s.at # Unknown)
  OBVIOUS
<1>3. PICK d \in Dirs \cup {Unknown} : d = IF g.subshell THEN g.dir ELSE s.at
  BY <1>1
<1>4. Cd(g, s) = [g EXCEPT !.dir = d, !.overt = v]
  BY <1>2, <1>3 DEF Cd
<1>5. v <=> g.overt /\ ~g.subshell /\ s.at # Unknown
  BY <1>2
<1>6. /\ Cd(g, s) \in Judgement /\ Cd(g, s).overt = v /\ Cd(g, s).dir = d
      /\ Cd(g, s).switched = g.switched /\ Cd(g, s).seen = g.seen
      /\ Cd(g, s).would = g.would /\ Cd(g, s).refused = g.refused /\ Cd(g, s).cause = g.cause
      /\ Cd(g, s).subshell = g.subshell
  BY <1>4 DEF Judgement
<1>. QED  BY <1>3, <1>5, <1>6

LEMMA RefusedIs ==
  ASSUME NEW g \in Judgement, NEW s \in Segs
  PROVE  /\ Refused(g, s) \in Judgement /\ Refused(g, s).refused
         /\ Refused(g, s).cause <=> \/ s.flag \in {"no-verify", "force"}
                                    \/ /\ Anchor(g, s) # Unknown
                                       /\ Lands(s, g.would[CheckoutOf(Anchor(g, s))])
         /\ Refused(g, s).overt = g.overt /\ Refused(g, s).dir = g.dir
         /\ Refused(g, s).switched = g.switched /\ Refused(g, s).seen = g.seen
         /\ Refused(g, s).would = g.would /\ Refused(g, s).subshell = g.subshell
<1>1. PICK v \in BOOLEAN : v = (\/ s.flag \in {"no-verify", "force"}
                                \/ /\ Anchor(g, s) # Unknown
                                   /\ Lands(s, g.would[CheckoutOf(Anchor(g, s))]))
  OBVIOUS
<1>2. Refused(g, s) = [g EXCEPT !.refused = TRUE, !.cause = v]
  BY <1>1 DEF Refused
<1>3. /\ Refused(g, s) \in Judgement /\ Refused(g, s).refused = TRUE /\ Refused(g, s).cause = v
      /\ Refused(g, s).overt = g.overt /\ Refused(g, s).dir = g.dir
      /\ Refused(g, s).switched = g.switched /\ Refused(g, s).seen = g.seen
      /\ Refused(g, s).would = g.would /\ Refused(g, s).subshell = g.subshell
  BY <1>2 DEF Judgement
<1>. QED  BY <1>1, <1>3

(* A switch that is in sight is remembered for its directory alone.        *)
LEMMA CarriedIs ==
  ASSUME NEW g \in Judgement, NEW s \in Segs, NEW d \in Dirs \cup {Unknown}
  PROVE  /\ Carried(g, s, d) \in Judgement
         /\ Carried(g, s, d).overt = g.overt /\ Carried(g, s, d).dir = g.dir
         /\ Carried(g, s, d).seen = g.seen /\ Carried(g, s, d).refused = g.refused
         /\ Carried(g, s, d).cause = g.cause /\ Carried(g, s, d).subshell = g.subshell
         /\ IF s.cmd # "switch" \/ d = Unknown
            THEN Carried(g, s, d).switched = g.switched /\ Carried(g, s, d).would = g.would
            ELSE /\ Carried(g, s, d).switched = [g.switched EXCEPT ![d] = s.ref]
                 /\ Carried(g, s, d).would = IF s.ref = Unknown THEN g.would
                                             ELSE [g.would EXCEPT ![CheckoutOf(d)] = s.ref]
<1>1. CASE s.cmd # "switch" \/ d = Unknown
  BY <1>1 DEF Carried
<1>2. CASE s.cmd = "switch" /\ d # Unknown
  <2>1. d \in Dirs /\ s.ref \in Branches \cup {Unknown} /\ CheckoutOf(d) \in Checkouts
    BY <1>2, SegmentSays, CheckoutIs
  <2>2. g.switched \in [Dirs -> Names] /\ g.would \in [Checkouts -> Branches]
    BY DEF Judgement
  <2>3. PICK w \in [Checkouts -> Branches] :
          w = IF s.ref = Unknown THEN g.would ELSE [g.would EXCEPT ![CheckoutOf(d)] = s.ref]
    BY <2>1, <2>2
  <2>4. PICK r \in [Dirs -> Names] : r = [g.switched EXCEPT ![d] = s.ref]
    BY <2>1, <2>2 DEF Names
  <2>5. Carried(g, s, d) = [g EXCEPT !.switched = r, !.would = w]
    BY <1>2, <2>3, <2>4 DEF Carried
  <2>6. /\ Carried(g, s, d) \in Judgement
        /\ Carried(g, s, d).overt = g.overt /\ Carried(g, s, d).dir = g.dir
        /\ Carried(g, s, d).seen = g.seen /\ Carried(g, s, d).refused = g.refused
        /\ Carried(g, s, d).cause = g.cause /\ Carried(g, s, d).subshell = g.subshell
        /\ Carried(g, s, d).switched = r /\ Carried(g, s, d).would = w
    BY <2>5 DEF Judgement
  <2>. QED  BY <1>2, <2>3, <2>4, <2>6
<1>. QED  BY <1>1, <1>2

(* A judgement stays what it is, and nothing comes back into sight or is   *)
(* allowed after all.                                                      *)
LEMMA JudgeType ==
  ASSUME NEW g \in Judgement, NEW s \in Segs
  PROVE  /\ Judge(g, s) \in Judgement
         /\ Judge(g, s).overt => g.overt
         /\ ~Judge(g, s).refused => ~g.refused
         /\ Judge(g, s).subshell = g.subshell
<1>1. CASE g.refused
  BY <1>1 DEF Judge
<1>2. CASE ~g.refused
  <2>. DEFINE t == Seen(g, s)
              d == Anchor(g, s)
  <2>1. /\ t \in Judgement /\ (t.overt => g.overt) /\ d \in Dirs \cup {Unknown}
        /\ t.refused = g.refused /\ t.subshell = g.subshell
    BY SeenIs
  <2>. HIDE DEF t, d
  <2>2. \/ Cd(g, s) \in Judgement /\ (Cd(g, s).overt => g.overt) /\ Cd(g, s).subshell = g.subshell
        \/ s.cmd # "cd"
    BY CdIs
  <2>3. Refused(t, s) \in Judgement /\ Refused(t, s).overt = t.overt /\ Refused(t, s).refused
        /\ Refused(t, s).subshell = t.subshell
    BY <2>1, RefusedIs
  <2>4. Carried(t, s, d) \in Judgement /\ Carried(t, s, d).overt = t.overt
        /\ Carried(t, s, d).subshell = t.subshell
    BY <2>1, CarriedIs, ZenonT(40)
  <2>. QED  BY <1>2, <2>1, <2>2, <2>3, <2>4, JudgeIs DEF t, d
<1>. QED  BY <1>1, <1>2

(* What is in sight after a segment was in sight before it, and the guard  *)
(* still knows.                                                            *)
LEMMA JudgeSound ==
  ASSUME NEW g \in Judgement, NEW s \in Segs, Sound(g)
  PROVE  Sound(Judge(g, s))
<1>. DEFINE t == Seen(g, s)
            d == Anchor(g, s)
<1>0. SUFFICES ASSUME Judge(g, s).overt, ~g.refused
               PROVE  Sound(Judge(g, s))
  BY DEF Judge, Sound
<1>1. g.overt /\ g.dir \in Dirs /\ \A e \in Dirs : Knows(g, e)
  BY <1>0, JudgeType DEF Sound
<1>2. CASE s.cmd = "cd"
  <2>1. Judge(g, s) = Cd(g, s)
    BY <1>0, <1>2, JudgeIs
  <2>2. /\ ~g.subshell /\ s.at # Unknown /\ Cd(g, s).dir = s.at
        /\ Cd(g, s).switched = g.switched /\ Cd(g, s).seen = g.seen
        /\ Cd(g, s).would = g.would /\ Cd(g, s).refused = g.refused
    BY <1>0, <1>2, <2>1, CdIs
  <2>3. s.at \in Dirs
    BY <1>2, <2>2, SegmentSays
  <2>4. \A e \in Dirs : Knows(Cd(g, s), e)
    BY <1>1, <2>2 DEF Knows, Aliased
  <2>. QED  BY <1>0, <2>1, <2>2, <2>3, <2>4 DEF Sound
<1>t. /\ t \in Judgement /\ (t.overt <=> g.overt /\ Visible(g, s, d)) /\ d \in Dirs \cup {Unknown}
      /\ t.dir = g.dir /\ t.switched = g.switched /\ t.seen = g.seen
      /\ t.would = g.would /\ t.refused = g.refused /\ Anchor(t, s) = d
  BY SeenIs
<1>. HIDE DEF t, d
<1>3. ASSUME t.overt
      PROVE  /\ d \in Dirs /\ ~Aliased(g, d) /\ (s.cmd = "switch" => s.ref \in Branches)
             /\ BranchAt(t, d) = g.would[CheckoutOf(d)] /\ g.would[CheckoutOf(d)] \in Branches
             /\ \A e \in Dirs : Knows(t, e)
  <2>1. d \in Dirs /\ ~Aliased(g, d) /\ (s.cmd = "switch" => s.ref \in Branches)
    BY <1>t, <1>3, SegmentSays DEF Visible
  <2>2. \A e \in Dirs : Knows(t, e)
    BY <1>1, <1>t DEF Knows, Aliased
  <2>3. ~Aliased(t, d)
    BY <1>t, <2>1 DEF Aliased
  <2>. QED  BY <1>t, <2>1, <2>2, <2>3, BranchKnown
<1>4. CASE s.cmd # "cd" /\ Refuses(s, BranchAt(t, d))
  <2>1. Judge(g, s) = Refused(t, s)
    BY <1>0, <1>4, JudgeIs DEF t, d
  <2>2. /\ Refused(t, s).overt = t.overt /\ Refused(t, s).dir = t.dir
        /\ Refused(t, s).switched = t.switched /\ Refused(t, s).seen = t.seen
        /\ Refused(t, s).would = t.would
        /\ Refused(t, s).cause <=> \/ s.flag \in {"no-verify", "force"}
                                   \/ d # Unknown /\ Lands(s, t.would[CheckoutOf(d)])
    BY <1>t, RefusedIs
  <2>3. t.overt
    BY <1>0, <2>1, <2>2
  <2>4. d # Unknown
    BY <1>3, <2>3, GuardsAssumption
  <2>5. s.flag \in {"no-verify", "force"} \/ Lands(s, g.would[CheckoutOf(d)])
    BY <1>3, <1>4, <2>3, RulesAreExact
  <2>6. \A e \in Dirs : Knows(Refused(t, s), e)
    BY <1>3, <2>2, <2>3 DEF Knows, Aliased
  <2>. QED  BY <1>1, <1>t, <2>1, <2>2, <2>4, <2>5, <2>6 DEF Sound
<1>5. CASE s.cmd # "cd" /\ ~Refuses(s, BranchAt(t, d))
  <2>. DEFINE c == Carried(t, s, d)
  <2>1. Judge(g, s) = c
    BY <1>0, <1>5, JudgeIs DEF t, d
  <2>2. /\ c.overt = t.overt /\ c.dir = t.dir /\ c.seen = t.seen /\ c.refused = t.refused
        /\ IF s.cmd # "switch" \/ d = Unknown
           THEN c.switched = t.switched /\ c.would = t.would
           ELSE /\ c.switched = [t.switched EXCEPT ![d] = s.ref]
                /\ c.would = IF s.ref = Unknown THEN t.would
                             ELSE [t.would EXCEPT ![CheckoutOf(d)] = s.ref]
    BY <1>t, CarriedIs
  <2>. HIDE DEF c
  <2>3. t.overt
    BY <1>0, <2>1, <2>2
  <2>4. CASE s.cmd # "switch"
    <3>1. \A e \in Dirs : Knows(c, e)
      BY <1>3, <2>2, <2>3, <2>4 DEF Knows, Aliased
    <3>. QED  BY <1>0, <1>1, <1>t, <2>1, <2>2, <3>1 DEF Sound
  <2>5. CASE s.cmd = "switch"
    <3>1. /\ d \in Dirs /\ s.ref \in Branches /\ d # Unknown /\ s.ref # Unknown /\ s.ref # None
          /\ ~Aliased(g, d)
      BY <1>3, <2>3, <2>5, GuardsAssumption
    <3>2. /\ c.switched = [t.switched EXCEPT ![d] = s.ref]
          /\ c.would = [t.would EXCEPT ![CheckoutOf(d)] = s.ref]
          /\ t.switched \in [Dirs -> Names] /\ t.would \in [Checkouts -> Branches]
      BY <1>t, <2>2, <2>5, <3>1 DEF Judgement
    <3>3. ASSUME NEW e \in Dirs PROVE Knows(c, e)
      <4>0. /\ Knows(t, e) /\ CheckoutOf(e) \in Checkouts /\ e \in CheckoutOf(e)
            /\ CheckoutOf(d) \in Checkouts /\ d \in CheckoutOf(d)
        BY <1>3, <2>3, <3>1, CheckoutIs
      <4>1. CASE CheckoutOf(e) # CheckoutOf(d)
        <5>1. \A f \in CheckoutOf(e) : f \in Dirs /\ f # d
          BY <3>1, <4>1, CheckoutIs
        <5>2. /\ c.would[CheckoutOf(e)] = t.would[CheckoutOf(e)]
              /\ \A f \in CheckoutOf(e) : c.switched[f] = t.switched[f]
          BY <3>2, <4>0, <4>1, <5>1
        <5>3. Aliased(c, e) <=> Aliased(t, e)
          BY <5>2 DEF Aliased
        <5>. QED  BY <2>2, <4>0, <5>2, <5>3 DEF Knows
      <4>2. CASE CheckoutOf(e) = CheckoutOf(d) /\ e = d
        <5>1. c.switched[d] = s.ref /\ c.would[CheckoutOf(d)] = s.ref
          BY <3>1, <3>2, <4>0
        <5>2. ~Aliased(c, d)
          <6>1. \A f \in CheckoutOf(d) : f # d => f \in Dirs /\ t.switched[f] = None
            BY <1>t, <3>1, CheckoutIs DEF Aliased
          <6>2. \A f \in CheckoutOf(d) : f # d => c.switched[f] = None
            BY <3>2, <6>1
          <6>. QED  BY <6>2 DEF Aliased
        <5>. QED  BY <3>1, <4>2, <5>1, <5>2 DEF Knows
      <4>3. CASE CheckoutOf(e) = CheckoutOf(d) /\ e # d
        <5>1. c.switched[e] = t.switched[e] /\ c.switched[d] = s.ref
          BY <3>1, <3>2, <4>3
        <5>2. t.switched[e] = None
          BY <1>t, <3>1, <4>0, <4>3 DEF Aliased
        <5>3. Aliased(c, e)
          BY <3>1, <4>0, <4>3, <5>1 DEF Aliased
        <5>. QED  BY <5>1, <5>2, <5>3 DEF Knows
      <4>. QED  BY <4>1, <4>2, <4>3
    <3>. QED  BY <1>0, <1>1, <1>t, <2>1, <2>2, <3>3 DEF Sound
  <2>. QED  BY <2>4, <2>5
<1>. QED  BY <1>2, <1>4, <1>5

(* What an allowed segment in sight does is what the guard thought.        *)
LEMMA JudgeAgrees ==
  ASSUME NEW g \in Judgement, NEW s \in Segs, Sound(g),
         Judge(g, s).overt, ~Judge(g, s).refused
  PROVE  /\ s.cmd = "cd" => /\ ~g.subshell /\ s.at \in Dirs /\ s.at # Here
                            /\ Judge(g, s).dir = s.at /\ Judge(g, s).would = g.would
         /\ s.cmd # "cd" => Anchor(g, s) \in Dirs /\ s.at # Unknown /\ Judge(g, s).dir = g.dir
         /\ s.cmd = "switch" => /\ s.ref \in Branches
                                /\ Judge(g, s).would = [g.would EXCEPT ![CheckoutOf(Anchor(g, s))] = s.ref]
         /\ s.cmd \notin {"cd", "switch"} =>
              ~Lands(s, g.would[CheckoutOf(Anchor(g, s))]) /\ Judge(g, s).would = g.would
<1>. DEFINE t == Seen(g, s)
            d == Anchor(g, s)
<1>0. ~g.refused /\ g.overt /\ g.dir \in Dirs /\ \A e \in Dirs : Knows(g, e)
  BY JudgeType DEF Sound
<1>1. CASE s.cmd = "cd"
  <2>1. Judge(g, s) = Cd(g, s)
    BY <1>0, <1>1, JudgeIs
  <2>2. ~g.subshell /\ s.at # Unknown /\ Cd(g, s).dir = s.at /\ Cd(g, s).would = g.would
    BY <1>1, <2>1, CdIs
  <2>3. s.at \in Dirs
    BY <1>1, <2>2, SegmentSays
  <2>. QED  BY <1>1, <2>1, <2>2, <2>3, GuardsAssumption
<1>2. CASE s.cmd # "cd"
  <2>t. /\ t \in Judgement /\ (t.overt <=> g.overt /\ Visible(g, s, d)) /\ d \in Dirs \cup {Unknown}
        /\ t.dir = g.dir /\ t.switched = g.switched /\ t.seen = g.seen
        /\ t.would = g.would /\ Anchor(t, s) = d
    BY SeenIs
  <2>a. s.at = Unknown => d = Unknown
    BY GuardsAssumption DEF Anchor
  <2>. HIDE DEF t, d
  <2>1. Judge(g, s) = Carried(t, s, d) /\ ~Refuses(s, BranchAt(t, d))
    <3>1. Refused(t, s).refused
      BY <2>t, RefusedIs
    <3>. QED  BY <1>0, <1>2, <3>1, JudgeIs DEF t, d
  <2>2. /\ Carried(t, s, d).overt = t.overt /\ Carried(t, s, d).dir = t.dir
        /\ IF s.cmd # "switch" \/ d = Unknown
           THEN Carried(t, s, d).would = t.would
           ELSE Carried(t, s, d).would = IF s.ref = Unknown THEN t.would
                                         ELSE [t.would EXCEPT ![CheckoutOf(d)] = s.ref]
    <3>. DEFINE c == Carried(t, s, d)
    <3>1. /\ c.overt = t.overt /\ c.dir = t.dir
          /\ IF s.cmd # "switch" \/ d = Unknown
             THEN c.switched = t.switched /\ c.would = t.would
             ELSE /\ c.switched = [t.switched EXCEPT ![d] = s.ref]
                  /\ c.would = IF s.ref = Unknown THEN t.would
                               ELSE [t.would EXCEPT ![CheckoutOf(d)] = s.ref]
      BY <2>t, CarriedIs
    <3>. QED  BY <3>1
  <2>3. d \in Dirs /\ d # Unknown /\ ~Aliased(g, d) /\ (s.cmd = "switch" => s.ref # Unknown)
    BY <2>t, <2>1, <2>2 DEF Visible
  <2>4. s.cmd = "switch" => s.ref \in Branches
    BY <2>3, SegmentSays
  <2>5. BranchAt(g, d) = g.would[CheckoutOf(d)] /\ g.would[CheckoutOf(d)] \in Branches
    BY <1>0, <2>3, BranchKnown
  <2>6. BranchAt(t, d) = BranchAt(g, d)
    BY <2>t DEF BranchAt
  <2>7. ~Lands(s, g.would[CheckoutOf(d)])
    BY <2>1, <2>5, <2>6, RulesAreExact
  <2>. QED  BY <1>2, <2>a, <2>t, <2>1, <2>2, <2>3, <2>4, <2>7 DEF d
<1>. QED  BY <1>1, <1>2

-----------------------------------------------------------------------------
(***************************************************************************)
(* The line and the shell.  When every branch could be read, the judgement *)
(* of a prefix of the line is where the shell is after it.                 *)
(***************************************************************************)
Base(heads, subshell) == Fresh(heads, [d \in Dirs |-> heads[CheckoutOf(d)]], subshell)

(* A judgement begins with what is the case.                               *)
LEMMA BaseSound ==
  ASSUME NEW heads \in [Checkouts -> Branches], NEW subshell \in BOOLEAN
  PROVE  /\ Base(heads, subshell) \in Judgement /\ Sound(Base(heads, subshell))
         /\ Base(heads, subshell).would = heads /\ Base(heads, subshell).dir = Cwd
         /\ Base(heads, subshell).subshell = subshell
<1>. DEFINE b == Base(heads, subshell)
<1>1. [d \in Dirs |-> heads[CheckoutOf(d)]] \in [Dirs -> Names]
  BY CheckoutIs DEF Names
<1>2. [d \in Dirs |-> None] \in [Dirs -> Names]
  BY DEF Names
<1>3. b \in Judgement
  BY <1>1, <1>2, GuardsAssumption DEF Judgement, Base, Fresh
<1>4. /\ b.dir = Cwd /\ b.switched = [d \in Dirs |-> None] /\ b.would = heads /\ b.refused = FALSE
      /\ b.seen = [d \in Dirs |-> heads[CheckoutOf(d)]] /\ b.subshell = subshell
  BY DEF Base, Fresh
<1>. HIDE DEF b
<1>5. \A d \in Dirs : Knows(b, d)
  BY <1>4 DEF Knows
<1>. QED  BY <1>3, <1>4, <1>5, GuardsAssumption DEF Sound, b

(* A judgement of a line of any length is sound.                           *)
LEMMA LineSound ==
  ASSUME NEW b \in Judgement, Sound(b), NEW l \in Seq(Segs)
  PROVE  /\ Value(b, l) \in Judgement /\ Sound(Value(b, l))
         /\ Value(b, l).subshell = b.subshell
<1>. DEFINE V == {g \in Judgement : Sound(g) /\ g.subshell = b.subshell}
<1>1. \A g \in V, s \in Segs : Judge(g, s) \in V
  BY JudgeType, JudgeSound
<1>2. b \in V
  OBVIOUS
<1>. HIDE DEF V
<1>3. Value(b, l) \in V
  BY <1>1, <1>2, ValueType
<1>. QED  BY <1>3 DEF V

(* One segment more.                                                       *)
LEMMA PrefixStep ==
  ASSUME NEW b, NEW l \in Seq(Segs), NEW n \in 1 .. Len(l)
  PROVE  /\ SubSeq(l, 1, n - 1) \in Seq(Segs) /\ l[n] \in Segs
         /\ Value(b, SubSeq(l, 1, n)) = Judge(Value(b, SubSeq(l, 1, n - 1)), l[n])
<1>. DEFINE front == SubSeq(l, 1, n - 1)
            s == l[n]
<1>1. front \in Seq(Segs) /\ s \in Segs /\ SubSeq(l, 1, n) = Append(front, s)
  OBVIOUS
<1>. HIDE DEF front, s
<1>2. Value(b, Append(front, s)) = Judge(Value(b, front), s)
  BY <1>1, ValueAppend
<1>. QED  BY <1>1, <1>2 DEF front, s

(* What a line is allowed to do in sight, it was at every segment.         *)
LEMMA PrefixInSight ==
  ASSUME NEW b \in Judgement, Sound(b), NEW l \in Seq(Segs),
         Value(b, l).overt, ~Value(b, l).refused, NEW n \in 0 .. Len(l)
  PROVE  Value(b, SubSeq(l, 1, n)).overt /\ ~Value(b, SubSeq(l, 1, n)).refused
<1>. DEFINE P(k) == Value(b, SubSeq(l, 1, k)).overt /\ ~Value(b, SubSeq(l, 1, k)).refused
            T == {k \in Nat : k <= Len(l) => P(Len(l) - k)}
<1>1. 0 \in T
  <2>1. SubSeq(l, 1, Len(l) - 0) = l
    OBVIOUS
  <2>. QED  BY <2>1
<1>2. ASSUME NEW k \in T, k + 1 <= Len(l) PROVE P(Len(l) - (k + 1))
  <2>. DEFINE m == Len(l) - k
  <2>1. m \in 1 .. Len(l) /\ m - 1 = Len(l) - (k + 1) /\ P(m)
    BY <1>2
  <2>. HIDE DEF m
  <2>. DEFINE g == Value(b, SubSeq(l, 1, m - 1))
              j == Judge(g, l[m])
  <2>2. /\ SubSeq(l, 1, m - 1) \in Seq(Segs) /\ l[m] \in Segs
        /\ Value(b, SubSeq(l, 1, m)) = j
    BY <2>1, PrefixStep
  <2>3. g \in Judgement
    BY <2>2, LineSound
  <2>4. j.overt /\ ~j.refused
    <3>. HIDE DEF j
    <3>. QED  BY <2>1, <2>2
  <2>. HIDE DEF g
  <2>5. g.overt /\ ~g.refused
    BY <2>2, <2>3, <2>4, JudgeType
  <2>. QED  BY <2>1, <2>5 DEF g
<1>3. \A k \in T \cap Nat : k + 1 \in T
  BY <1>2
<1>. HIDE DEF T
<1>4. Len(l) - n \in T
  BY <1>1, <1>3, Induction
<1>5. Len(l) - n \in Nat /\ Len(l) - n <= Len(l) /\ Len(l) - (Len(l) - n) = n
  OBVIOUS
<1>6. P(Len(l) - (Len(l) - n))
  BY <1>4, <1>5 DEF T
<1>. QED  BY <1>5, <1>6

(* The shell is before segment n, and things are as the guard thought when *)
(* it began with `heads'.                                                  *)
Follows(heads, l, subshell, n, now, dir) ==
  LET b == Base(heads, subshell)
      g == Value(b, SubSeq(l, 1, n - 1))
  IN /\ n <= Len(l) + 1 /\ Value(b, l).overt /\ ~Value(b, l).refused
     /\ g.would = now /\ g.dir = dir

LEMMA NextFollows ==
  ASSUME NEW heads \in [Checkouts -> Branches], NEW l \in Seq(Segs), NEW subshell \in BOOLEAN,
         NEW n \in 1 .. Len(l), NEW now, NEW dir, Follows(heads, l, subshell, n, now, dir)
  PROVE  \E g \in Judgement :
           /\ Sound(g) /\ g.would = now /\ g.dir = dir /\ g.subshell = subshell
           /\ l[n] \in Segs /\ Judge(g, l[n]).overt /\ ~Judge(g, l[n]).refused
           /\ Follows(heads, l, subshell, n + 1, Judge(g, l[n]).would, Judge(g, l[n]).dir)
<1>. DEFINE b == Base(heads, subshell)
            g == Value(b, SubSeq(l, 1, n - 1))
<1>1. b \in Judgement /\ Sound(b) /\ b.subshell = subshell
  BY BaseSound
<1>. HIDE DEF b
<1>2. /\ SubSeq(l, 1, n - 1) \in Seq(Segs) /\ l[n] \in Segs
      /\ Value(b, SubSeq(l, 1, n)) = Judge(g, l[n])
  BY PrefixStep
<1>3. g \in Judgement /\ Sound(g) /\ g.subshell = subshell
  BY <1>1, <1>2, LineSound
<1>4. Value(b, l).overt /\ ~Value(b, l).refused /\ g.would = now /\ g.dir = dir
  BY DEF Follows, b
<1>5. Value(b, SubSeq(l, 1, n)).overt /\ ~Value(b, SubSeq(l, 1, n)).refused
  BY <1>1, <1>4, PrefixInSight
<1>6. n + 1 <= Len(l) + 1 /\ (n + 1) - 1 = n
  OBVIOUS
<1>. HIDE DEF g
<1>7. Follows(heads, l, subshell, n + 1, Judge(g, l[n]).would, Judge(g, l[n]).dir)
  BY <1>2, <1>4, <1>6 DEF Follows, b
<1>. QED  BY <1>2, <1>3, <1>4, <1>5, <1>7

-----------------------------------------------------------------------------
(***************************************************************************)
(* The invariant: a line that runs in sight runs as the guard judged it,   *)
(* from some branches the checkouts were on.                               *)
(***************************************************************************)
Typed ==
  /\ head \in [Checkouts -> Branches] /\ line \in Seq(Segs) /\ scoped \in BOOLEAN
  /\ bash \in {"clean", "ask", "deny"} /\ next \in Nat \ {0} /\ where \in Dirs

SightInv ==
  /\ Typed
  /\ landed => pc \in {"running", "done"} /\ ~overt
  /\ pc = "running" /\ overt =>
       \E heads \in [Checkouts -> Branches] : Follows(heads, line, scoped, next, head, where)
  /\ pc = "refused" /\ overt => cause

(* What the guards say in sight of everything.                             *)
LEMMA VerdictIs ==
  ASSUME Typed, NEW unread, VerdictFor(unread).overt
  PROVE  /\ VerdictFor(unread).refused => VerdictFor(unread).cause
         /\ ~VerdictFor(unread).refused => Follows(head, line, scoped, 1, head, Cwd)
<1>1. CASE bash # "clean"
  BY <1>1 DEF VerdictFor
<1>2. CASE bash = "clean"
  <2>. DEFINE b == Fresh(head, CurrentBranch(unread), scoped)
              g == Value(b, line)
  <2>1. VerdictFor(unread) = [g EXCEPT !.overt = @ /\ unread = {}]
    BY <1>2 DEF VerdictFor, Verdict, Value
  <2>2. b \in Judgement
    <3>1. CurrentBranch(unread) \in [Dirs -> Names]
      BY CheckoutIs DEF CurrentBranch, Typed, Names
    <3>2. [d \in Dirs |-> None] \in [Dirs -> Names]
      BY DEF Names
    <3>. QED  BY <3>1, <3>2, GuardsAssumption DEF Judgement, Fresh, Typed
  <2>3. line \in Seq(Segs) /\ head \in [Checkouts -> Branches] /\ scoped \in BOOLEAN
    BY DEF Typed
  <2>. HIDE DEF b
  <2>4. g \in Judgement
    <3>. DEFINE V == Judgement
    <3>1. b \in V /\ \A v \in V, s \in Segs : Judge(v, s) \in V
      BY <2>2, JudgeType
    <3>. HIDE DEF V
    <3>2. Value(b, line) \in V
      BY <2>3, <3>1, ValueType
    <3>. QED  BY <3>2 DEF V
  <2>. HIDE DEF g
  <2>5. PICK v \in BOOLEAN : v = (g.overt /\ unread = {})
    OBVIOUS
  <2>6. VerdictFor(unread) = [g EXCEPT !.overt = v]
    BY <2>1, <2>5
  <2>7. /\ VerdictFor(unread).overt = v /\ VerdictFor(unread).refused = g.refused
        /\ VerdictFor(unread).cause = g.cause
    BY <2>4, <2>6 DEF Judgement
  <2>8. g.overt /\ unread = {}
    BY <2>5, <2>7
  <2>9. b = Base(head, scoped)
    BY <2>8 DEF b, Base, CurrentBranch
  <2>10. Sound(b) /\ b.would = head /\ b.dir = Cwd
    BY <2>3, <2>9, BaseSound
  <2>11. Sound(g)
    BY <2>2, <2>3, <2>10, LineSound DEF g
  <2>12. ASSUME ~g.refused PROVE Follows(head, line, scoped, 1, head, Cwd)
    <3>1. SubSeq(line, 1, 1 - 1) = << >> /\ 1 <= Len(line) + 1
      BY <2>3
    <3>2. Value(b, SubSeq(line, 1, 1 - 1)) = b
      BY <3>1, ValueEmpty
    <3>. QED  BY <2>8, <2>9, <2>10, <2>12, <3>1, <3>2 DEF Follows, g
  <2>. QED  BY <2>7, <2>8, <2>11, <2>12 DEF Sound
<1>. QED  BY <1>1, <1>2

(* What a running line does, in sight, is what it was judged to do.        *)
LEMMA RunningStep ==
  ASSUME SightInv, RunCd \/ RunSwitch \/ RunOther
  PROVE  SightInv'
<1>. DEFINE s == line[next]
<1>1. /\ pc = "running" /\ next \in 1 .. Len(line) /\ next' = next + 1
      /\ UNCHANGED <<line, scoped, bash, overt, cause>> /\ s \in Segs
      /\ pc' = IF next = Len(line) THEN "done" ELSE pc
  BY DEF RunCd, RunSwitch, RunOther, Running, Goes, SightInv, Typed
<1>. HIDE DEF s
<1>2. s.at \in Dirs \cup {Here, Unknown} /\ (s.cmd = "cd" => s.at \in Dirs \cup {Unknown})
  BY <1>1, SegmentSays
<1>3. RunsIn \subseteq Dirs
  BY <1>2 DEF RunsIn, Current, s, SightInv, Typed
<1>4. Typed'
  <2>1. CASE RunCd
    BY <1>1, <1>3, <2>1, GuardsAssumption DEF RunCd, SightInv, Typed
  <2>2. CASE RunSwitch
    <3>1. PICK d \in RunsIn, b \in Branches : head' = [head EXCEPT ![CheckoutOf(d)] = b]
      BY <2>2 DEF RunSwitch
    <3>2. CheckoutOf(d) \in Checkouts
      BY <1>3, CheckoutIs
    <3>3. head' \in [Checkouts -> Branches] /\ where' = where
      BY <2>2, <3>1, <3>2 DEF RunSwitch, SightInv, Typed
    <3>. QED  BY <1>1, <3>3 DEF SightInv, Typed
  <2>3. CASE RunOther
    BY <1>1, <2>3 DEF RunOther, SightInv, Typed
  <2>. QED  BY <2>1, <2>2, <2>3
<1>5. CASE ~overt
  <2>1. landed' => pc' \in {"running", "done"} /\ ~overt'
    BY <1>1, <1>5
  <2>. QED  BY <1>1, <1>4, <1>5, <2>1 DEF SightInv
<1>6. CASE overt
  <2>1. PICK heads \in [Checkouts -> Branches] : Follows(heads, line, scoped, next, head, where)
    BY <1>1, <1>6 DEF SightInv
  <2>2. line \in Seq(Segs) /\ scoped \in BOOLEAN
    BY DEF SightInv, Typed
  <2>3. PICK g \in Judgement :
           /\ Sound(g) /\ g.would = head /\ g.dir = where /\ g.subshell = scoped
           /\ Judge(g, s).overt /\ ~Judge(g, s).refused
           /\ Follows(heads, line, scoped, next + 1, Judge(g, s).would, Judge(g, s).dir)
    BY <1>1, <2>1, <2>2, NextFollows DEF s
  <2>4. /\ s.cmd = "cd" => /\ ~g.subshell /\ s.at \in Dirs /\ s.at # Here
                           /\ Judge(g, s).dir = s.at /\ Judge(g, s).would = g.would
        /\ s.cmd # "cd" => Anchor(g, s) \in Dirs /\ s.at # Unknown /\ Judge(g, s).dir = g.dir
        /\ s.cmd = "switch" => /\ s.ref \in Branches
                               /\ Judge(g, s).would = [g.would EXCEPT ![CheckoutOf(Anchor(g, s))] = s.ref]
        /\ s.cmd \notin {"cd", "switch"} =>
             ~Lands(s, g.would[CheckoutOf(Anchor(g, s))]) /\ Judge(g, s).would = g.would
    BY <1>1, <2>3, JudgeAgrees
  <2>5. \A d \in RunsIn : s.at # Unknown => d = Anchor(g, s)
    BY <2>3 DEF RunsIn, Current, Anchor, s
  <2>6. ~landed
    BY <1>6 DEF SightInv
  <2>7. ASSUME UNCHANGED landed, Judge(g, s).would = head', Judge(g, s).dir = where'
        PROVE  SightInv'
    BY <1>1, <1>4, <2>3, <2>6, <2>7 DEF SightInv
  <2>8. CASE RunCd
    <3>1. s.cmd = "cd" /\ where' \in RunsIn \cup (IF scoped THEN {where, Cwd} ELSE {})
          /\ UNCHANGED <<head, landed>>
      BY <2>8 DEF RunCd, Current, s
    <3>2. s.at # Unknown /\ ~scoped /\ Anchor(g, s) = s.at
      BY <2>3, <2>4, <3>1, GuardsAssumption DEF Anchor
    <3>. QED  BY <2>3, <2>4, <2>5, <2>7, <3>1, <3>2
  <2>9. CASE RunSwitch
    <3>1. PICK d \in RunsIn, b \in Branches :
            s.ref \in {b, Unknown} /\ head' = [head EXCEPT ![CheckoutOf(d)] = b]
      BY <2>9 DEF RunSwitch, Current, s
    <3>2. s.cmd = "switch" /\ UNCHANGED <<where, landed>>
      BY <2>9 DEF RunSwitch, Current, s
    <3>3. d = Anchor(g, s) /\ b = s.ref
      BY <2>4, <2>5, <3>1, <3>2, GuardsAssumption
    <3>. QED  BY <2>3, <2>4, <2>7, <3>1, <3>2, <3>3
  <2>10. CASE RunOther
    <3>1. PICK d \in RunsIn : landed' = (landed \/ Lands(s, head[CheckoutOf(d)]))
      BY <2>10 DEF RunOther, Current, s
    <3>2. s.cmd \notin {"cd", "switch"} /\ UNCHANGED <<head, where>>
      BY <2>10 DEF RunOther, Current, s
    <3>3. d = Anchor(g, s)
      BY <2>4, <2>5, <3>2
    <3>4. ~landed'
      BY <2>3, <2>4, <2>6, <3>1, <3>2, <3>3
    <3>. QED  BY <1>1, <1>4, <2>3, <2>4, <3>2, <3>4 DEF SightInv
  <2>. QED  BY <2>8, <2>9, <2>10
<1>. QED  BY <1>5, <1>6

LEMMA SightStep == SightInv /\ [Next]_vars => SightInv'
<1>. SUFFICES ASSUME SightInv, [Next]_vars PROVE SightInv'
  OBVIOUS
<1>1. CASE Compose
  <2>0. PICK n \in Nat : line' \in [1 .. n -> Segments] \/ line' \in [1 .. n -> Edits]
    <3>1. \A n \in 1 .. MaxLen : n \in Nat
      BY GuardsAssumption
    <3>2. (\E n \in 1 .. MaxLen : line' \in [1 .. n -> Segments]) \/ line' \in [1 .. 1 -> Edits]
      BY <1>1 DEF Compose
    <3>3. 1 \in Nat
      OBVIOUS
    <3>. QED  BY <3>1, <3>2, <3>3, Zenon
  <2>1. line' \in Seq(Segs)
    <3>1. line' \in [1 .. n -> Segs]
      <4>. HIDE DEF Segs
      <4>1. Segments \subseteq Segs /\ Edits \subseteq Segs
        BY DEF Segs
      <4>. QED  BY <2>0, <4>1
    <3>. HIDE DEF Segs
    <3>. QED  BY <3>1
  <2>. QED  BY <1>1, <2>1 DEF Compose, SightInv, Typed
<1>2. CASE Decide
  <2>1. PICK unread : LET v == VerdictFor(unread)
                      IN IF v.refused THEN Refuse(v.overt, v.cause) ELSE Pass(v.overt)
    BY <1>2 DEF Decide
  <2>2. /\ UNCHANGED <<head, line, scoped, bash, landed>> /\ next' = 1 /\ where' = Cwd /\ pc = "asked"
    BY <1>2 DEF Decide
  <2>3. Typed' /\ ~landed'
    BY <2>2, GuardsAssumption DEF SightInv, Typed
  <2>4. CASE VerdictFor(unread).refused
    <3>1. pc' = "refused" /\ overt' = VerdictFor(unread).overt /\ cause' = VerdictFor(unread).cause
      BY <2>1, <2>4 DEF Refuse
    <3>. QED  BY <2>3, <2>4, <3>1, VerdictIs DEF SightInv
  <2>5. CASE ~VerdictFor(unread).refused
    <3>1. pc' = "running" /\ overt' = VerdictFor(unread).overt
      BY <2>1, <2>5 DEF Pass
    <3>2. overt' => Follows(head, line, scoped, 1, head, Cwd)
      BY <2>5, <3>1, VerdictIs DEF SightInv
    <3>3. overt' => \E heads \in [Checkouts -> Branches] :
                      Follows(heads, line', scoped', next', head', where')
      BY <2>2, <3>2 DEF SightInv, Typed
    <3>. QED  BY <2>3, <3>1, <3>3 DEF SightInv
  <2>. QED  BY <2>4, <2>5
<1>3. CASE FailOpen
  BY <1>3, GuardsAssumption DEF FailOpen, Pass, SightInv, Typed
<1>4. CASE Throw
  BY <1>4 DEF Throw, SightInv, Typed
<1>5. CASE Retry
  BY <1>5 DEF Retry, SightInv, Typed
<1>6. CASE RefuseAnother
  BY <1>6 DEF RefuseAnother, SightInv, Typed
<1>7. CASE RunCd \/ RunSwitch \/ RunOther
  BY <1>7, RunningStep
<1>8. CASE SegmentFails
  BY <1>8 DEF SegmentFails, Running, Goes, SightInv, Typed
<1>9. CASE BranchMoves
  <2>1. head' \in [Checkouts -> Branches]
    BY <1>9 DEF BranchMoves, SightInv, Typed
  <2>. QED  BY <1>9, <2>1 DEF BranchMoves, SightInv, Typed
<1>10. CASE UNCHANGED vars
  BY <1>10 DEF vars, SightInv, Typed
<1>. QED  BY <1>1, <1>2, <1>3, <1>4, <1>5, <1>6, <1>7, <1>8, <1>9, <1>10 DEF Next

LEMMA SightAlways == Spec => []SightInv
<1>1. Init => SightInv
  <2>. SUFFICES ASSUME Init PROVE SightInv
    OBVIOUS
  <2>1. << >> \in Seq(Segs) /\ 1 \in Nat \ {0} /\ Cwd \in Dirs
    BY GuardsAssumption
  <2>2. Typed
    BY <2>1 DEF Init, Typed
  <2>. QED  BY <2>2 DEF Init, SightInv
<1>. QED  BY <1>1, SightStep, PTL DEF Spec

(* However long the line, whatever it is made of: nothing that was in the  *)
(* guard's sight lands on a protected branch.                              *)
THEOREM NothingEverLandsInSight == Spec => []NothingLandsInSight
<1>1. SightInv => NothingLandsInSight
  BY DEF SightInv, NothingLandsInSight
<1>. QED  BY <1>1, SightAlways, PTL

(* And nothing in its sight is refused that would not have.                *)
THEOREM AlwaysRefusedForCause == Spec => []RefusedForCause
<1>1. SightInv => RefusedForCause
  BY DEF SightInv, RefusedForCause
<1>. QED  BY <1>1, SightAlways, PTL
=============================================================================
