--------------------------- MODULE LifecycleProofs ---------------------------
(***************************************************************************)
(* Proofs about Lifecycle, for any number of processes and events, and     *)
(* about Backfill, for any number of messages, calls and imports.          *)
(***************************************************************************)
EXTENDS Lifecycle, Backfill, FiniteSetTheorems, TLAPS

(* No step takes a variable out of its type.                               *)
LEMMA TypeStep == TypeOK /\ [Next]_vars => TypeOK'
<1>. SUFFICES ASSUME TypeOK, [Next]_vars PROVE TypeOK'
  OBVIOUS
<1>. USE DEF TypeOK, Stage, Row
<1>f. ASSUME NEW p \in Procs, FlushQueue(p)
      PROVE  /\ events' \subseteq Row /\ ignored' \subseteq Row
             /\ q' \in [Procs -> SUBSET Row]
  BY <1>f DEF FlushQueue
<1>x. ASSUME NEW p \in Procs, Exit(p)
      PROVE  pc' \in [Procs -> Stage] /\ socket' \in Procs \cup {NoProc}
  BY <1>x DEF Exit, Goto
<1>1. ASSUME NEW p \in Procs, Start(p) PROVE TypeOK'
  BY <1>1 DEF Start, Goto
<1>2. ASSUME NEW p \in Procs, Seed(p) PROVE TypeOK'
  <2>1. PICK s \in Nat : SEQ' = [SEQ EXCEPT ![p] = s]
    BY <1>2 DEF Seed
  <2>. QED  BY <1>2, <2>1 DEF Seed, Goto
<1>3. ASSUME NEW p \in Procs, Listen(p) PROVE TypeOK'
  BY <1>3 DEF Listen, Goto
<1>4. ASSUME NEW p \in Procs, AddressInUse(p) PROVE TypeOK'
  BY <1>4 DEF AddressInUse, Goto
<1>5. ASSUME NEW p \in Procs, Probed(p) PROVE TypeOK'
  BY <1>5, <1>x DEF Probed
<1>6. ASSUME NEW p \in Procs, Connect(p) PROVE TypeOK'
  BY <1>6 DEF Connect
<1>7. ASSUME NEW p \in Procs, Disconnect(p) PROVE TypeOK'
  BY <1>7 DEF Disconnect
<1>8. ASSUME NEW p \in Procs, Receive(p) PROVE TypeOK'
  BY <1>8 DEF Receive
<1>9. ASSUME NEW p \in Procs, Flush(p) PROVE TypeOK'
  BY <1>9, <1>f DEF Flush
<1>10. ASSUME NEW p \in Procs, Signal(p) PROVE TypeOK'
  BY <1>10 DEF Signal, Goto
<1>11. ASSUME NEW p \in Procs, Closed(p) PROVE TypeOK'
  BY <1>11, <1>f, <1>x DEF Closed
<1>12. ASSUME NEW p \in Procs, ForceExit(p) PROVE TypeOK'
  BY <1>12, <1>x DEF ForceExit
<1>13. ASSUME NEW p \in Procs, Kill(p) PROVE TypeOK'
  BY <1>13, <1>x DEF Kill
<1>14. CASE BackfillChecks
  BY <1>14 DEF BackfillChecks
<1>15. CASE BackfillReads
  BY <1>15 DEF BackfillReads
<1>16. CASE BackfillWrites
  BY <1>16 DEF BackfillWrites
<1>17. CASE UNCHANGED vars
  BY <1>17 DEF vars
<1>. QED
  BY <1>1, <1>2, <1>3, <1>4, <1>5, <1>6, <1>7, <1>8, <1>9, <1>10, <1>11, <1>12, <1>13,
     <1>14, <1>15, <1>16, <1>17 DEF Next

(* The variables keep their types.                                         *)
THEOREM LifecycleTypes == Spec => []TypeOK
<1>1. Init => TypeOK
  BY DEF Init, TypeOK, Stage
<1>. QED  BY <1>1, TypeStep, PTL DEF Spec

-----------------------------------------------------------------------------
(* What holds of a process by its stage alone.                             *)
StageInv ==
  \A p \in Procs :
    /\ p \in served => pc[p] \in {"listening", "closing", "gone"}
    /\ p \notin served => q[p] = {} /\ pc[p] # "listening"

(* As long as nobody with an outdated seed has served, one process at most *)
(* serves; its SEQ is above every row, the rows it has queued are free;    *)
(* and a process about to listen has a seed as good.                       *)
SoleWriter ==
  /\ ignored = {}
  /\ \A p, r \in Procs : Serving(p) /\ Serving(r) => p = r
  /\ \A p \in Procs : Serving(p) =>
       /\ \A s \in events : s.seq <= SEQ[p]
       /\ \A r \in q[p] : r.seq <= SEQ[p] /\ ~Taken(r)
  /\ \A p \in Procs : pc[p] = "seeded" /\ p \notin outdated =>
       /\ \A r \in Procs : ~Serving(r)
       /\ \A s \in events : s.seq <= SEQ[p]

LockInv == StageInv /\ (served \cap outdated = {} => SoleWriter)

(* No step breaks StageInv: only Listen makes a process a server, and only *)
(* an end takes it away.                                                   *)
LEMMA StageStep == TypeOK /\ StageInv /\ [Next]_vars => StageInv'
<1>. SUFFICES ASSUME TypeOK, StageInv, [Next]_vars PROVE StageInv'
  OBVIOUS
<1>. USE DEF TypeOK, StageInv, Goto
<1>1. ASSUME NEW p \in Procs, Start(p) PROVE StageInv'
  BY <1>1 DEF Start
<1>2. ASSUME NEW p \in Procs, Seed(p) PROVE StageInv'
  BY <1>2 DEF Seed
<1>3. ASSUME NEW p \in Procs, Listen(p) PROVE StageInv'
  BY <1>3 DEF Listen
<1>4. ASSUME NEW p \in Procs, AddressInUse(p) PROVE StageInv'
  BY <1>4 DEF AddressInUse
<1>5. ASSUME NEW p \in Procs, Probed(p) PROVE StageInv'
  BY <1>5 DEF Probed, Exit
<1>6. ASSUME NEW p \in Procs, Connect(p) PROVE StageInv'
  BY <1>6 DEF Connect
<1>7. ASSUME NEW p \in Procs, Disconnect(p) PROVE StageInv'
  BY <1>7 DEF Disconnect
<1>8. ASSUME NEW p \in Procs, Receive(p) PROVE StageInv'
  BY <1>8 DEF Receive, Serving
<1>9. ASSUME NEW p \in Procs, Flush(p) PROVE StageInv'
  BY <1>9 DEF Flush, FlushQueue
<1>10. ASSUME NEW p \in Procs, Signal(p) PROVE StageInv'
  BY <1>10 DEF Signal
<1>11. ASSUME NEW p \in Procs, Closed(p) PROVE StageInv'
  BY <1>11 DEF Closed, FlushQueue, Exit
<1>12. ASSUME NEW p \in Procs, ForceExit(p) PROVE StageInv'
  BY <1>12 DEF ForceExit, Exit
<1>13. ASSUME NEW p \in Procs, Kill(p) PROVE StageInv'
  BY <1>13 DEF Kill, Exit
<1>14. CASE BackfillChecks
  BY <1>14 DEF BackfillChecks
<1>15. CASE BackfillReads
  BY <1>15 DEF BackfillReads
<1>16. CASE BackfillWrites
  BY <1>16 DEF BackfillWrites
<1>17. CASE UNCHANGED vars
  BY <1>17 DEF vars
<1>. QED
  BY <1>1, <1>2, <1>3, <1>4, <1>5, <1>6, <1>7, <1>8, <1>9, <1>10, <1>11, <1>12, <1>13,
     <1>14, <1>15, <1>16, <1>17 DEF Next

(* Who has served, and whose seed was outrun, is never taken back.         *)
LEMMA HistoryGrows ==
  ASSUME Next
  PROVE  served \subseteq served' /\ outdated \subseteq outdated'
BY DEF Next, Start, Seed, Listen, AddressInUse, Probed, Connect, Disconnect, Receive, Flush,
       Signal, Closed, ForceExit, Kill, BackfillChecks, BackfillReads, BackfillWrites

(* An end makes nobody a server and nobody a candidate.                    *)
LEMMA FewerServe ==
  ASSUME TypeOK, SoleWriter, NEW p \in Procs, NEW stage \in {"gone", "probing", "opening", "closing"},
         stage = "closing" => pc[p] = "listening" \/ p \notin served,
         Goto(p, stage), UNCHANGED <<SEQ, q, events, ignored, served, outdated>>
  PROVE  SoleWriter'
BY DEF TypeOK, SoleWriter, Serving, Goto, Taken

(* A flush by the only server stores all it has queued.                    *)
LEMMA FlushStoresAll ==
  ASSUME TypeOK, StageInv, SoleWriter, NEW p \in Procs, p \in served => Serving(p), FlushQueue(p)
  PROVE  /\ events' = events \cup q[p]
         /\ ignored' = {}
         /\ \A r \in q[p] : r.seq <= SEQ[p]
         /\ Serving(p) \/ events' = events
<1>1. \A r \in q[p] : Serving(p) /\ r.seq <= SEQ[p] /\ ~Taken(r)
  BY DEF StageInv, SoleWriter
<1>. QED  BY <1>1 DEF FlushQueue, SoleWriter

(* No step breaks LockInv: a candidate becomes the server when there is no *)
(* other, and whoever stores rows beside it is recorded in outdated.       *)
LEMMA LockStep == TypeOK /\ LockInv /\ [Next]_vars => LockInv'
<1>. SUFFICES ASSUME TypeOK, LockInv, [Next]_vars PROVE LockInv'
  OBVIOUS
<1>1. StageInv /\ StageInv' /\ TypeOK'
  BY StageStep, TypeStep DEF LockInv
<1>2. CASE UNCHANGED vars
  BY <1>2 DEF vars, LockInv, StageInv, SoleWriter, Serving, Taken
<1>3. SUFFICES ASSUME Next, (served \cap outdated = {})' PROVE SoleWriter'
  BY <1>1, <1>2 DEF LockInv
<1>4. SoleWriter
  BY <1>3, HistoryGrows DEF LockInv
<1>5. ASSUME NEW p \in Procs, Start(p) PROVE SoleWriter'
  BY <1>4, <1>5, FewerServe DEF Start
<1>6. ASSUME NEW p \in Procs, Seed(p) PROVE SoleWriter'
  <2>1. PICK s \in {0} \cup {r.seq : r \in events} :
          (\A r \in events : r.seq <= s) /\ SEQ' = [SEQ EXCEPT ![p] = s]
    BY <1>6 DEF Seed
  <2>2. UNCHANGED <<q, events, ignored, served>> /\ pc' = [pc EXCEPT ![p] = "seeded"] /\ ~Serving(p)
    BY <1>6 DEF Seed, Goto, Serving
  <2>3. \A r \in Procs : Serving(r)' = Serving(r)
    BY <2>2 DEF Serving, TypeOK
  <2>4. outdated' = IF \E r \in Procs : Serving(r) THEN outdated \cup {p} ELSE outdated
    BY <1>6 DEF Seed
  <2>. QED  BY <1>4, <2>1, <2>2, <2>3, <2>4 DEF SoleWriter, TypeOK, Taken
<1>7. ASSUME NEW p \in Procs, Listen(p) PROVE SoleWriter'
  <2>1. p \in served' /\ p \notin outdated
    BY <1>3, <1>7, HistoryGrows DEF Listen
  <2>2. /\ \A r \in Procs : ~Serving(r)
        /\ \A s \in events : s.seq <= SEQ[p]
    BY <1>4, <1>7, <2>1 DEF SoleWriter, Listen
  <2>3. q[p] = {}
    BY <1>1, <1>7 DEF StageInv, Listen
  <2>4. \A r \in Procs : Serving(r)' => r = p
    BY <1>7, <2>2 DEF Serving, Listen, Goto, TypeOK
  <2>5. \A r \in Procs : pc'[r] = "seeded" => r \in outdated'
    BY <1>7 DEF Listen, Goto, TypeOK
  <2>. QED  BY <1>4, <1>7, <2>2, <2>3, <2>4, <2>5 DEF SoleWriter, Listen
<1>8. ASSUME NEW p \in Procs, AddressInUse(p) PROVE SoleWriter'
  BY <1>4, <1>8, FewerServe DEF AddressInUse
<1>9. ASSUME NEW p \in Procs, Probed(p) \/ ForceExit(p) \/ Kill(p) PROVE SoleWriter'
  BY <1>4, <1>9, FewerServe DEF Probed, ForceExit, Kill, Exit
<1>10. ASSUME NEW p \in Procs, Connect(p) \/ Disconnect(p) PROVE SoleWriter'
  BY <1>4, <1>10 DEF Connect, Disconnect, SoleWriter, Serving, Taken
<1>11. ASSUME NEW p \in Procs, Receive(p) PROVE SoleWriter'
  <2>1. /\ Serving(p) /\ UNCHANGED <<pc, events, ignored, served, outdated>>
        /\ SEQ' = [SEQ EXCEPT ![p] = @ + 1]
        /\ q' = [q EXCEPT ![p] = @ \cup {[seq |-> SEQ[p] + 1, id |-> acked + 1]}]
    BY <1>11 DEF Receive
  <2>2. \A r \in Procs : Serving(r)' = Serving(r)
    BY <2>1 DEF Serving
  <2>3. SEQ'[p] = SEQ[p] + 1 /\ SEQ[p] \in Nat /\ events \subseteq Row /\ q[p] \subseteq Row
    BY <2>1 DEF TypeOK
  <2>4. \A s \in events : s.seq \in Nat /\ s.seq <= SEQ[p]
    BY <1>4, <2>1, <2>3 DEF SoleWriter, Row
  <2>5. \A r \in q'[p] : r.seq <= SEQ'[p] /\ ~Taken(r)
    <3>1. \A r \in q[p] : r.seq \in Nat /\ r.seq <= SEQ[p] /\ ~Taken(r)
      BY <1>4, <2>1, <2>3 DEF SoleWriter, Row
    <3>2. ~Taken([seq |-> SEQ[p] + 1, id |-> acked + 1])
      BY <2>3, <2>4 DEF Taken
    <3>. QED  BY <2>1, <2>3, <3>1, <3>2 DEF TypeOK
  <2>6. \A r \in q'[p] : ~Taken(r)'
    BY <2>1, <2>5 DEF Taken
  <2>7. \A s \in events' : s.seq <= SEQ'[p]
    BY <2>1, <2>3, <2>4
  <2>8. \A r \in Procs : Serving(r) => r = p
    BY <1>4, <2>1 DEF SoleWriter
  <2>9. \A r \in Procs : pc[r] = "seeded" => r \in outdated
    BY <1>4, <2>1 DEF SoleWriter
  <2>. QED  BY <1>4, <2>1, <2>2, <2>5, <2>6, <2>7, <2>8, <2>9 DEF SoleWriter
<1>12. ASSUME NEW p \in Procs, Flush(p) PROVE SoleWriter'
  <2>1. /\ Serving(p) /\ FlushQueue(p) /\ UNCHANGED <<pc, SEQ, served, outdated>>
        /\ q' = [q EXCEPT ![p] = {}]
    BY <1>12 DEF Flush, FlushQueue
  <2>2. \A r \in Procs : Serving(r)' = Serving(r)
    BY <2>1 DEF Serving
  <2>3. ignored' = {} /\ \A s \in events' : s.seq <= SEQ[p]
    BY <1>1, <1>4, <2>1, FlushStoresAll DEF SoleWriter
  <2>4. \A r \in Procs : Serving(r) => r = p
    BY <1>4, <2>1 DEF SoleWriter
  <2>5. \A r \in Procs : pc[r] = "seeded" => r \in outdated
    BY <1>4, <2>1 DEF SoleWriter
  <2>. QED  BY <2>1, <2>2, <2>3, <2>4, <2>5 DEF SoleWriter, TypeOK
<1>13. ASSUME NEW p \in Procs, Signal(p) PROVE SoleWriter'
  <2>1. pc[p] = "listening" \/ p \notin served
    BY <1>1, <1>13 DEF StageInv, Signal
  <2>. QED  BY <1>4, <1>13, <2>1, FewerServe DEF Signal
<1>14. ASSUME NEW p \in Procs, Closed(p) PROVE SoleWriter'
  <2>1. /\ FlushQueue(p) /\ UNCHANGED <<SEQ, served, outdated>> /\ pc[p] = "closing"
        /\ q' = [q EXCEPT ![p] = {}] /\ pc' = [pc EXCEPT ![p] = "gone"]
    BY <1>14 DEF Closed, FlushQueue, Exit, Goto
  <2>2. p \in served => Serving(p)
    BY <2>1 DEF Serving
  <2>3. ignored' = {} /\ (Serving(p) \/ events' = events)
    BY <1>1, <1>4, <2>1, <2>2, FlushStoresAll
  <2>4. \A r \in Procs : Serving(r)' => Serving(r) /\ r # p
    BY <2>1 DEF Serving, TypeOK
  <2>5. CASE Serving(p)
    <3>1. \A r \in Procs : ~Serving(r)'
      BY <1>4, <2>4, <2>5 DEF SoleWriter
    <3>2. \A r \in Procs : pc'[r] = "seeded" => r \in outdated'
      BY <1>4, <2>1, <2>5 DEF SoleWriter, TypeOK
    <3>. QED  BY <2>3, <3>1, <3>2 DEF SoleWriter
  <2>6. CASE events' = events
    <3>1. \A r \in Procs \ {p} : q'[r] = q[r] /\ pc'[r] = pc[r]
      BY <2>1 DEF TypeOK
    <3>2. pc'[p] = "gone"
      BY <2>1 DEF TypeOK
    <3>. QED  BY <1>4, <2>1, <2>3, <2>4, <2>6, <3>1, <3>2 DEF SoleWriter, Taken
  <2>. QED  BY <2>3, <2>5, <2>6
<1>15. CASE BackfillChecks
  BY <1>4, <1>15 DEF BackfillChecks, SoleWriter, Serving, Taken
<1>16. CASE BackfillReads
  BY <1>4, <1>16 DEF BackfillReads, SoleWriter, Serving, Taken
<1>17. CASE BackfillWrites
  <2>1. /\ UNCHANGED <<pc, SEQ, q, ignored, served>>
        /\ outdated' = outdated \cup {p \in Procs : Serving(p) \/ pc[p] = "seeded"}
    BY <1>17 DEF BackfillWrites
  <2>2. \A p \in Procs : ~Serving(p)
    BY <1>3, <2>1 DEF Serving
  <2>3. \A p \in Procs : ~Serving(p)'
    BY <2>1, <2>2 DEF Serving
  <2>. QED  BY <1>4, <2>1, <2>3 DEF SoleWriter
<1>. QED
  BY <1>3, <1>5, <1>6, <1>7, <1>8, <1>9, <1>10, <1>11, <1>12, <1>13, <1>14, <1>15, <1>16, <1>17
  DEF Next

(* INSERT OR IGNORE drops an acknowledged event for its seq only if some   *)
(* process served although startBackend had read MAX(seq) while another    *)
(* server, or backfill, could still store rows -- whatever the number of   *)
(* processes, and however they are stopped and killed.                     *)
THEOREM LossOnlyFromOutdatedSeed == Spec => []LossNeedsOutdatedSeed
<1>1. Init => LockInv
  BY DEF Init, LockInv, StageInv, SoleWriter, Serving
<1>2. LockInv => LossNeedsOutdatedSeed
  BY DEF LockInv, SoleWriter, LossNeedsOutdatedSeed
<1>. QED  BY <1>1, <1>2, LockStep, LifecycleTypes, PTL DEF Spec

-----------------------------------------------------------------------------
(* The folds of an import: its rows put one after another, those of the    *)
(* plugin kept, all of them inserted.                                      *)
Chained  == INSTANCE SequenceFolds WITH op <- Then
Filtered == INSTANCE SequenceFolds WITH op <- OnlyLive
Stored   == INSTANCE SequenceFolds WITH op <- Inserted

LEMMA ChainedIs ==
  ASSUME NEW base, NEW rows
  PROVE  FoldLeft(Then, base, rows) = Chained!Value(base, rows)
  BY Chained!ValueUnfolded DEF Chained!Unfolded, FoldLeft, MapThenFoldSet, Max

LEMMA FilteredIs ==
  ASSUME NEW base, NEW rows
  PROVE  FoldLeft(OnlyLive, base, rows) = Filtered!Value(base, rows)
  BY Filtered!ValueUnfolded DEF Filtered!Unfolded, FoldLeft, MapThenFoldSet, Max

LEMMA StoredIs ==
  ASSUME NEW base, NEW rows
  PROVE  FoldLeft(Inserted, base, rows) = Stored!Value(base, rows)
  BY Stored!ValueUnfolded DEF Stored!Unfolded, FoldLeft, MapThenFoldSet, Max

-----------------------------------------------------------------------------
HalfTypes == {"PreToolUse", "PostToolUse"}
ImportRows ==
  [type : HalfTypes \cup {"SessionStart", "UserPromptSubmit", "Stop", "SessionEnd"},
   id : Nat \cup {NoCall}, message : Nat, backfill : BOOLEAN]

(* No row twice; half a call at most once.                                 *)
Single(rows) == \A i, j \in DOMAIN rows : rows[i] = rows[j] => i = j
HalvesOnce(rows) ==
  \A i, j \in DOMAIN rows :
    i # j /\ rows[i].id # NoCall /\ rows[i].id = rows[j].id => rows[i].type # rows[j].type

(* Elements of a longer sequence.                                          *)
LEMMA LongerBy ==
  ASSUME NEW S, NEW s \in Seq(S), NEW x \in S
  PROVE  /\ Append(s, x) \in Seq(S) /\ Len(s) \in Nat /\ DOMAIN s = 1 .. Len(s)
         /\ Len(Append(s, x)) = Len(s) + 1 /\ DOMAIN Append(s, x) = 1 .. Len(s) + 1
         /\ \A i \in DOMAIN s : Append(s, x)[i] = s[i]
         /\ Append(s, x)[Len(s) + 1] = x
         /\ \A i \in DOMAIN Append(s, x) : i \in DOMAIN s \/ i = Len(s) + 1
         /\ DOMAIN s \subseteq DOMAIN Append(s, x) /\ Len(s) + 1 \in DOMAIN Append(s, x)
         /\ Len(s) + 1 \notin DOMAIN s
         /\ ToSet(Append(s, x)) = ToSet(s) \cup {x}
<1>. DEFINE a == Append(s, x)
            n == Len(s)
<1>1. a \in Seq(S) /\ n \in Nat /\ DOMAIN s = 1 .. n /\ Len(a) = n + 1 /\ DOMAIN a = 1 .. n + 1
  OBVIOUS
<1>2. a[n + 1] = x /\ \A i \in 1 .. n : a[i] = s[i]
  OBVIOUS
<1>. HIDE DEF a, n
<1>3. \A i \in 1 .. n + 1 : i \in 1 .. n \/ i = n + 1
  BY <1>1
<1>4. 1 .. n \subseteq 1 .. n + 1 /\ n + 1 \in 1 .. n + 1 /\ n + 1 \notin 1 .. n
  BY <1>1
<1>5. ToSet(a) = ToSet(s) \cup {x}
  BY <1>1, <1>2, <1>3, <1>4 DEF ToSet
<1>. QED  BY <1>1, <1>2, <1>3, <1>4, <1>5 DEF a, n

(* The sequence without its last row keeps what is said of all its rows.   *)
LEMMA Shorter ==
  ASSUME NEW S, NEW s \in Seq(S), NEW x \in S
  PROVE  /\ Single(Append(s, x)) => Single(s) /\ x \notin ToSet(s)
         /\ HalvesOnce(Append(s, x)) =>
              HalvesOnce(s) /\ \A y \in ToSet(s) : x.id # NoCall /\ y.id = x.id => y.type # x.type
<1>. DEFINE a == Append(s, x)
            n == Len(s)
<1>1. /\ DOMAIN s \subseteq DOMAIN a /\ n + 1 \in DOMAIN a /\ n + 1 \notin DOMAIN s
      /\ a[n + 1] = x /\ \A i \in DOMAIN s : a[i] = s[i]
  BY LongerBy
<1>. HIDE DEF a, n
<1>2. \A y \in ToSet(s) : \E i \in DOMAIN s : s[i] = y
  BY DEF ToSet
<1>3. Single(a) => Single(s) /\ x \notin ToSet(s)
  BY <1>1, <1>2 DEF Single
<1>4. HalvesOnce(a) => HalvesOnce(s)
  BY <1>1 DEF HalvesOnce
<1>5. ASSUME HalvesOnce(a), NEW y \in ToSet(s), x.id # NoCall, y.id = x.id PROVE y.type # x.type
  <2>1. PICK i \in DOMAIN s : s[i] = y
    BY <1>2
  <2>. QED  BY <1>1, <1>5, <2>1 DEF HalvesOnce
<1>. QED  BY <1>3, <1>4, <1>5 DEF a

(* A row that clashes with none keeps the halves apart.                    *)
LEMMA NoClash ==
  ASSUME NEW S, NEW s \in Seq(S), NEW x \in S, HalvesOnce(s), ~Clashes(s, x)
  PROVE  HalvesOnce(Append(s, x))
<1>. DEFINE a == Append(s, x)
            n == Len(s)
<1>1. /\ a[n + 1] = x /\ \A i \in DOMAIN s : a[i] = s[i]
      /\ \A i \in DOMAIN a : i \in DOMAIN s \/ i = n + 1
  BY LongerBy
<1>. HIDE DEF a, n
<1>2. \A i \in DOMAIN s : x.id # NoCall /\ s[i].id = x.id => s[i].type # x.type
  BY DEF Clashes, ToSet
<1>. QED  BY <1>1, <1>2 DEF HalvesOnce, a

-----------------------------------------------------------------------------
(* What the transaction leaves behind: what was there, as it was, and then *)
(* the rows that clash with nothing that was there, each once.             *)
Grows(old, rows, new) ==
  /\ new \in Seq(ImportRows) /\ HalvesOnce(new)
  /\ DOMAIN old \subseteq DOMAIN new /\ \A i \in DOMAIN old : new[i] = old[i]
  /\ \A i \in DOMAIN new \ DOMAIN old : new[i] \in ToSet(rows)
  /\ \A i, j \in DOMAIN new \ DOMAIN old : new[i] = new[j] => i = j
  /\ \A r \in ToSet(rows) : Clashes(old, r) \/ \E i \in DOMAIN new \ DOMAIN old : new[i] = r

LEMMA InsertedGrows ==
  ASSUME NEW old \in Seq(ImportRows), HalvesOnce(old),
         NEW rows \in Seq(ImportRows), Single(rows), HalvesOnce(rows)
  PROVE  Grows(old, rows, FoldLeft(Inserted, old, rows))
<1>. DEFINE At(u) == Stored!Value(old, u)
            T == {u \in Seq(ImportRows) : Single(u) /\ HalvesOnce(u) => Grows(old, u, At(u))}
<1>1. <<>> \in T
  <2>1. At(<<>>) = old
    BY Stored!ValueEmpty
  <2>2. ToSet(<<>>) = {} /\ <<>> \in Seq(ImportRows)
    BY DEF ToSet
  <2>3. Grows(old, <<>>, old)
    BY <2>2 DEF Grows
  <2>. QED  BY <2>1, <2>2, <2>3
<1>2. ASSUME NEW u \in T \cap Seq(ImportRows), NEW x \in ImportRows PROVE Append(u, x) \in T
  <2>. SUFFICES ASSUME Single(Append(u, x)), HalvesOnce(Append(u, x))
                PROVE  Append(u, x) \in Seq(ImportRows) /\ Grows(old, Append(u, x), At(Append(u, x)))
    OBVIOUS
  <2>. DEFINE v == At(u)
              a == Append(u, x)
  <2>1. At(a) = Inserted(v, x)
    BY Stored!ValueAppend
  <2>2. /\ Single(u) /\ x \notin ToSet(u) /\ HalvesOnce(u)
        /\ \A y \in ToSet(u) : x.id # NoCall /\ y.id = x.id => y.type # x.type
    BY Shorter
  <2>3. Grows(old, u, v)
    BY <2>2
  <2>4. a \in Seq(ImportRows) /\ ToSet(a) = ToSet(u) \cup {x}
    BY LongerBy
  <2>. HIDE DEF v, a, At
  <2>5. CASE Clashes(v, x)
    <3>1. At(a) = v
      BY <2>1, <2>5 DEF Inserted
    <3>2. Clashes(old, x)
      <4>1. x.id # NoCall /\ \E i \in DOMAIN v : v[i].id = x.id /\ v[i].type = x.type
        BY <2>5 DEF Clashes, ToSet
      <4>2. PICK i \in DOMAIN v : v[i].id = x.id /\ v[i].type = x.type
        BY <4>1
      <4>3. i \in DOMAIN old
        BY <2>2, <2>3, <4>1, <4>2 DEF Grows
      <4>4. old[i].id = x.id /\ old[i].type = x.type /\ old[i] \in ToSet(old)
        BY <2>3, <4>2, <4>3 DEF Grows, ToSet
      <4>. QED  BY <4>1, <4>4 DEF Clashes
    <3>. QED  BY <2>3, <2>4, <3>1, <3>2 DEF Grows, a
  <2>6. CASE ~Clashes(v, x)
    <3>. DEFINE w == Append(v, x)
                n == Len(v)
    <3>1. At(a) = w
      BY <2>1, <2>6 DEF Inserted
    <3>2. v \in Seq(ImportRows)
      BY <2>3 DEF Grows
    <3>3. /\ w \in Seq(ImportRows) /\ w[n + 1] = x /\ \A i \in DOMAIN v : w[i] = v[i]
          /\ \A i \in DOMAIN w : i \in DOMAIN v \/ i = n + 1
          /\ DOMAIN v \subseteq DOMAIN w /\ n + 1 \in DOMAIN w /\ n + 1 \notin DOMAIN v
      BY <3>2, LongerBy
    <3>4. HalvesOnce(w)
      BY <2>3, <2>6, <3>2, NoClash DEF Grows
    <3>. HIDE DEF w, n
    <3>5. DOMAIN old \subseteq DOMAIN w /\ \A i \in DOMAIN old : w[i] = old[i]
      BY <2>3, <3>3 DEF Grows
    <3>6. \A i \in DOMAIN w \ DOMAIN old : w[i] \in ToSet(a)
      BY <2>3, <2>4, <3>3 DEF Grows
    <3>7. \A i, j \in DOMAIN w \ DOMAIN old : w[i] = w[j] => i = j
      <4>1. \A i \in DOMAIN v \ DOMAIN old : w[i] # x
        BY <2>2, <2>3, <3>3 DEF Grows
      <4>. QED  BY <2>3, <3>3, <4>1 DEF Grows
    <3>8. \A r \in ToSet(a) : Clashes(old, r) \/ \E i \in DOMAIN w \ DOMAIN old : w[i] = r
      <4>1. n + 1 \in DOMAIN w \ DOMAIN old /\ w[n + 1] = x
        BY <2>3, <3>3 DEF Grows
      <4>2. \A r \in ToSet(u) : Clashes(old, r) \/ \E i \in DOMAIN w \ DOMAIN old : w[i] = r
        BY <2>3, <3>3 DEF Grows
      <4>. QED  BY <2>4, <4>1, <4>2
    <3>9. Grows(old, a, w)
      BY <3>3, <3>4, <3>5, <3>6, <3>7, <3>8 DEF Grows
    <3>. QED  BY <2>4, <3>1, <3>9 DEF a
  <2>. QED  BY <2>5, <2>6 DEF a
<1>. HIDE DEF T
<1>3. rows \in T
  BY <1>1, <1>2, Stored!SequenceInduction
<1>. QED  BY <1>3, StoredIs DEF T

(* What --force leaves behind: the rows of the plugin.                     *)
LEMMA LiveLeft ==
  ASSUME NEW rows \in Seq(ImportRows), HalvesOnce(rows)
  PROVE  LET v == FoldLeft(OnlyLive, <<>>, rows)
         IN v \in Seq(ImportRows) /\ HalvesOnce(v) /\ ToSet(v) = {r \in ToSet(rows) : ~r.backfill}
<1>. DEFINE At(u) == Filtered!Value(<<>>, u)
            Left(u) == /\ At(u) \in Seq(ImportRows) /\ HalvesOnce(At(u))
                       /\ ToSet(At(u)) = {r \in ToSet(u) : ~r.backfill}
            T == {u \in Seq(ImportRows) : HalvesOnce(u) => Left(u)}
<1>1. <<>> \in T
  <2>1. At(<<>>) = <<>>
    BY Filtered!ValueEmpty
  <2>2. ToSet(<<>>) = {} /\ <<>> \in Seq(ImportRows) /\ HalvesOnce(<<>>)
    BY DEF ToSet, HalvesOnce
  <2>. HIDE DEF At
  <2>. QED  BY <2>1, <2>2
<1>2. ASSUME NEW u \in T \cap Seq(ImportRows), NEW x \in ImportRows PROVE Append(u, x) \in T
  <2>. SUFFICES ASSUME HalvesOnce(Append(u, x))
                PROVE  Append(u, x) \in Seq(ImportRows) /\ Left(Append(u, x))
    OBVIOUS
  <2>. DEFINE v == At(u)
              a == Append(u, x)
  <2>1. At(a) = OnlyLive(v, x)
    BY Filtered!ValueAppend
  <2>2. HalvesOnce(u) /\ \A y \in ToSet(u) : x.id # NoCall /\ y.id = x.id => y.type # x.type
    BY Shorter
  <2>3. v \in Seq(ImportRows) /\ HalvesOnce(v) /\ ToSet(v) = {r \in ToSet(u) : ~r.backfill}
    BY <2>2
  <2>4. a \in Seq(ImportRows) /\ ToSet(a) = ToSet(u) \cup {x}
    BY LongerBy
  <2>5. ToSet(Append(v, x)) = ToSet(v) \cup {x} /\ Append(v, x) \in Seq(ImportRows)
    BY <2>3, LongerBy
  <2>6. ~Clashes(v, x)
    BY <2>2, <2>3 DEF Clashes
  <2>7. HalvesOnce(Append(v, x))
    BY <2>3, <2>6, NoClash
  <2>. HIDE DEF v, a, At
  <2>8. CASE x.backfill
    BY <2>1, <2>3, <2>4, <2>8 DEF OnlyLive, a
  <2>9. CASE ~x.backfill
    <3>1. ToSet(Append(v, x)) = {r \in ToSet(a) : ~r.backfill}
      BY <2>3, <2>4, <2>5, <2>9
    <3>. QED  BY <2>1, <2>4, <2>5, <2>7, <2>9, <3>1 DEF OnlyLive, a
  <2>. QED  BY <2>8, <2>9
<1>. HIDE DEF T
<1>3. rows \in T
  BY <1>1, <1>2, Filtered!SequenceInduction
<1>4. FoldLeft(OnlyLive, <<>>, rows) = At(rows)
  BY FilteredIs
<1>. QED  BY <1>3, <1>4 DEF T

-----------------------------------------------------------------------------
(* Sequences without a row twice, put one after the other.                 *)
LEMMA Joined ==
  ASSUME NEW S, NEW a \in Seq(S), NEW b \in Seq(S)
  PROVE  /\ a \o b \in Seq(S) /\ ToSet(a \o b) = ToSet(a) \cup ToSet(b)
         /\ Single(a) /\ Single(b) /\ ToSet(a) \cap ToSet(b) = {} => Single(a \o b)
<1>. DEFINE c == a \o b
            n == Len(a)
            m == Len(b)
<1>1. /\ n \in Nat /\ m \in Nat /\ DOMAIN a = 1 .. n /\ DOMAIN b = 1 .. m
      /\ c \in Seq(S) /\ DOMAIN c = 1 .. n + m
  OBVIOUS
<1>2. \A i \in 1 .. n : c[i] = a[i]
  OBVIOUS
<1>3. \A i \in 1 .. m : c[n + i] = b[i]
  OBVIOUS
<1>. HIDE DEF c, n, m
<1>4. \A i \in 1 .. n + m : i \in 1 .. n \/ i - n \in 1 .. m
  BY <1>1
<1>5. /\ \A i \in 1 .. n : i \in 1 .. n + m
      /\ \A i \in 1 .. m : n + i \in 1 .. n + m
      /\ \A i \in 1 .. n + m : n + (i - n) = i
  BY <1>1
<1>6. \A i \in 1 .. n + m : i - n \in 1 .. m => c[i] = b[i - n]
  BY <1>3, <1>5
<1>7. ToSet(c) = ToSet(a) \cup ToSet(b)
  <2>1. ToSet(c) \subseteq ToSet(a) \cup ToSet(b)
    BY <1>1, <1>2, <1>4, <1>6 DEF ToSet
  <2>2. ToSet(a) \subseteq ToSet(c)
    BY <1>1, <1>2, <1>5 DEF ToSet
  <2>3. ToSet(b) \subseteq ToSet(c)
    <3>. SUFFICES ASSUME NEW i \in 1 .. m PROVE b[i] \in ToSet(c)
      BY <1>1 DEF ToSet
    <3>1. n + i \in DOMAIN c /\ c[n + i] = b[i]
      BY <1>1, <1>3, <1>5
    <3>. QED  BY <3>1 DEF ToSet
  <2>. QED  BY <2>1, <2>2, <2>3
<1>8. ASSUME Single(a), Single(b), ToSet(a) \cap ToSet(b) = {} PROVE Single(c)
  <2>. SUFFICES ASSUME NEW i \in 1 .. n + m, NEW j \in 1 .. n + m, c[i] = c[j] PROVE i = j
    BY <1>1 DEF Single
  <2>1. /\ \A k \in 1 .. n : a[k] \in ToSet(a)
        /\ \A k \in 1 .. m : b[k] \in ToSet(b)
    BY <1>1 DEF ToSet
  <2>2. CASE i \in 1 .. n /\ j \in 1 .. n
    BY <1>1, <1>2, <1>8, <2>2 DEF Single
  <2>3. CASE i - n \in 1 .. m /\ j - n \in 1 .. m
    <3>1. i - n = j - n
      BY <1>1, <1>6, <1>8, <2>3 DEF Single
    <3>. QED  BY <1>1, <3>1
  <2>4. CASE i \in 1 .. n /\ j - n \in 1 .. m
    BY <1>2, <1>6, <1>8, <2>1, <2>4
  <2>5. CASE i - n \in 1 .. m /\ j \in 1 .. n
    BY <1>2, <1>6, <1>8, <2>1, <2>5
  <2>. QED  BY <1>4, <2>2, <2>3, <2>4, <2>5
<1>. QED  BY <1>1, <1>7, <1>8 DEF c

(* The same of any number of them.                                         *)
LEMMA AllJoined ==
  ASSUME NEW S, NEW n \in Nat, NEW parts \in [1 .. n -> Seq(S)],
         \A i \in 1 .. n : Single(parts[i]),
         \A i, j \in 1 .. n : i # j => ToSet(parts[i]) \cap ToSet(parts[j]) = {}
  PROVE  LET all == FoldLeft(Then, <<>>, parts)
         IN /\ all \in Seq(S) /\ Single(all)
            /\ ToSet(all) = UNION {ToSet(parts[i]) : i \in 1 .. n}
<1>. DEFINE At(u) == Chained!Value(<<>>, u)
            First(k) == SubSeq(parts, 1, k)
            Good(k) == /\ At(First(k)) \in Seq(S) /\ Single(At(First(k)))
                       /\ ToSet(At(First(k))) = UNION {ToSet(parts[i]) : i \in 1 .. k}
            T == {k \in Nat : k <= n => Good(k)}
<1>1. parts \in Seq(Seq(S)) /\ Len(parts) = n
  OBVIOUS
<1>2. 0 \in T
  <2>1. First(0) = <<>>
    BY <1>1
  <2>2. At(First(0)) = <<>>
    BY <2>1, Chained!ValueEmpty
  <2>3. ToSet(<<>>) = {} /\ <<>> \in Seq(S) /\ Single(<<>>)
    BY DEF ToSet, Single
  <2>4. UNION {ToSet(parts[i]) : i \in 1 .. 0} = {}
    OBVIOUS
  <2>. HIDE DEF At, First
  <2>. QED  BY <2>2, <2>3, <2>4
<1>3. ASSUME NEW k \in T \cap Nat PROVE k + 1 \in T
  <2>. SUFFICES ASSUME k + 1 <= n PROVE Good(k + 1)
    OBVIOUS
  <2>1. Good(k) /\ k + 1 \in 1 .. n
    BY <1>1
  <2>2. First(k) \in Seq(Seq(S)) /\ First(k + 1) = Append(First(k), parts[k + 1])
    <3>1. k \in Nat /\ k + 1 <= Len(parts)
      BY <1>1
    <3>2. SubSeq(parts, 1, k) \in Seq(Seq(S))
      BY <1>1, <3>1
    <3>3. SubSeq(parts, 1, k + 1) = Append(SubSeq(parts, 1, k), parts[k + 1])
      BY <1>1, <3>1
    <3>. QED  BY <3>2, <3>3
  <2>3. parts[k + 1] \in Seq(S) /\ Single(parts[k + 1])
    BY <2>1
  <2>. DEFINE old == At(First(k))
              p == parts[k + 1]
  <2>4. At(First(k + 1)) = old \o p
    <3>. HIDE DEF First, p
    <3>1. At(Append(First(k), p)) = Then(old, p)
      BY <2>2, <2>3, Chained!ValueAppend DEF p
    <3>. QED  BY <2>2, <3>1 DEF Then, p
  <2>5. /\ old \in Seq(S) /\ Single(old)
        /\ ToSet(old) = UNION {ToSet(parts[i]) : i \in 1 .. k}
    BY <2>1
  <2>. HIDE DEF At, First, old
  <2>6. ToSet(old) \cap ToSet(p) = {}
    <3>1. \A i \in 1 .. k : i \in 1 .. n /\ i # k + 1
      BY <2>1
    <3>2. \A i \in 1 .. k : ToSet(parts[i]) \cap ToSet(p) = {}
      BY <2>1, <3>1
    <3>. QED  BY <2>5, <3>2
  <2>7. old \o p \in Seq(S) /\ Single(old \o p) /\ ToSet(old \o p) = ToSet(old) \cup ToSet(p)
    BY <2>3, <2>5, <2>6, Joined
  <2>8. ToSet(old \o p) = UNION {ToSet(parts[i]) : i \in 1 .. k + 1}
    <3>1. \A i \in 1 .. k + 1 : i \in 1 .. k \/ i = k + 1
      BY <2>1
    <3>2. 1 .. k \subseteq 1 .. k + 1 /\ k + 1 \in 1 .. k + 1
      BY <2>1
    <3>. QED  BY <2>5, <2>7, <3>1, <3>2
  <2>. QED  BY <2>4, <2>7, <2>8
<1>. HIDE DEF T
<1>4. n \in T
  BY <1>2, <1>3, Chained!Induction
<1>5. First(n) = parts
  BY <1>1
<1>6. FoldLeft(Then, <<>>, parts) = At(parts)
  BY ChainedIs
<1>. HIDE DEF At, First
<1>. QED  BY <1>4, <1>5, <1>6 DEF T

-----------------------------------------------------------------------------
Message == [role : {"user", "assistant"}, tools : Seq(Nat), steps : Nat]

(* opencode numbers calls as they are made; a prompt makes none.           *)
Numbers(c) == c \in Nat /\ ToolsIn(talk) = 1 .. c
Spoken ==
  /\ talk \in Seq(Message)
  /\ \E c : Numbers(c)
  /\ \A m \in DOMAIN talk : /\ talk[m].role = "user" => talk[m].tools = <<>>
                            /\ Single(talk[m].tools)
  /\ \A m, n \in DOMAIN talk : m # n => ToSet(talk[m].tools) \cap ToSet(talk[n].tools) = {}

(* Half of a call that opencode knows of.                                  *)
Half(r) ==
  /\ r.type \in HalfTypes /\ r.message \in DOMAIN talk
  /\ r.id \in ToSet(talk[r.message].tools)

LEMMA MessageRows ==
  ASSUME Spoken, NEW m \in DOMAIN talk
  PROVE  LET rows == RowsOfMessage(m)
         IN /\ rows \in Seq(ImportRows) /\ Single(rows)
            /\ \A r \in ToSet(rows) : /\ r.message = m /\ r.backfill
                                      /\ r.id # NoCall => Half(r)
            /\ \A type \in HalfTypes, id \in ToSet(talk[m].tools) :
                 ImportRow(type, id, m) \in ToSet(rows)
<1>. DEFINE tools == talk[m].tools
            Pair(k) == <<ImportRow("PreToolUse", tools[k], m), ImportRow("PostToolUse", tools[k], m)>>
            parts == [k \in DOMAIN tools |-> Pair(k)]
            end == ImportRow("Stop", NoCall, m)
            prompt == ImportRow("UserPromptSubmit", NoCall, m)
<1>1. /\ m \in Nat /\ talk[m] \in Message /\ tools \in Seq(Nat) /\ Single(tools)
      /\ talk[m].role = "user" => tools = <<>>
  <2>1. m \in Nat /\ talk[m] \in Message
    BY DEF Spoken
  <2>2. Single(tools) /\ (talk[m].role = "user" => tools = <<>>)
    BY DEF Spoken
  <2>3. tools \in Seq(Nat)
    BY <2>1 DEF Message
  <2>. QED  BY <2>1, <2>2, <2>3
<1>2. end \in ImportRows /\ prompt \in ImportRows
  BY <1>1 DEF ImportRow, ImportRows
<1>3. \A r \in ImportRows : <<r>> \in Seq(ImportRows) /\ Single(<<r>>) /\ ToSet(<<r>>) = {r}
  BY DEF Single, ToSet
<1>4. CASE talk[m].role = "user"
  <2>1. RowsOfMessage(m) = <<prompt>>
    BY <1>4 DEF RowsOfMessage
  <2>2. ToSet(tools) = {}
    BY <1>1, <1>4 DEF ToSet
  <2>3. prompt.message = m /\ prompt.backfill /\ prompt.id = NoCall
    BY DEF ImportRow
  <2>. HIDE DEF tools, prompt
  <2>. QED  BY <1>2, <1>3, <2>1, <2>2, <2>3 DEF tools
<1>5. CASE talk[m].role # "user"
  <2>. DEFINE n == Len(tools)
              all == FoldLeft(Then, <<>>, parts)
  <2>1. n \in Nat /\ DOMAIN tools = 1 .. n /\ \A k \in 1 .. n : tools[k] \in Nat
    BY <1>1
  <2>2. ASSUME NEW k \in 1 .. n
        PROVE  /\ Pair(k) \in Seq(ImportRows) /\ Single(Pair(k))
               /\ ToSet(Pair(k)) = {ImportRow(type, tools[k], m) : type \in HalfTypes}
    <3>. DEFINE a == ImportRow("PreToolUse", tools[k], m)
                b == ImportRow("PostToolUse", tools[k], m)
    <3>1. a \in ImportRows /\ b \in ImportRows /\ a # b
      BY <1>1, <2>1 DEF ImportRow, ImportRows, HalfTypes
    <3>2. {ImportRow(type, tools[k], m) : type \in HalfTypes} = {a, b}
      BY DEF HalfTypes
    <3>3. Pair(k) = <<a, b>>
      OBVIOUS
    <3>. HIDE DEF a, b, Pair
    <3>4. <<a, b>> \in Seq(ImportRows) /\ Single(<<a, b>>)
      BY <3>1 DEF Single
    <3>5. ToSet(<<a, b>>) = {a, b}
      BY DEF ToSet
    <3>. QED  BY <3>2, <3>3, <3>4, <3>5
  <2>3. \A k \in 1 .. n : \A r \in ToSet(Pair(k)) :
          r.type \in HalfTypes /\ r.message = m /\ r.id = tools[k] /\ r.backfill
    <3>. SUFFICES ASSUME NEW k \in 1 .. n, NEW r \in ToSet(Pair(k))
                  PROVE  r.type \in HalfTypes /\ r.message = m /\ r.id = tools[k] /\ r.backfill
      OBVIOUS
    <3>. HIDE DEF Pair, tools
    <3>1. PICK type \in HalfTypes : r = ImportRow(type, tools[k], m)
      BY <2>2
    <3>. QED  BY <3>1 DEF ImportRow
  <2>. HIDE DEF Pair
  <2>4. parts \in [1 .. n -> Seq(ImportRows)] /\ \A k \in 1 .. n : parts[k] = Pair(k)
    BY <2>1, <2>2
  <2>. HIDE DEF parts
  <2>5. \A i, j \in 1 .. n : i # j => ToSet(parts[i]) \cap ToSet(parts[j]) = {}
    BY <1>1, <2>1, <2>3, <2>4 DEF Single
  <2>6. /\ all \in Seq(ImportRows) /\ Single(all)
        /\ ToSet(all) = UNION {ToSet(parts[i]) : i \in 1 .. n}
    <3>1. \A k \in 1 .. n : Single(parts[k])
      BY <2>2, <2>4
    <3>. HIDE DEF tools, n
    <3>. QED  BY <2>1, <2>4, <2>5, <3>1, AllJoined
  <2>. HIDE DEF all
  <2>7. \A r \in ToSet(all) : /\ r.type \in HalfTypes /\ r.message = m /\ r.backfill
                              /\ r.id \in ToSet(tools)
    <3>1. \A k \in 1 .. n : tools[k] \in ToSet(tools)
      BY <2>1 DEF ToSet
    <3>2. ASSUME NEW r \in ToSet(all) PROVE \E k \in 1 .. n : r \in ToSet(Pair(k))
      BY <2>4, <2>6
    <3>. HIDE DEF tools, n
    <3>. QED  BY <2>3, <3>1, <3>2
  <2>8. ASSUME NEW type \in HalfTypes, NEW id \in ToSet(tools)
        PROVE  ImportRow(type, id, m) \in ToSet(all)
    <3>1. PICK k \in 1 .. n : id = tools[k]
      BY <2>1 DEF ToSet
    <3>. HIDE DEF tools, n
    <3>2. ImportRow(type, tools[k], m) \in ToSet(Pair(k))
      BY <2>2
    <3>. QED  BY <2>4, <2>6, <3>1, <3>2
  <2>9. end.message = m /\ end.backfill /\ end.id = NoCall /\ end.type \notin HalfTypes
    BY DEF ImportRow, HalfTypes
  <2>10. RowsOfMessage(m) = all \o <<end>>
    BY <1>5 DEF RowsOfMessage, all, parts, Pair
  <2>11. ToSet(all) \cap ToSet(<<end>>) = {}
    <3>. HIDE DEF end, tools
    <3>. QED  BY <1>2, <1>3, <2>7, <2>9
  <2>. HIDE DEF end, n
  <2>12. /\ RowsOfMessage(m) \in Seq(ImportRows) /\ Single(RowsOfMessage(m))
         /\ ToSet(RowsOfMessage(m)) = ToSet(all) \cup {end}
    <3>1. <<end>> \in Seq(ImportRows) /\ Single(<<end>>) /\ ToSet(<<end>>) = {end}
      BY <1>2, <1>3
    <3>. DEFINE one == <<end>>
    <3>2. one \in Seq(ImportRows) /\ Single(one) /\ ToSet(all) \cap ToSet(one) = {}
      BY <2>11, <3>1
    <3>. HIDE DEF tools, prompt, one
    <3>3. /\ all \o one \in Seq(ImportRows) /\ Single(all \o one)
          /\ ToSet(all \o one) = ToSet(all) \cup ToSet(one)
      BY <2>6, <3>2, Joined
    <3>. QED  BY <2>10, <3>1, <3>3 DEF one
  <2>13. \A r \in ToSet(all) : Half(r)
    BY <2>7 DEF Half
  <2>14. /\ \A r \in ToSet(all) \cup {end} : /\ r.message = m /\ r.backfill
                                             /\ r.id # NoCall => Half(r)
         /\ \A type \in HalfTypes, id \in ToSet(tools) : ImportRow(type, id, m) \in ToSet(all) \cup {end}
    <3>. HIDE DEF tools, Half
    <3>. QED  BY <2>7, <2>8, <2>9, <2>13
  <2>. QED  BY <2>12, <2>14
<1>. QED  BY <1>4, <1>5

(* What an import reads of a session: every row once, every half once, and *)
(* both halves of every call.                                              *)
LEMMA BuiltOnce ==
  ASSUME Spoken
  PROVE  /\ BuildRows \in Seq(ImportRows) /\ Single(BuildRows) /\ HalvesOnce(BuildRows)
         /\ \A r \in ToSet(BuildRows) : r.backfill /\ (r.id # NoCall => Half(r))
         /\ \A r \in ImportRows : Half(r) /\ r.backfill => r \in ToSet(BuildRows)
<1>. DEFINE n == Len(talk)
            parts == [m \in DOMAIN talk |-> RowsOfMessage(m)]
            mid == FoldLeft(Then, <<>>, parts)
            start == ImportRow("SessionStart", NoCall, 0)
            end == ImportRow("SessionEnd", NoCall, 0)
            tail == IF idle THEN <<end>> ELSE <<>>
<1>1. n \in Nat /\ DOMAIN talk = 1 .. n
  BY DEF Spoken
<1>2. \A m \in 1 .. n :
        /\ RowsOfMessage(m) \in Seq(ImportRows) /\ Single(RowsOfMessage(m))
        /\ \A r \in ToSet(RowsOfMessage(m)) : r.message = m /\ r.backfill /\ (r.id # NoCall => Half(r))
        /\ \A type \in HalfTypes, id \in ToSet(talk[m].tools) :
             ImportRow(type, id, m) \in ToSet(RowsOfMessage(m))
  BY <1>1, MessageRows
<1>3. parts \in [1 .. n -> Seq(ImportRows)] /\ \A m \in 1 .. n : parts[m] = RowsOfMessage(m)
  BY <1>1, <1>2
<1>. HIDE DEF parts, n
<1>4. \A i, j \in 1 .. n : i # j => ToSet(parts[i]) \cap ToSet(parts[j]) = {}
  BY <1>2, <1>3
<1>5. /\ mid \in Seq(ImportRows) /\ Single(mid)
      /\ ToSet(mid) = UNION {ToSet(parts[i]) : i \in 1 .. n}
  <2>1. \A m \in 1 .. n : Single(parts[m])
    BY <1>2, <1>3
  <2>. HIDE DEF start, end, tail
  <2>. QED  BY <1>1, <1>3, <1>4, <2>1, AllJoined
<1>. HIDE DEF mid
<1>6. \A r \in ToSet(mid) : r.message # 0 /\ r.backfill /\ (r.id # NoCall => Half(r))
  BY <1>1, <1>2, <1>3, <1>5
<1>7. /\ start \in ImportRows /\ end \in ImportRows /\ start # end
      /\ start.message = 0 /\ start.backfill /\ start.id = NoCall
      /\ end.message = 0 /\ end.backfill /\ end.id = NoCall
  BY DEF ImportRow, ImportRows
<1>8. BuildRows = (<<start>> \o mid) \o tail
  BY DEF BuildRows, mid, parts
<1>. HIDE DEF start, end
<1>9. /\ <<start>> \in Seq(ImportRows) /\ Single(<<start>>) /\ ToSet(<<start>>) = {start}
      /\ tail \in Seq(ImportRows) /\ Single(tail) /\ ToSet(tail) \subseteq {end}
  BY <1>7 DEF Single, ToSet
<1>. HIDE DEF tail
<1>10. start \notin ToSet(mid) /\ end \notin ToSet(mid)
  BY <1>6, <1>7
<1>. DEFINE front == <<start>> \o mid
<1>11. front \in Seq(ImportRows) /\ Single(front) /\ ToSet(front) = {start} \cup ToSet(mid)
  <2>. DEFINE one == <<start>>
  <2>1. one \in Seq(ImportRows) /\ Single(one) /\ ToSet(one) = {start}
    BY <1>9
  <2>. HIDE DEF one
  <2>2. ToSet(one) \cap ToSet(mid) = {}
    BY <1>10, <2>1
  <2>3. /\ one \o mid \in Seq(ImportRows) /\ Single(one \o mid)
        /\ ToSet(one \o mid) = ToSet(one) \cup ToSet(mid)
    BY <1>5, <2>1, <2>2, Joined
  <2>. QED  BY <2>1, <2>3 DEF one
<1>. HIDE DEF front
<1>12. /\ front \o tail \in Seq(ImportRows) /\ Single(front \o tail)
       /\ ToSet(front \o tail) = ToSet(front) \cup ToSet(tail)
  BY <1>7, <1>9, <1>10, <1>11, Joined
<1>13. BuildRows = front \o tail
  BY <1>8 DEF front
<1>14. \A r \in ToSet(BuildRows) : r \in ImportRows /\ r.backfill /\ (r.id # NoCall => Half(r))
  <2>1. ToSet(BuildRows) \subseteq {start, end} \cup ToSet(mid)
    BY <1>9, <1>11, <1>12, <1>13
  <2>2. ToSet(BuildRows) \subseteq ImportRows
    BY <1>12, <1>13 DEF ToSet
  <2>. QED  BY <1>6, <1>7, <2>1, <2>2
<1>15. HalvesOnce(BuildRows)
  <2>. SUFFICES ASSUME NEW i \in DOMAIN BuildRows, NEW j \in DOMAIN BuildRows,
                       BuildRows[i].id # NoCall, BuildRows[i].id = BuildRows[j].id,
                       BuildRows[i].type = BuildRows[j].type
                PROVE  i = j
    BY DEF HalvesOnce
  <2>. DEFINE a == BuildRows[i]
              b == BuildRows[j]
  <2>1. a \in ToSet(BuildRows) /\ b \in ToSet(BuildRows)
    BY DEF ToSet
  <2>2. a \in ImportRows /\ b \in ImportRows /\ a.backfill = b.backfill /\ Half(a) /\ Half(b)
        /\ a.id = b.id /\ a.type = b.type
    <3>. HIDE DEF Half
    <3>1. a \in ImportRows /\ b \in ImportRows /\ a.backfill /\ b.backfill /\ Half(a) /\ Half(b)
      BY <1>14, <2>1
    <3>2. a.backfill \in BOOLEAN /\ b.backfill \in BOOLEAN
      BY <3>1 DEF ImportRows
    <3>. QED  BY <3>1, <3>2
  <2>. HIDE DEF a, b
  <2>3. a.message = b.message
    BY <2>2 DEF Half, Spoken
  <2>4. a = b
    BY <2>2, <2>3 DEF ImportRows
  <2>. QED  BY <1>12, <1>13, <2>4 DEF Single, a, b
<1>16. ASSUME NEW r \in ImportRows, Half(r), r.backfill PROVE r \in ToSet(BuildRows)
  <2>1. r = ImportRow(r.type, r.id, r.message)
    <3>1. r.backfill = TRUE
      BY <1>16 DEF ImportRows
    <3>. QED  BY <3>1 DEF ImportRow, ImportRows
  <2>2. r.message \in 1 .. n /\ r.type \in HalfTypes /\ r.id \in ToSet(talk[r.message].tools)
    BY <1>1, <1>16 DEF Half
  <2>3. r \in ToSet(RowsOfMessage(r.message))
    BY <1>2, <2>1, <2>2
  <2>. QED  BY <1>3, <1>5, <1>11, <1>12, <1>13, <2>2, <2>3
<1>. QED  BY <1>12, <1>13, <1>14, <1>15, <1>16

-----------------------------------------------------------------------------
(* Row r of the import is there once; or the plugin's in its place.        *)
Once(rows, r) ==
  \/ \E i \in DOMAIN rows : rows[i] = r /\ \A j \in DOMAIN rows : rows[j] = r => j = i
  \/ /\ r.id # NoCall /\ r \notin ToSet(rows)
     /\ \E x \in ToSet(rows) : /\ x.type = r.type /\ x.id = r.id /\ x.message = r.message
                               /\ ~x.backfill

(* Calls in the table are those of opencode, each half once.               *)
Filed ==
  /\ table \in Seq(ImportRows) /\ HalvesOnce(table)
  /\ reported \in SUBSET ImportRows /\ basis.rows \in SUBSET ImportRows
  /\ \A r \in ToSet(table) \cup reported \cup basis.rows : r.id # NoCall => Half(r)
  /\ \A r \in basis.rows : r.backfill
  /\ \A r \in reported : ~r.backfill

(* Where no cursor was lost: one that is not there yet was never written.  *)
Traced ==
  ~lost => /\ \A r \in basis.rows : Once(table, r)
           /\ \A r \in ToSet(table) : r.backfill => r \in basis.rows
           /\ ~seen => basis.rows = {}

Counted == steps = basis.steps /\ steps \subseteq BuildUsage
Heard == \A r \in reported : r \in ToSet(table) \/ Clashes(table, r)

ImportInv == Spoken /\ Filed /\ Traced /\ Counted /\ Heard

(* The invariant of an import: it holds of an empty database, is kept by   *)
(* every step (below), and says what ImportedOnce says.                    *)
LEMMA ImportInit == InitImport => ImportInv
<1>. SUFFICES ASSUME InitImport PROVE ImportInv
  OBVIOUS
<1>1. ToSet(<<>>) = {} /\ DOMAIN <<>> = {}
  BY DEF ToSet
<1>2. /\ talk = <<>> /\ table = <<>> /\ steps = {} /\ basis.rows = {} /\ basis.steps = {}
      /\ reported = {} /\ ~lost
  BY DEF InitImport
<1>3. Spoken
  <2>1. ToolsIn(talk) = {}
    BY <1>1, <1>2 DEF ToolsIn
  <2>2. Numbers(0)
    BY <2>1 DEF Numbers
  <2>. QED  BY <1>2, <2>2 DEF Spoken
<1>4. Filed /\ Traced
  BY <1>1, <1>2 DEF Filed, Traced, HalvesOnce
<1>5. Counted /\ Heard
  BY <1>2 DEF Counted, Heard
<1>. QED  BY <1>3, <1>4, <1>5 DEF ImportInv

LEMMA ImportInvImplies == ImportInv => ImportedOnce
<1>. SUFFICES ASSUME ImportInv PROVE ImportedOnce
  OBVIOUS
<1>. DEFINE Places(type, id, m, ours) ==
              {i \in DOMAIN table : /\ table[i].type = type /\ table[i].id = id
                                    /\ table[i].message = m /\ table[i].backfill = ours}
<1>1. /\ table \in Seq(ImportRows) /\ HalvesOnce(table)
      /\ basis.rows \in SUBSET ImportRows /\ \A r \in basis.rows : r.backfill
  BY DEF ImportInv, Filed
<1>2. \A i \in DOMAIN table : table[i] \in ImportRows
  BY <1>1
<1>3. ASSUME ~lost, NEW r \in basis.rows
      PROVE  Cardinality(Places(r.type, r.id, r.message, TRUE))
               = IF r.id # NoCall /\ Places(r.type, r.id, r.message, FALSE) # {} THEN 0 ELSE 1
  <2>1. r \in ImportRows /\ r.backfill = TRUE
    BY <1>1 DEF ImportRows
  <2>2. \A i \in DOMAIN table : i \in Places(r.type, r.id, r.message, TRUE) <=> table[i] = r
    <3>. SUFFICES ASSUME NEW i \in DOMAIN table, i \in Places(r.type, r.id, r.message, TRUE)
                  PROVE  table[i] = r
      BY <2>1
    <3>. QED  BY <1>2, <2>1 DEF ImportRows
  <2>3. Once(table, r)
    BY <1>3 DEF ImportInv, Traced
  <2>4. CASE \E i \in DOMAIN table : table[i] = r /\ \A j \in DOMAIN table : table[j] = r => j = i
    <3>1. PICK i \in DOMAIN table : table[i] = r /\ \A j \in DOMAIN table : table[j] = r => j = i
      BY <2>4
    <3>2. Places(r.type, r.id, r.message, TRUE) = {i}
      BY <2>2, <3>1
    <3>3. Cardinality(Places(r.type, r.id, r.message, TRUE)) = 1
      BY <3>2, FS_Singleton
    <3>4. r.id # NoCall => Places(r.type, r.id, r.message, FALSE) = {}
      <4>. SUFFICES ASSUME r.id # NoCall, NEW j \in Places(r.type, r.id, r.message, FALSE)
                    PROVE  FALSE
        OBVIOUS
      <4>1. j # i
        BY <2>1, <3>1
      <4>. QED  BY <1>1, <3>1, <4>1 DEF HalvesOnce
    <3>. QED  BY <3>3, <3>4
  <2>5. CASE /\ r.id # NoCall /\ r \notin ToSet(table)
             /\ \E x \in ToSet(table) : /\ x.type = r.type /\ x.id = r.id /\ x.message = r.message
                                        /\ ~x.backfill
    <3>1. Places(r.type, r.id, r.message, TRUE) = {}
      BY <2>2, <2>5 DEF ToSet
    <3>2. Cardinality(Places(r.type, r.id, r.message, TRUE)) = 0
      BY <3>1, FS_EmptySet
    <3>3. PICK j \in DOMAIN table :
            /\ table[j].type = r.type /\ table[j].id = r.id /\ table[j].message = r.message
            /\ ~table[j].backfill
      BY <2>5 DEF ToSet
    <3>4. table[j].backfill = FALSE
      BY <1>2, <3>3 DEF ImportRows
    <3>5. j \in Places(r.type, r.id, r.message, FALSE)
      BY <3>3, <3>4
    <3>. QED  BY <2>5, <3>2, <3>5
  <2>. QED  BY <2>3, <2>4, <2>5 DEF Once
<1>4. ~lost => \A r \in ToSet(table) : r.backfill => r \in basis.rows
  BY DEF ImportInv, Traced
<1>5. steps = basis.steps
  BY DEF ImportInv, Counted
<1>6. \A r \in reported : r \in ToSet(table) \/ Clashes(table, r)
  BY DEF ImportInv, Heard
<1>7. \A i, j \in DOMAIN table :
        i # j /\ table[i].id # NoCall /\ table[i].id = table[j].id => table[i].type # table[j].type
  BY <1>1 DEF HalvesOnce
<1>. QED  BY <1>3, <1>4, <1>5, <1>6, <1>7 DEF ImportedOnce

-----------------------------------------------------------------------------
(* opencode only adds to what it has said.                                 *)
(* opencode's record only ever grows.                                      *)
Grew ==
  /\ DOMAIN talk \subseteq DOMAIN talk'
  /\ \A m \in DOMAIN talk : /\ ToSet(talk[m].tools) \subseteq ToSet(talk'[m].tools)
                            /\ \A k \in Int : k < talk[m].steps => k < talk'[m].steps

LEMMA SaySpoken ==
  ASSUME Spoken, NEW role \in {"user", "assistant"}, Say(role)
  PROVE  Spoken' /\ Grew
<1>. DEFINE n == Len(talk)
            x == [role |-> role, tools |-> <<>>, steps |-> 0]
<1>1. talk \in Seq(Message) /\ talk' = Append(talk, x) /\ x \in Message
  BY DEF Spoken, Say, Message
<1>. HIDE DEF x
<1>2. /\ talk' \in Seq(Message) /\ n \in Nat /\ DOMAIN talk = 1 .. n
      /\ DOMAIN talk \subseteq DOMAIN talk' /\ n + 1 \in DOMAIN talk' /\ n + 1 \notin DOMAIN talk
      /\ \A m \in DOMAIN talk' : m \in DOMAIN talk \/ m = n + 1
      /\ talk'[n + 1] = x /\ \A m \in DOMAIN talk : talk'[m] = talk[m]
      /\ ToSet(talk') = ToSet(talk) \cup {x}
  BY <1>1, LongerBy
<1>. HIDE DEF n
<1>3. x.tools = <<>> /\ ToSet(x.tools) = {} /\ Single(x.tools)
  BY DEF x, ToSet, Single
<1>4. ToolsIn(talk') = ToolsIn(talk)
  BY <1>2, <1>3 DEF ToolsIn
<1>5. \E c : Numbers(c)'
  BY <1>4 DEF Spoken, Numbers
<1>6. \A m \in DOMAIN talk' : /\ talk'[m].role = "user" => talk'[m].tools = <<>>
                              /\ Single(talk'[m].tools)
  BY <1>2, <1>3 DEF Spoken
<1>7. \A m, k \in DOMAIN talk' : m # k => ToSet(talk'[m].tools) \cap ToSet(talk'[k].tools) = {}
  BY <1>2, <1>3 DEF Spoken
<1>8. Grew
  BY <1>2 DEF Grew
<1>. QED  BY <1>2, <1>5, <1>6, <1>7, <1>8 DEF Spoken

LEMMA WorkSpoken ==
  ASSUME Spoken, Work
  PROVE  Spoken' /\ Grew
<1>. DEFINE n == Len(talk)
            old == talk[n]
            new == talk'[n]
<1>1. /\ n \in Nat /\ n \in DOMAIN talk /\ DOMAIN talk = 1 .. n /\ talk \in Seq(Message)
      /\ old \in Message /\ old.role = "assistant"
  BY DEF Spoken, Work, Last
<1>2. PICK c \in Nat : ToolsIn(talk) = 1 .. c
  BY DEF Spoken, Numbers
<1>3. Cardinality(ToolsIn(talk)) = c /\ c + 1 \notin ToolsIn(talk)
  BY <1>2, FS_Interval
<1>4. \A m \in DOMAIN talk : ToSet(talk[m].tools) \subseteq ToolsIn(talk)
  BY DEF ToolsIn, ToSet
<1>5. /\ old.tools \in Seq(Nat) /\ old.steps \in Nat
      /\ DOMAIN old = {"role", "tools", "steps"}
  BY <1>1 DEF Message
<1>6. /\ DOMAIN talk' = DOMAIN talk /\ \A m \in DOMAIN talk : m # n => talk'[m] = talk[m]
      /\ \/ new = [old EXCEPT !.tools = Append(old.tools, c + 1)]
         \/ new = [old EXCEPT !.steps = old.steps + 1]
  <2>1. \/ talk' = [talk EXCEPT ![n] = [old EXCEPT !.tools = Append(old.tools, c + 1)]]
        \/ talk' = [talk EXCEPT ![n] = [old EXCEPT !.steps = old.steps + 1]]
    BY <1>3 DEF Work
  <2>. HIDE DEF old
  <2>2. PICK y :
          /\ talk' = [talk EXCEPT ![n] = y]
          /\ \/ y = [old EXCEPT !.tools = Append(old.tools, c + 1)]
             \/ y = [old EXCEPT !.steps = old.steps + 1]
    BY <2>1
  <2>3. DOMAIN talk' = DOMAIN talk /\ talk'[n] = y /\ \A m \in DOMAIN talk : m # n => talk'[m] = talk[m]
    <3>. HIDE DEF n, new
    <3>. QED  BY <1>1, <2>2
  <2>. QED  BY <2>2, <2>3
<1>. HIDE DEF n, old, new
<1>7. /\ new \in Message /\ new.role = old.role /\ Single(new.tools)
      /\ ToSet(old.tools) \subseteq ToSet(new.tools)
      /\ \A k \in Int : k < old.steps => k < new.steps
      /\ \/ ToSet(new.tools) = ToSet(old.tools)
         \/ ToSet(new.tools) = ToSet(old.tools) \cup {c + 1}
  <2>1. Single(old.tools) /\ c + 1 \notin ToSet(old.tools)
    BY <1>1, <1>3, <1>4 DEF Spoken, old
  <2>2. CASE new = [old EXCEPT !.tools = Append(old.tools, c + 1)]
    <3>1. new.tools = Append(old.tools, c + 1) /\ new.role = old.role /\ new.steps = old.steps
      BY <1>5, <2>2
    <3>. DEFINE t == old.tools
                len == Len(t)
                u == Append(t, c + 1)
    <3>2. /\ u \in Seq(Nat) /\ ToSet(u) = ToSet(t) \cup {c + 1}
          /\ \A i \in DOMAIN t : u[i] = t[i]
          /\ u[len + 1] = c + 1 /\ \A i \in DOMAIN u : i \in DOMAIN t \/ i = len + 1
      <4>1. t \in Seq(Nat) /\ c + 1 \in Nat
        BY <1>5
      <4>. HIDE DEF t
      <4>. QED  BY <4>1, LongerBy
    <3>3. \A i \in DOMAIN t : t[i] # c + 1
      BY <2>1 DEF ToSet
    <3>. HIDE DEF t, u, len
    <3>4. Single(u)
      BY <2>1, <3>2, <3>3 DEF Single, t
    <3>5. new \in Message
      BY <1>1, <2>2, <3>2 DEF Message, u, t
    <3>. QED  BY <3>1, <3>2, <3>4, <3>5 DEF u, t
  <2>3. CASE new = [old EXCEPT !.steps = old.steps + 1]
    <3>1. new.tools = old.tools /\ new.role = old.role /\ new.steps = old.steps + 1
      BY <1>5, <2>3
    <3>2. new = [role |-> old.role, tools |-> old.tools, steps |-> old.steps + 1]
      BY <1>1, <1>5, <2>3 DEF Message
    <3>4. new \in Message
      BY <1>1, <1>5, <3>2 DEF Message
    <3>3. \A k \in Int : k < old.steps => k < old.steps + 1
      BY <1>5
    <3>. QED  BY <2>1, <3>1, <3>3, <3>4
  <2>. QED  BY <1>6, <2>2, <2>3
<1>8. talk[n] = old /\ talk'[n] = new
  BY DEF old, new
<1>9. talk' \in Seq(Message)
  <2>1. \A m \in 1 .. n : talk'[m] \in Message
    BY <1>1, <1>6, <1>7, <1>8
  <2>2. talk' = [m \in 1 .. n |-> talk'[m]]
    BY <1>1, <1>6 DEF Work
  <2>. QED  BY <1>1, <2>1, <2>2
<1>10. \A m \in DOMAIN talk : ToSet(talk[m].tools) \subseteq 1 .. c
  BY <1>2, <1>4
<1>11. \E d : Numbers(d)'
  <2>1. ToolsIn(talk') = UNION {ToSet(talk'[m].tools) : m \in DOMAIN talk}
    BY <1>6 DEF ToolsIn, ToSet
  <2>2. 1 .. c = UNION {ToSet(talk[m].tools) : m \in DOMAIN talk}
    BY <1>2 DEF ToolsIn, ToSet
  <2>3. CASE ToSet(new.tools) = ToSet(old.tools)
    <3>1. \A m \in DOMAIN talk : ToSet(talk'[m].tools) = ToSet(talk[m].tools)
      BY <1>6, <1>8, <2>3
    <3>2. ToolsIn(talk') = 1 .. c
      BY <2>1, <2>2, <3>1
    <3>. QED  BY <3>2 DEF Numbers
  <2>4. CASE ToSet(new.tools) = ToSet(old.tools) \cup {c + 1}
    <3>1. \A m \in DOMAIN talk : m # n => ToSet(talk'[m].tools) = ToSet(talk[m].tools)
      BY <1>6
    <3>2. ToolsIn(talk') = (1 .. c) \cup {c + 1}
      <4>1. \A id : id \in ToolsIn(talk') <=> \E m \in DOMAIN talk : id \in ToSet(talk'[m].tools)
        BY <2>1
      <4>2. \A id : id \in 1 .. c <=> \E m \in DOMAIN talk : id \in ToSet(talk[m].tools)
        BY <2>2
      <4>3. \A id : id \in ToSet(talk'[n].tools) <=> id \in ToSet(talk[n].tools) \/ id = c + 1
        BY <1>8, <2>4
      <4>4. \A id : id \in ToolsIn(talk') <=> id \in 1 .. c \/ id = c + 1
        BY <1>1, <3>1, <4>1, <4>2, <4>3, Zenon
      <4>. QED  BY <4>4
    <3>3. (1 .. c) \cup {c + 1} = 1 .. c + 1 /\ c + 1 \in Nat
      OBVIOUS
    <3>. QED  BY <3>2, <3>3 DEF Numbers
  <2>. QED  BY <1>7, <2>3, <2>4
<1>12. \A m \in DOMAIN talk' : /\ talk'[m].role = "user" => talk'[m].tools = <<>>
                               /\ Single(talk'[m].tools)
  BY <1>1, <1>6, <1>7, <1>8 DEF Spoken
<1>13. \A m, k \in DOMAIN talk' : m # k => ToSet(talk'[m].tools) \cap ToSet(talk'[k].tools) = {}
  <2>1. \A m \in DOMAIN talk : c + 1 \notin ToSet(talk[m].tools)
    BY <1>10
  <2>2. \A m, k \in DOMAIN talk : m # k => ToSet(talk[m].tools) \cap ToSet(talk[k].tools) = {}
    BY DEF Spoken
  <2>3. \A m \in DOMAIN talk : /\ m # n => ToSet(talk'[m].tools) = ToSet(talk[m].tools)
                               /\ ToSet(talk'[m].tools) \subseteq ToSet(talk[m].tools) \cup {c + 1}
    BY <1>6, <1>7, <1>8
  <2>. SUFFICES ASSUME NEW m \in DOMAIN talk, NEW k \in DOMAIN talk, m # k, NEW id,
                       id \in ToSet(talk'[m].tools), id \in ToSet(talk'[k].tools)
                PROVE  FALSE
    BY <1>6
  <2>4. id # c + 1
    BY <2>1, <2>3
  <2>. QED  BY <2>2, <2>3, <2>4
<1>14. Grew
  BY <1>6, <1>7, <1>8 DEF Grew
<1>. QED  BY <1>9, <1>11, <1>12, <1>13, <1>14 DEF Spoken

LEMMA TalkStep ==
  ASSUME Spoken, [NextImport]_import_vars
  PROVE  Spoken' /\ Grew
<1>1. ASSUME NEW role \in {"user", "assistant"}, Say(role) PROVE Spoken' /\ Grew
  BY <1>1, SaySpoken
<1>2. CASE Work
  BY <1>2, WorkSpoken
<1>3. CASE UNCHANGED talk
  BY <1>3 DEF Spoken, Grew, Numbers
<1>4. \/ \E role \in {"user", "assistant"} : Say(role)
      \/ Work
      \/ UNCHANGED talk
  BY DEF NextImport, Rest, Import, CursorLost, Live, import_vars, source
<1>. QED  BY <1>1, <1>2, <1>3, <1>4

(* What a call or a step belongs to, it belongs to for good.               *)
LEMMA GrewKeeps ==
  ASSUME Spoken, Spoken', Grew
  PROVE  (\A r : Half(r) => Half(r)') /\ BuildUsage \subseteq BuildUsage'
<1>1. ASSUME NEW r, Half(r) PROVE Half(r)'
  BY <1>1 DEF Half, Grew
<1>2. BuildUsage \subseteq BuildUsage'
  <2>. SUFFICES ASSUME NEW s \in BuildUsage PROVE s \in BuildUsage'
    OBVIOUS
  <2>1. s \in StepsRead /\ s.step < talk[s.message].steps
    BY DEF BuildUsage
  <2>2. s \in StepsRead'
    BY <2>1 DEF StepsRead, Grew
  <2>3. s.message \in DOMAIN talk /\ s.step \in Int
    BY <2>1 DEF StepsRead
  <2>4. s.step < talk'[s.message].steps
    BY <2>1, <2>3 DEF Grew
  <2>. QED  BY <2>2, <2>4 DEF BuildUsage
<1>. QED  BY <1>1, <1>2

-----------------------------------------------------------------------------
(* What is left of the table when the import begins to insert.             *)
LEMMA LeftAlone ==
  ASSUME Filed, NEW force \in BOOLEAN
  PROVE  LET t == Cleared(table, force)
         IN /\ t \in Seq(ImportRows) /\ HalvesOnce(t) /\ ToSet(t) \subseteq ToSet(table)
            /\ \A r \in ToSet(table) : ~r.backfill => r \in ToSet(t)
            /\ force => \A r \in ToSet(t) : ~r.backfill
<1>1. table \in Seq(ImportRows) /\ HalvesOnce(table)
  BY DEF Filed
<1>2. CASE force
  BY <1>1, <1>2, LiveLeft DEF Cleared
<1>3. CASE ~force
  BY <1>1, <1>3 DEF Cleared
<1>. QED  BY <1>2, <1>3

(* No cursor was lost, or --force: the import begins with what the plugin  *)
(* reported, and ends with its own rows beside that.                       *)
LEMMA ImportedFirst ==
  ASSUME Spoken, NEW old \in Seq(ImportRows), NEW new, Grows(old, BuildRows, new),
         \A r \in ToSet(old) : ~r.backfill, \A r \in ToSet(old) : r.id # NoCall => Half(r)
  PROVE  /\ \A r \in ToSet(BuildRows) : Once(new, r)
         /\ \A r \in ToSet(new) : r.backfill => r \in ToSet(BuildRows)
<1>1. \A r \in ToSet(BuildRows) : r.backfill /\ (r.id # NoCall => Half(r))
  BY BuiltOnce
<1>2. \A i \in DOMAIN old : i \in DOMAIN new /\ new[i] = old[i] /\ old[i] \in ToSet(old)
  BY DEF Grows, ToSet
<1>3. \A i \in DOMAIN new : i \in DOMAIN old \/ i \in DOMAIN new \ DOMAIN old
  OBVIOUS
<1>4. ASSUME NEW r \in ToSet(BuildRows) PROVE Once(new, r)
  <2>1. CASE Clashes(old, r)
    <3>1. r.id # NoCall /\ \E i \in DOMAIN old : old[i].id = r.id /\ old[i].type = r.type
      BY <2>1 DEF Clashes, ToSet
    <3>2. PICK i \in DOMAIN old : old[i].id = r.id /\ old[i].type = r.type
      BY <3>1
    <3>. DEFINE x == old[i]
    <3>3. x \in ToSet(new) /\ new[i] = x /\ i \in DOMAIN new /\ ~x.backfill
      BY <1>2 DEF ToSet
    <3>4. Half(x) /\ Half(r)
      BY <1>1, <1>2, <3>1, <3>2
    <3>5. x.message = r.message
      BY <3>2, <3>4 DEF Half, Spoken
    <3>6. r \notin ToSet(new)
      <4>. SUFFICES ASSUME NEW j \in DOMAIN new, new[j] = r PROVE FALSE
        BY DEF ToSet
      <4>1. j # i
        BY <1>1, <3>3
      <4>. QED  BY <3>1, <3>2, <3>3, <4>1 DEF Grows, HalvesOnce
    <3>. HIDE DEF x
    <3>7. x.type = r.type /\ x.id = r.id
      BY <3>2 DEF x
    <3>. QED  BY <3>1, <3>3, <3>5, <3>6, <3>7 DEF Once
  <2>2. CASE \E i \in DOMAIN new \ DOMAIN old : new[i] = r
    <3>1. PICK i \in DOMAIN new \ DOMAIN old : new[i] = r
      BY <2>2
    <3>2. \A j \in DOMAIN new : new[j] = r => j = i
      <4>1. \A j \in DOMAIN old : new[j] # r
        BY <1>1, <1>2
      <4>2. \A j \in DOMAIN new \ DOMAIN old : new[j] = r => j = i
        BY <3>1 DEF Grows
      <4>. QED  BY <1>3, <4>1, <4>2
    <3>. QED  BY <3>1, <3>2 DEF Once
  <2>. QED  BY <2>1, <2>2 DEF Grows
<1>5. ASSUME NEW i \in DOMAIN new, new[i].backfill PROVE new[i] \in ToSet(BuildRows)
  BY <1>2, <1>3, <1>5 DEF Grows
<1>. QED  BY <1>4, <1>5 DEF ToSet

(* A run of the import keeps the invariant, wherever its cursor ends up.   *)
LEMMA ImportStep ==
  ASSUME ImportInv, NEW force \in BOOLEAN, Import(force)
  PROVE  Filed' /\ Traced' /\ Counted' /\ Heard'
<1>. DEFINE old == Cleared(table, force)
<1>1. Spoken /\ Filed /\ Traced /\ Counted /\ Heard
  BY DEF ImportInv
<1>2. /\ table' = FoldLeft(Inserted, old, BuildRows)
      /\ steps' = (IF force THEN {} ELSE steps) \cup BuildUsage
      /\ seen' \in {seen, TRUE} /\ lost' = ((lost /\ ~force) \/ ~seen')
      /\ basis'.rows = ToSet(BuildRows) /\ basis'.steps = BuildUsage
      /\ talk' = talk /\ reported' = reported /\ (force \/ ~seen)
  BY DEF Import, source
<1>3. /\ old \in Seq(ImportRows) /\ HalvesOnce(old) /\ ToSet(old) \subseteq ToSet(table)
      /\ \A r \in ToSet(table) : ~r.backfill => r \in ToSet(old)
      /\ force => \A r \in ToSet(old) : ~r.backfill
  BY <1>1, LeftAlone
<1>. HIDE DEF old
<1>4. /\ BuildRows \in Seq(ImportRows) /\ Single(BuildRows) /\ HalvesOnce(BuildRows)
      /\ \A r \in ToSet(BuildRows) : r.backfill /\ (r.id # NoCall => Half(r))
      /\ \A r \in ImportRows : Half(r) /\ r.backfill => r \in ToSet(BuildRows)
  BY <1>1, BuiltOnce
<1>5. Grows(old, BuildRows, table')
  BY <1>2, <1>3, <1>4, InsertedGrows
<1>6. ToSet(old) \subseteq ToSet(table') /\ ToSet(table') \subseteq ToSet(old) \cup ToSet(BuildRows)
  <2>1. \A i \in DOMAIN old : i \in DOMAIN table' /\ table'[i] = old[i]
    BY <1>5 DEF Grows
  <2>2. \A i \in DOMAIN table' : table'[i] \in ToSet(old) \cup ToSet(BuildRows)
    BY <1>5, <2>1 DEF Grows, ToSet
  <2>. QED  BY <2>1, <2>2 DEF ToSet
<1>7. \A r \in ToSet(old) : r.id # NoCall => Half(r)
  BY <1>1, <1>3 DEF Filed
<1>8. \A r : Half(r)' <=> Half(r)
  BY <1>2 DEF Half
<1>9. Filed'
  <2>1. table' \in Seq(ImportRows) /\ HalvesOnce(table)'
    BY <1>5 DEF Grows, HalvesOnce
  <2>2. reported' \in SUBSET ImportRows /\ basis'.rows \in SUBSET ImportRows
    BY <1>1, <1>2, <1>4 DEF Filed, ToSet
  <2>3. \A r \in ToSet(table') \cup reported' \cup basis'.rows : r.id # NoCall => Half(r)
    BY <1>1, <1>2, <1>4, <1>6, <1>7 DEF Filed
  <2>4. (\A r \in basis'.rows : r.backfill) /\ \A r \in reported' : ~r.backfill
    BY <1>1, <1>2, <1>4 DEF Filed
  <2>. QED  BY <1>8, <2>1, <2>2, <2>3, <2>4 DEF Filed
<1>10. Traced'
  <2>. SUFFICES ASSUME ~lost'
                PROVE  /\ \A r \in basis'.rows : Once(table, r)'
                       /\ \A r \in ToSet(table') : r.backfill => r \in basis'.rows
                       /\ seen'
    BY DEF Traced
  <2>1. seen' /\ (force \/ ~lost)
    BY <1>2
  <2>2. \A r \in ToSet(old) : ~r.backfill
    <3>1. CASE force
      BY <1>3, <3>1
    <3>2. CASE ~force
      BY <1>1, <1>2, <1>3, <2>1, <3>2 DEF Traced
    <3>. QED  BY <3>1, <3>2
  <2>3. /\ \A r \in ToSet(BuildRows) : Once(table', r)
        /\ \A r \in ToSet(table') : r.backfill => r \in ToSet(BuildRows)
    BY <1>1, <1>3, <1>5, <1>7, <2>2, ImportedFirst
  <2>4. \A r : Once(table', r) <=> Once(table, r)'
    BY DEF Once
  <2>. QED  BY <1>2, <2>1, <2>3, <2>4
<1>11. Counted'
  <2>1. BuildUsage' = BuildUsage
    BY <1>2 DEF BuildUsage, StepsRead
  <2>. QED  BY <1>1, <1>2, <2>1 DEF Counted
<1>12. Heard'
  <2>. SUFFICES ASSUME NEW r \in reported PROVE r \in ToSet(table') \/ Clashes(table', r)
    BY <1>2 DEF Heard, Clashes
  <2>1. r \in ImportRows /\ ~r.backfill /\ (r.id # NoCall => Half(r))
    BY <1>1 DEF Filed
  <2>2. CASE r \in ToSet(table)
    BY <1>3, <1>6, <2>1, <2>2
  <2>3. CASE Clashes(table, r)
    <3>. DEFINE x == [r EXCEPT !.backfill = TRUE]
    <3>1. r.id # NoCall
      BY <2>3 DEF Clashes
    <3>2. /\ x \in ImportRows /\ x.backfill /\ x.id = r.id /\ x.type = r.type
          /\ x.message = r.message
      BY <2>1 DEF ImportRows
    <3>. HIDE DEF x
    <3>3. Half(x)
      BY <2>1, <3>1, <3>2 DEF Half
    <3>4. x \in ToSet(BuildRows)
      BY <1>4, <3>2, <3>3
    <3>5. Clashes(old, x) \/ x \in ToSet(table')
      BY <1>5, <3>4 DEF Grows, ToSet
    <3>6. Clashes(table', x)
      BY <1>6, <3>1, <3>2, <3>5 DEF Clashes
    <3>. QED  BY <3>2, <3>6 DEF Clashes
  <2>. QED  BY <1>1, <2>2, <2>3 DEF Heard
<1>. QED  BY <1>9, <1>10, <1>11, <1>12

-----------------------------------------------------------------------------
(* A row of the plugin disturbs none of the import.                        *)
LEMMA LiveAdded ==
  ASSUME NEW t \in Seq(ImportRows), HalvesOnce(t), NEW x \in ImportRows, ~x.backfill,
         ~Clashes(t, x)
  PROVE  LET a == Append(t, x)
         IN /\ a \in Seq(ImportRows) /\ HalvesOnce(a) /\ ToSet(a) = ToSet(t) \cup {x}
            /\ \A r : r.backfill /\ Once(t, r) => Once(a, r)
            /\ \A r : Clashes(t, r) => Clashes(a, r)
<1>. DEFINE a == Append(t, x)
            n == Len(t)
<1>1. /\ a \in Seq(ImportRows) /\ ToSet(a) = ToSet(t) \cup {x}
      /\ DOMAIN t \subseteq DOMAIN a /\ a[n + 1] = x /\ \A i \in DOMAIN t : a[i] = t[i]
      /\ \A i \in DOMAIN a : i \in DOMAIN t \/ i = n + 1
  BY LongerBy
<1>2. HalvesOnce(a)
  BY NoClash
<1>. HIDE DEF a, n
<1>3. ASSUME NEW r, r.backfill, Once(t, r) PROVE Once(a, r)
  <2>1. r # x
    BY <1>3
  <2>2. CASE \E i \in DOMAIN t : t[i] = r /\ \A j \in DOMAIN t : t[j] = r => j = i
    BY <1>1, <2>1, <2>2 DEF Once
  <2>3. CASE ~(\E i \in DOMAIN t : t[i] = r /\ \A j \in DOMAIN t : t[j] = r => j = i)
    BY <1>1, <1>3, <2>1, <2>3 DEF Once
  <2>. QED  BY <2>2, <2>3
<1>4. \A r : Clashes(t, r) => Clashes(a, r)
  BY <1>1 DEF Clashes
<1>. QED  BY <1>1, <1>2, <1>3, <1>4 DEF a

LEMMA LiveStep ==
  ASSUME ImportInv, Live
  PROVE  Filed' /\ Traced' /\ Counted' /\ Heard'
<1>. DEFINE m == Len(talk)
            start == LiveRow("SessionStart", NoCall, 0)
<1>1. Spoken /\ Filed /\ Traced /\ Counted /\ Heard
  BY DEF ImportInv
<1>2. PICK live \in Prompts(m) \cup Halves(m) \cup BusEvents(m), rows \in Touched(table) :
        table' = Inserted(rows, live) /\ reported' = reported \cup {live}
  BY DEF Live
<1>3. /\ talk # <<>> /\ talk' = talk /\ steps' = steps /\ seen' = seen /\ lost' = lost
      /\ basis' = basis
  BY DEF Live, source
<1>4. m \in DOMAIN talk /\ m \in Nat /\ talk[m].tools \in Seq(Nat)
  <2>1. m \in DOMAIN talk /\ m \in Nat /\ talk[m] \in Message
    BY <1>1, <1>3 DEF Spoken
  <2>. QED  BY <2>1 DEF Message
<1>5. live \in ImportRows /\ ~live.backfill /\ (live.id # NoCall => Half(live))
  <2>. HIDE DEF m
  <2>1. CASE live \in Halves(m)
    <3>1. PICK type \in HalfTypes, id \in ToSet(talk[m].tools) : live = LiveRow(type, id, m)
      BY <2>1 DEF Halves, HalfTypes
    <3>2. id \in Nat
      BY <1>4, <3>1 DEF ToSet
    <3>3. live = [type |-> type, id |-> id, message |-> m, backfill |-> FALSE]
      BY <3>1 DEF LiveRow, ImportRow
    <3>. QED  BY <1>4, <3>1, <3>2, <3>3 DEF ImportRows, Half
  <2>2. CASE live \in Prompts(m) \cup BusEvents(m)
    <3>1. PICK type \in {"UserPromptSubmit", "Stop", "SessionEnd"}, k \in {0, m} :
            live = [type |-> type, id |-> NoCall, message |-> k, backfill |-> FALSE]
      BY <2>2 DEF Prompts, BusEvents, LiveRow, ImportRow
    <3>. QED  BY <1>4, <3>1 DEF ImportRows
  <2>. QED  BY <1>2, <2>1, <2>2
<1>6. start \in ImportRows /\ ~start.backfill /\ start.id = NoCall
  BY DEF LiveRow, ImportRow, ImportRows
<1>. HIDE DEF start, m
<1>. DEFINE Keeps(t, u) ==
              /\ u \in Seq(ImportRows) /\ HalvesOnce(u)
              /\ ToSet(t) \subseteq ToSet(u)
              /\ \A r \in ToSet(u) \ ToSet(t) : ~r.backfill /\ r \in {start, live}
              /\ \A r : r.backfill /\ Once(t, r) => Once(u, r)
              /\ \A r : Clashes(t, r) => Clashes(u, r)
<1>7. Keeps(table, rows)
  <2>1. table \in Seq(ImportRows) /\ HalvesOnce(table)
    BY <1>1 DEF Filed
  <2>2. ~Clashes(table, start)
    BY <1>6 DEF Clashes
  <2>3. rows = table \/ rows = Append(table, start)
    BY <1>2 DEF Touched, start
  <2>4. CASE rows = table
    BY <2>1, <2>4
  <2>5. CASE rows = Append(table, start)
    BY <1>6, <2>1, <2>2, <2>5, LiveAdded
  <2>. QED  BY <2>3, <2>4, <2>5
<1>8. Keeps(rows, table') /\ (live \in ToSet(table') \/ Clashes(table', live))
  <2>1. rows \in Seq(ImportRows) /\ HalvesOnce(rows)
    BY <1>7
  <2>2. CASE Clashes(rows, live)
    <3>1. table' = rows
      BY <1>2, <2>2 DEF Inserted
    <3>. QED  BY <2>1, <2>2, <3>1
  <2>3. CASE ~Clashes(rows, live)
    <3>1. table' = Append(rows, live)
      BY <1>2, <2>3 DEF Inserted
    <3>. QED  BY <1>5, <2>1, <2>3, <3>1, LiveAdded
  <2>. QED  BY <2>2, <2>3
<1>9. /\ table' \in Seq(ImportRows) /\ HalvesOnce(table')
      /\ ToSet(table) \subseteq ToSet(table')
      /\ \A r \in ToSet(table') \ ToSet(table) : ~r.backfill /\ r \in {start, live}
      /\ \A r : r.backfill /\ Once(table, r) => Once(table', r)
      /\ \A r : Clashes(table, r) => Clashes(table', r)
  <2>1. \A r \in ToSet(table') \ ToSet(table) : r \in ToSet(rows) \ ToSet(table) \/ r \in ToSet(table') \ ToSet(rows)
    OBVIOUS
  <2>. QED  BY <1>7, <1>8, <2>1
<1>. HIDE DEF Keeps
<1>10. \A r : Half(r)' <=> Half(r)
  BY <1>3 DEF Half
<1>11. Filed'
  <2>1. table' \in Seq(ImportRows) /\ HalvesOnce(table)'
    BY <1>9 DEF HalvesOnce
  <2>2. reported' \in SUBSET ImportRows /\ basis'.rows \in SUBSET ImportRows
    BY <1>1, <1>2, <1>3, <1>5 DEF Filed
  <2>3. \A r \in ToSet(table') \cup reported' \cup basis'.rows : r.id # NoCall => Half(r)
    BY <1>1, <1>2, <1>3, <1>5, <1>6, <1>9 DEF Filed
  <2>4. (\A r \in basis'.rows : r.backfill) /\ \A r \in reported' : ~r.backfill
    BY <1>1, <1>2, <1>3, <1>5 DEF Filed
  <2>. QED  BY <1>10, <2>1, <2>2, <2>3, <2>4 DEF Filed
<1>12. Traced'
  <2>. SUFFICES ASSUME ~lost
                PROVE  /\ \A r \in basis.rows : Once(table, r)'
                       /\ \A r \in ToSet(table') : r.backfill => r \in basis.rows
                       /\ ~seen => basis.rows = {}
    BY <1>3 DEF Traced
  <2>1. \A r : Once(table', r) <=> Once(table, r)'
    BY DEF Once
  <2>2. \A r \in basis.rows : r.backfill /\ Once(table, r)
    BY <1>1 DEF Filed, Traced
  <2>3. \A r \in ToSet(table') : r.backfill => r \in basis.rows
    BY <1>1, <1>9 DEF Traced
  <2>4. ~seen => basis.rows = {}
    BY <1>1 DEF Traced
  <2>. QED  BY <1>9, <2>1, <2>2, <2>3, <2>4
<1>13. Counted'
  <2>1. BuildUsage' = BuildUsage
    BY <1>3 DEF BuildUsage, StepsRead
  <2>. QED  BY <1>1, <1>3, <2>1 DEF Counted
<1>14. Heard'
  <2>. SUFFICES ASSUME NEW r \in reported \cup {live} PROVE r \in ToSet(table') \/ Clashes(table', r)
    BY <1>2 DEF Heard, Clashes
  <2>. QED  BY <1>1, <1>8, <1>9 DEF Heard
<1>. QED  BY <1>11, <1>12, <1>13, <1>14

LEMMA ImportInvStep == ImportInv /\ [NextImport]_import_vars => ImportInv'
<1>. SUFFICES ASSUME ImportInv, [NextImport]_import_vars PROVE ImportInv'
  OBVIOUS
<1>1. Spoken' /\ Grew
  BY TalkStep DEF ImportInv
<1>2. (\A r : Half(r) => Half(r)') /\ BuildUsage \subseteq BuildUsage'
  BY <1>1, GrewKeeps DEF ImportInv
<1>3. CASE \E force \in BOOLEAN : Import(force)
  BY <1>1, <1>3, ImportStep DEF ImportInv
<1>4. CASE Live
  BY <1>1, <1>4, LiveStep DEF ImportInv
<1>5. CASE /\ UNCHANGED <<table, steps, basis, reported>>
           /\ lost' \/ (lost' = lost /\ seen' = seen)
  <2>1. Filed'
    BY <1>2, <1>5 DEF ImportInv, Filed, HalvesOnce
  <2>2. Traced'
    BY <1>5 DEF ImportInv, Traced, Once
  <2>3. Counted' /\ Heard'
    BY <1>2, <1>5 DEF ImportInv, Counted, Heard, Clashes
  <2>. QED  BY <1>1, <2>1, <2>2, <2>3 DEF ImportInv
<1>6. \/ \E force \in BOOLEAN : Import(force)
      \/ Live
      \/ /\ UNCHANGED <<table, steps, basis, reported>>
         /\ lost' \/ (lost' = lost /\ seen' = seen)
  BY DEF NextImport, Say, Work, Rest, CursorLost, import_vars, source, database, history
<1>. QED  BY <1>3, <1>4, <1>5, <1>6

(* However often a session is imported, with and without --force, while it *)
(* grows and the plugin reports it, and whichever runs die before or after *)
(* their cursor is written: half a call is stored once, and the import's   *)
(* rows are those of its last run (writeRows, backfill.mjs).               *)
THEOREM AlwaysImportedOnce == SpecImport => []ImportedOnce
<1>. QED  BY ImportInit, ImportInvStep, ImportInvImplies, PTL DEF SpecImport
=============================================================================
