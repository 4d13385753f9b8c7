--------------------------- MODULE CollectorProofs ---------------------------
(***************************************************************************)
(* What holds of Collector for every number of events, every queue and     *)
(* batch size and any number of crashes and restarts.                      *)
(***************************************************************************)
EXTENDS Collector, FiniteSetTheorems, TLAPS

INSTANCE SequenceFolds WITH op <- LAMBDA total, r : total + r.size

(* A subset of the indices of a batch has a cardinality between 0 and the  *)
(* length of the batch: what AfterInserts subtracts is never negative.     *)
LEMMA BadRows ==
  ASSUME NEW batch \in Seq(Rec), NEW bad \in SUBSET DOMAIN batch
  PROVE  Cardinality(bad) \in 0 .. Len(batch)
<1>1. DOMAIN batch = 1 .. Len(batch) /\ Len(batch) \in Nat
  OBVIOUS
<1>2. IsFiniteSet(1 .. Len(batch)) /\ Cardinality(1 .. Len(batch)) = Len(batch)
  <2>1. 1 \in Int /\ Len(batch) \in Int
    BY <1>1
  <2>2. /\ IsFiniteSet(1 .. Len(batch))
        /\ Cardinality(1 .. Len(batch)) = IF 1 > Len(batch) THEN 0 ELSE Len(batch) - 1 + 1
    BY <2>1, FS_Interval
  <2>. QED  BY <1>1, <2>2
<1>3. /\ IsFiniteSet(bad)
      /\ Cardinality(bad) <= Cardinality(1 .. Len(batch))
  BY <1>1, <1>2, FS_Subset
<1>4. Cardinality(bad) \in Nat
  BY <1>3, FS_CardinalityType
<1>. QED  BY <1>1, <1>2, <1>3, <1>4

(* Counting n in a counter keeps the counters well typed.                  *)
LEMMA IncType ==
  ASSUME NEW st \in [Counters -> Nat], NEW c \in Counters, NEW n \in Nat
  PROVE  /\ Inc(st, c, n) \in [Counters -> Nat]
         /\ Inc(st, c, n)[c] = st[c] + n
         /\ \A d \in Counters : d # c => Inc(st, c, n)[d] = st[d]
BY DEF Inc

LEMMA IncOne ==
  ASSUME NEW st \in [Counters -> Nat], NEW c \in Counters
  PROVE  /\ Inc(st, c, 1) \in [Counters -> Nat]
         /\ Inc(st, c, 1)[c] = st[c] + 1
         /\ \A d \in Counters : d # c => Inc(st, c, 1)[d] = st[d]
BY DEF Inc

(* The two halves of what flush() splices are sequences of records.        *)
LEMMA Splice ==
  ASSUME NEW queue \in Seq(Rec), BatchRows \in Nat \ {0}
  PROVE  /\ BatchOf(queue) \in Seq(Rec)
         /\ RestOf(queue) \in Seq(Rec)
         /\ Len(BatchOf(queue)) <= Len(queue)
         /\ queue # <<>> => Len(BatchOf(queue)) > 0
         /\ Len(queue) <= BatchRows => RestOf(queue) = <<>>
         /\ Len(RestOf(queue)) = Len(queue) - Len(BatchOf(queue))
         /\ \A i \in DOMAIN BatchOf(queue) : i \in DOMAIN queue /\ BatchOf(queue)[i] = queue[i]
         /\ \A i \in DOMAIN RestOf(queue) :
              /\ Len(BatchOf(queue)) + i \in DOMAIN queue
              /\ RestOf(queue)[i] = queue[Len(BatchOf(queue)) + i]
<1>. DEFINE n == IF Len(queue) < BatchRows THEN Len(queue) ELSE BatchRows
<1>1. n \in Nat /\ n <= Len(queue) /\ (queue # <<>> => n > 0) /\ (Len(queue) <= BatchRows => n = Len(queue))
  OBVIOUS
<1>2. BatchOf(queue) = SubSeq(queue, 1, n)
  BY DEF BatchOf
<1>. HIDE DEF n
<1>3. /\ BatchOf(queue) \in Seq(Rec)
      /\ Len(BatchOf(queue)) = n
      /\ \A i \in 1 .. n : BatchOf(queue)[i] = queue[i]
  BY <1>1, <1>2
<1>4. RestOf(queue) = SubSeq(queue, n + 1, Len(queue))
  BY <1>3 DEF RestOf
<1>5. /\ RestOf(queue) \in Seq(Rec)
      /\ Len(RestOf(queue)) = Len(queue) - n
      /\ \A i \in 1 .. Len(queue) - n : RestOf(queue)[i] = queue[n + i]
  BY <1>1, <1>4
<1>6. Len(queue) <= BatchRows => RestOf(queue) = <<>>
  BY <1>1, <1>5
<1>7. /\ DOMAIN BatchOf(queue) = 1 .. n
      /\ DOMAIN RestOf(queue) = 1 .. Len(queue) - n
      /\ DOMAIN queue = 1 .. Len(queue)
  BY <1>1, <1>3, <1>5
<1>8. \A i \in DOMAIN BatchOf(queue) : i \in DOMAIN queue /\ BatchOf(queue)[i] = queue[i]
  <2>1. 1 .. n \subseteq 1 .. Len(queue)
    BY <1>1
  <2>. QED  BY <1>3, <1>7, <2>1, Zenon
<1>9. \A i \in DOMAIN RestOf(queue) :
        /\ Len(BatchOf(queue)) + i \in DOMAIN queue
        /\ RestOf(queue)[i] = queue[Len(BatchOf(queue)) + i]
  BY <1>1, <1>3, <1>5, <1>7
<1>. QED  BY <1>1, <1>3, <1>5, <1>6, <1>8, <1>9

-----------------------------------------------------------------------------
(* What a handler that writes leaves behind.  After(queue, n, table): of   *)
(* the rows it found waiting, the first n are gone from the queue, and     *)
(* what is new in the table is among those n.                              *)
After(queue, n, table) ==
  /\ q' \in Seq(Rec)
  /\ Len(q') = Len(queue) - n
  /\ \A i \in DOMAIN q' : n + i \in DOMAIN queue /\ q'[i] = queue[n + i]
  /\ events \subseteq table
  /\ \A r \in table \ events : db /\ \E i \in 1 .. n : i \in DOMAIN queue /\ r = queue[i]

(* The requests counted are those handleEvents counts: no write path       *)
(* touches those counters.                                                 *)
RequestCounters == {"received", "accepted", "duplicate", "rejected"}
SameRequests(st) == \A c \in RequestCounters : stats'[c] = st[c]

(* Inserting a batch, committed or not, counts each of its rows once as    *)
(* flushed or bad.                                                         *)
LEMMA AfterInsertsType ==
  ASSUME NEW st \in [Counters -> Nat], NEW batch \in Seq(Rec), NEW bad \in SUBSET DOMAIN batch
  PROVE  /\ AfterInserts(st, batch, bad) \in [Counters -> Nat]
         /\ AfterInserts(st, batch, bad)["flushed"] + AfterInserts(st, batch, bad)["bad_row"]
              = st["flushed"] + st["bad_row"] + Len(batch)
         /\ \A c \in Counters \ {"flushed", "bad_row"} : AfterInserts(st, batch, bad)[c] = st[c]
<1>1. Cardinality(bad) \in 0 .. Len(batch) /\ Len(batch) \in Nat
  BY BadRows
<1>2. /\ Cardinality(bad) \in Nat
      /\ Len(batch) - Cardinality(bad) \in Nat
  BY <1>1
<1>3. "flushed" \in Counters /\ "bad_row" \in Counters /\ "flushed" # "bad_row"
  BY DEF Counters
<1>. DEFINE s1 == Inc(st, "flushed", Len(batch) - Cardinality(bad))
<1>4. /\ s1 \in [Counters -> Nat]
      /\ s1["flushed"] = st["flushed"] + (Len(batch) - Cardinality(bad))
      /\ \A d \in Counters : d # "flushed" => s1[d] = st[d]
  BY <1>2, <1>3, IncType
<1>. HIDE DEF s1
<1>. DEFINE s2 == Inc(s1, "bad_row", Cardinality(bad))
<1>5. /\ s2 \in [Counters -> Nat]
      /\ s2["bad_row"] = s1["bad_row"] + Cardinality(bad)
      /\ \A d \in Counters : d # "bad_row" => s2[d] = s1[d]
  BY <1>2, <1>3, <1>4, IncType
<1>6. AfterInserts(st, batch, bad) = s2
  BY DEF AfterInserts, s1
<1>. HIDE DEF s2
<1>7. s2["flushed"] + s2["bad_row"] = st["flushed"] + st["bad_row"] + Len(batch)
  <2>1. st["flushed"] \in Nat /\ st["bad_row"] \in Nat
    BY <1>3
  <2>2. s2["flushed"] = st["flushed"] + (Len(batch) - Cardinality(bad))
    BY <1>3, <1>4, <1>5
  <2>3. s2["bad_row"] = st["bad_row"] + Cardinality(bad)
    BY <1>3, <1>4, <1>5
  <2>. QED  BY <1>1, <2>1, <2>2, <2>3
<1>8. \A c \in Counters \ {"flushed", "bad_row"} : s2[c] = st[c]
  BY <1>4, <1>5
<1>. QED  BY <1>5, <1>6, <1>7, <1>8

(* The rows the counters account for, and what a write of n rows does to   *)
(* the counters: each row once, or once more than that when it spilled.    *)
Handled(st) == st["flushed"] + st["bad_row"] + st["dropped_queue"]
Accounts(st, n) ==
  /\ stats' \in [Counters -> Nat]
  /\ SameRequests(st)
  /\ Handled(stats') <= Handled(st) + n
  /\ Handled(st) + st["spilled"] + n <= Handled(stats') + stats'["spilled"]

LEMMA HandledType ==
  ASSUME NEW st \in [Counters -> Nat]
  PROVE  Handled(st) \in Nat /\ st["spilled"] \in Nat
BY DEF Handled, Counters

LEMMA CommitEffect ==
  ASSUME events \subseteq Rec,
         NEW batch \in Seq(Rec), NEW st \in [Counters -> Nat], NEW table,
         Commit(batch, st, table)
  PROVE  /\ table \subseteq Rec /\ spillFile' = spillFile
         /\ events \subseteq table
         /\ \A r \in table \ events : \E i \in DOMAIN batch : r = batch[i]
         /\ Accounts(st, Len(batch))
<1>1. PICK bad \in SUBSET DOMAIN batch, ins \in SUBSET DOMAIN batch :
        /\ table = events \cup {batch[i] : i \in ins}
        /\ stats' = AfterInserts(st, batch, bad)
        /\ spillFile' = spillFile
  BY DEF Commit
<1>2. \A i \in DOMAIN batch : batch[i] \in Rec
  OBVIOUS
<1>3. Accounts(st, Len(batch))
  <2>1. /\ stats' \in [Counters -> Nat]
        /\ stats'["flushed"] + stats'["bad_row"] = st["flushed"] + st["bad_row"] + Len(batch)
        /\ \A c \in Counters \ {"flushed", "bad_row"} : stats'[c] = st[c]
    BY <1>1, AfterInsertsType
  <2>2. /\ stats'["dropped_queue"] = st["dropped_queue"]
        /\ stats'["spilled"] = st["spilled"]
        /\ SameRequests(st)
    BY <2>1 DEF Counters, SameRequests, RequestCounters
  <2>3. /\ st["flushed"] \in Nat /\ st["bad_row"] \in Nat /\ st["dropped_queue"] \in Nat
        /\ st["spilled"] \in Nat /\ Len(batch) \in Nat
        /\ stats'["flushed"] \in Nat /\ stats'["bad_row"] \in Nat
    BY <2>1 DEF Counters
  <2>4. Handled(stats') = Handled(st) + Len(batch)
    BY <2>1, <2>2, <2>3 DEF Handled
  <2>5. Handled(st) \in Nat /\ Handled(stats') \in Nat
    BY <2>1, HandledType
  <2>6. /\ Handled(stats') <= Handled(st) + Len(batch)
        /\ Handled(st) + st["spilled"] + Len(batch) <= Handled(stats') + stats'["spilled"]
    BY <2>2, <2>3, <2>4, <2>5
  <2>. QED  BY <2>1, <2>2, <2>6 DEF Accounts
<1>. QED  BY <1>1, <1>2, <1>3

LEMMA SpillEffect ==
  ASSUME events \subseteq Rec, spillFile \subseteq Rec,
         NEW batch \in Seq(Rec), NEW st \in [Counters -> Nat], NEW table,
         Spill(batch, st, table)
  PROVE  /\ table = events /\ spillFile' \subseteq Rec
         /\ Accounts(st, Len(batch))
<1>1. table = events /\ spillFile' \subseteq Rec
  BY DEF Spill, Elems
<1>2. Len(batch) \in Nat /\ "spilled" \in Counters
  BY DEF Counters
<1>3. ASSUME NEW s1 \in [Counters -> Nat]
      PROVE  /\ Handled(s1) \in Nat /\ s1["spilled"] \in Nat
             /\ Inc(s1, "spilled", Len(batch)) \in [Counters -> Nat]
             /\ Handled(Inc(s1, "spilled", Len(batch))) = Handled(s1)
             /\ Inc(s1, "spilled", Len(batch))["spilled"] = s1["spilled"] + Len(batch)
             /\ \A c \in RequestCounters : Inc(s1, "spilled", Len(batch))[c] = s1[c]
  <2>. DEFINE s2 == Inc(s1, "spilled", Len(batch))
  <2>1. /\ s2 \in [Counters -> Nat]
        /\ s2["spilled"] = s1["spilled"] + Len(batch)
        /\ \A d \in Counters : d # "spilled" => s2[d] = s1[d]
    BY <1>2, IncType
  <2>. HIDE DEF s2
  <2>2. /\ s2["flushed"] = s1["flushed"] /\ s2["bad_row"] = s1["bad_row"]
        /\ s2["dropped_queue"] = s1["dropped_queue"]
        /\ \A c \in RequestCounters : s2[c] = s1[c]
    BY <2>1 DEF Counters, RequestCounters
  <2>3. Handled(s2) = Handled(s1)
    BY <2>2 DEF Handled
  <2>. QED  BY <2>1, <2>2, <2>3, HandledType DEF s2
<1>4. ASSUME stats' = Inc(st, "spilled", Len(batch))
      PROVE  Accounts(st, Len(batch))
  <2>1. /\ stats' \in [Counters -> Nat] /\ SameRequests(st)
        /\ Handled(stats') = Handled(st) /\ stats'["spilled"] = st["spilled"] + Len(batch)
        /\ Handled(st) \in Nat /\ st["spilled"] \in Nat
    BY <1>3, <1>4 DEF SameRequests
  <2>2. /\ Handled(stats') <= Handled(st) + Len(batch)
        /\ Handled(st) + st["spilled"] + Len(batch) <= Handled(stats') + stats'["spilled"]
    BY <1>2, <2>1
  <2>. QED  BY <2>1, <2>2 DEF Accounts
<1>5. ASSUME NEW bad \in SUBSET DOMAIN batch,
             stats' = Inc(AfterInserts(st, batch, bad), "spilled", Len(batch))
      PROVE  Accounts(st, Len(batch))
  <2>. DEFINE s1 == AfterInserts(st, batch, bad)
  <2>1. /\ s1 \in [Counters -> Nat]
        /\ s1["flushed"] + s1["bad_row"] = st["flushed"] + st["bad_row"] + Len(batch)
        /\ \A c \in Counters \ {"flushed", "bad_row"} : s1[c] = st[c]
    BY AfterInsertsType
  <2>2. stats' = Inc(s1, "spilled", Len(batch))
    BY <1>5
  <2>. HIDE DEF s1
  <2>3. /\ s1["dropped_queue"] = st["dropped_queue"] /\ s1["spilled"] = st["spilled"]
        /\ \A c \in RequestCounters : s1[c] = st[c]
    BY <2>1 DEF Counters, RequestCounters
  <2>4. /\ stats' \in [Counters -> Nat] /\ SameRequests(st)
        /\ Handled(stats') = Handled(s1) /\ stats'["spilled"] = st["spilled"] + Len(batch)
    BY <1>3, <2>1, <2>2, <2>3 DEF SameRequests
  <2>5. /\ st["flushed"] \in Nat /\ st["bad_row"] \in Nat /\ st["dropped_queue"] \in Nat
        /\ st["spilled"] \in Nat /\ s1["flushed"] \in Nat /\ s1["bad_row"] \in Nat
    BY <2>1 DEF Counters
  <2>6. Handled(s1) = Handled(st) + Len(batch)
    BY <1>2, <2>1, <2>3, <2>5 DEF Handled
  <2>7. Handled(st) \in Nat /\ Handled(stats') = Handled(st) + Len(batch)
    BY <2>4, <2>6, HandledType
  <2>8. /\ Handled(stats') <= Handled(st) + Len(batch)
        /\ Handled(st) + st["spilled"] + Len(batch) <= Handled(stats') + stats'["spilled"]
    <3>1. stats'["spilled"] = st["spilled"] + Len(batch)
      BY <2>4
    <3>. QED  BY <1>2, <2>5, <2>7, <3>1
  <2>. QED  BY <2>4, <2>8 DEF Accounts
<1>. QED  BY <1>1, <1>4, <1>5 DEF Spill

(* Counting n dropped rows.                                                *)
LEMMA Dropped ==
  ASSUME NEW st \in [Counters -> Nat], NEW n \in Nat
  PROVE  LET after == Inc(st, "dropped_queue", n)
         IN /\ after \in [Counters -> Nat]
            /\ Handled(after) = Handled(st) + n /\ after["spilled"] = st["spilled"]
            /\ \A c \in RequestCounters : after[c] = st[c]
<1>. DEFINE after == Inc(st, "dropped_queue", n)
<1>1. "dropped_queue" \in Counters
  BY DEF Counters
<1>2. /\ after \in [Counters -> Nat]
      /\ after["dropped_queue"] = st["dropped_queue"] + n
      /\ \A c \in Counters : c # "dropped_queue" => after[c] = st[c]
  BY <1>1, IncType
<1>. HIDE DEF after
<1>3. /\ after["flushed"] = st["flushed"] /\ after["bad_row"] = st["bad_row"]
      /\ after["spilled"] = st["spilled"]
      /\ \A c \in RequestCounters : after[c] = st[c]
  BY <1>2 DEF Counters, RequestCounters
<1>4. st["flushed"] \in Nat /\ st["bad_row"] \in Nat /\ st["dropped_queue"] \in Nat
  BY DEF Counters
<1>5. Handled(after) = Handled(st) + n
  BY <1>2, <1>3, <1>4 DEF Handled
<1>. QED  BY <1>2, <1>3, <1>5 DEF after

LEMMA DroppedAccounts ==
  ASSUME NEW st \in [Counters -> Nat], NEW n \in Nat, stats' = Inc(st, "dropped_queue", n)
  PROVE  Accounts(st, n)
<1>1. /\ stats' \in [Counters -> Nat]
      /\ Handled(stats') = Handled(st) + n /\ stats'["spilled"] = st["spilled"]
      /\ SameRequests(st)
  BY Dropped DEF SameRequests
<1>2. Handled(st) \in Nat /\ st["spilled"] \in Nat
  BY HandledType
<1>. QED  BY <1>1, <1>2 DEF Accounts

(* Taking n rows off what is left when d rows are gone takes d + n off.    *)
LEMMA AfterShift ==
  ASSUME NEW queue \in Seq(Rec), NEW d \in Nat, d <= Len(queue),
         NEW kept \in Seq(Rec), Len(kept) = Len(queue) - d,
         \A i \in DOMAIN kept : d + i \in DOMAIN queue /\ kept[i] = queue[d + i],
         NEW n \in 0 .. Len(kept), NEW table, After(kept, n, table)
  PROVE  After(queue, d + n, table)
<1>1. /\ DOMAIN kept = 1 .. Len(kept) /\ Len(kept) \in Nat
      /\ Len(queue) \in Nat /\ n \in Nat
  OBVIOUS
<1>2. q' \in Seq(Rec) /\ Len(q') = Len(kept) - n /\ DOMAIN q' = 1 .. Len(q')
  BY DEF After
<1>3. Len(q') = Len(queue) - (d + n)
  BY <1>1, <1>2
<1>4. ASSUME NEW i \in DOMAIN q'
      PROVE  (d + n) + i \in DOMAIN queue /\ q'[i] = queue[(d + n) + i]
  <2>1. n + i \in DOMAIN kept /\ q'[i] = kept[n + i]
    BY DEF After
  <2>2. d + (n + i) \in DOMAIN queue /\ kept[n + i] = queue[d + (n + i)]
    BY <2>1
  <2>3. i \in Nat /\ d + (n + i) = (d + n) + i
    BY <1>1, <1>2
  <2>. QED  BY <2>1, <2>2, <2>3
<1>5. /\ events \subseteq table
      /\ \A r \in table \ events : db /\ \E i \in 1 .. n : i \in DOMAIN kept /\ r = kept[i]
  BY DEF After
<1>6. ASSUME NEW r \in table \ events
      PROVE  db /\ \E j \in 1 .. d + n : j \in DOMAIN queue /\ r = queue[j]
  <2>1. PICK i \in 1 .. n : i \in DOMAIN kept /\ r = kept[i]
    BY <1>5
  <2>2. d + i \in 1 .. d + n /\ d + i \in DOMAIN queue /\ r = queue[d + i]
    BY <1>1, <2>1
  <2>. QED  BY <1>5, <2>2
<1>. QED  BY <1>2, <1>3, <1>4, <1>5, <1>6 DEF After

(* One flush() takes rows off the front of the queue, all of them when     *)
(* they fit one batch, stores no others, and accounts for each.            *)
LEMMA FlushEffect ==
  ASSUME db \in BOOLEAN, events \subseteq Rec, spillFile \subseteq Rec,
         NEW queue \in Seq(Rec), NEW bytes, NEW st \in [Counters -> Nat], NEW table,
         Flush(queue, bytes, st, table)
  PROVE  /\ table \subseteq Rec /\ spillFile' \subseteq Rec
         /\ qTimer' = (q' # <<>>)
         /\ Len(queue) <= BatchRows => q' = <<>>
         /\ \E n \in 0 .. Len(queue) : After(queue, n, table) /\ Accounts(st, n)
<1>. DEFINE batch == BatchOf(queue)
<1>1. /\ batch \in Seq(Rec) /\ RestOf(queue) \in Seq(Rec)
      /\ Len(batch) <= Len(queue)
      /\ Len(queue) <= BatchRows => RestOf(queue) = <<>>
      /\ Len(RestOf(queue)) = Len(queue) - Len(batch)
      /\ \A i \in DOMAIN batch : i \in DOMAIN queue /\ batch[i] = queue[i]
      /\ \A i \in DOMAIN RestOf(queue) :
           Len(batch) + i \in DOMAIN queue /\ RestOf(queue)[i] = queue[Len(batch) + i]
  BY Splice, CollectorAssumption
<1>2. q' = RestOf(queue) /\ qTimer' = (q' # <<>>)
  BY DEF Flush
<1>3. /\ queue = <<>> => Len(batch) = 0
      /\ Len(batch) \in 0 .. Len(queue)
      /\ DOMAIN batch = 1 .. Len(batch)
  BY <1>1
<1>4. /\ table \subseteq Rec /\ spillFile' \subseteq Rec
      /\ events \subseteq table
      /\ \A r \in table \ events : db /\ \E i \in DOMAIN batch : r = batch[i]
      /\ Accounts(st, Len(batch))
  <2>1. CASE queue = <<>>
    <3>1. stats' = st /\ table = events /\ spillFile' = spillFile
      BY <2>1 DEF Flush
    <3>2. Accounts(st, 0)
      BY <3>1, HandledType DEF Accounts, SameRequests
    <3>. QED  BY <1>3, <2>1, <3>1, <3>2
  <2>2. CASE queue # <<>> /\ ~db
    <3>1. /\ stats' = Inc(st, "dropped_queue", Len(batch))
          /\ table = events /\ spillFile' = spillFile
      BY <2>2 DEF Flush
    <3>2. Accounts(st, Len(batch))
      BY <1>1, <3>1, DroppedAccounts
    <3>. QED  BY <3>1, <3>2
  <2>3. CASE queue # <<>> /\ db
    <3>1. Commit(batch, st, table) \/ Spill(batch, st, table)
      BY <2>3 DEF Flush
    <3>2. CASE Commit(batch, st, table)
      BY <1>1, <2>3, <3>2, CommitEffect
    <3>3. CASE Spill(batch, st, table)
      BY <1>1, <3>3, SpillEffect
    <3>. QED  BY <3>1, <3>2, <3>3
  <2>. QED  BY <2>1, <2>2, <2>3
<1>. HIDE DEF batch
<1>5. After(queue, Len(batch), table)
  BY <1>1, <1>2, <1>3, <1>4 DEF After
<1>. QED  BY <1>1, <1>2, <1>3, <1>4, <1>5

(* enqueueWrite: rows leave the front of the queue, dropped or flushed,    *)
(* and fewer than BATCH_ROWS stay.                                         *)
LEMMA EnqueueEffect ==
  ASSUME db \in BOOLEAN, events \subseteq Rec, spillFile \subseteq Rec,
         q \in Seq(Rec), NEW r \in Rec, NEW st \in [Counters -> Nat],
         EnqueueWrite(r, st)
  PROVE  /\ events' \subseteq Rec /\ spillFile' \subseteq Rec
         /\ qTimer' \in BOOLEAN /\ (q' # <<>> => qTimer')
         /\ Len(q) < BatchRows => Len(q') < BatchRows
         /\ \E n \in 0 .. Len(q) + 1 : After(Append(q, r), n, events') /\ Accounts(st, n)
<1>. DEFINE queue == Append(q, r)
            bytes == qBytes + r.size
<1>1. queue \in Seq(Rec) /\ Len(queue) = Len(q) + 1 /\ Len(q) \in Nat
  OBVIOUS
<1>2. PICK d \in 0 .. Len(queue) :
        LET kept  == SubSeq(queue, d + 1, Len(queue))
            left  == bytes - Bytes(SubSeq(queue, 1, d))
            after == Inc(st, "dropped_queue", d)
        IN /\ DropsOldest(queue, bytes, d)
           /\ \/ BatchFull(kept) /\ Flush(kept, left, after, events')
              \/ /\ ~BatchFull(kept)
                 /\ q' = kept
                 /\ qBytes' = left
                 /\ qTimer' = TRUE
                 /\ stats' = after
                 /\ UNCHANGED <<events, spillFile>>
  BY DEF EnqueueWrite
<1>. HIDE DEF queue
<1>. DEFINE kept  == SubSeq(queue, d + 1, Len(queue))
            left  == bytes - Bytes(SubSeq(queue, 1, d))
            after == Inc(st, "dropped_queue", d)
<1>3. /\ kept \in Seq(Rec) /\ Len(kept) = Len(queue) - d
      /\ DOMAIN kept = 1 .. Len(queue) - d /\ DOMAIN queue = 1 .. Len(queue)
      /\ \A i \in DOMAIN kept : d + i \in DOMAIN queue /\ kept[i] = queue[d + i]
  BY <1>1
<1>4. d \in Nat /\ d <= Len(queue)
  BY <1>1
<1>5. /\ after \in [Counters -> Nat]
      /\ Handled(after) = Handled(st) + d /\ after["spilled"] = st["spilled"]
      /\ \A c \in RequestCounters : after[c] = st[c]
  BY <1>4, Dropped
<1>6. Handled(st) \in Nat /\ st["spilled"] \in Nat
  BY HandledType
<1>7. CASE BatchFull(kept)
  <2>1. Flush(kept, left, after, events')
    BY <1>2, <1>7
  <2>. HIDE DEF left
  <2>2. /\ events' \subseteq Rec /\ spillFile' \subseteq Rec
        /\ qTimer' = (q' # <<>>)
        /\ Len(kept) <= BatchRows => q' = <<>>
        /\ \E n \in 0 .. Len(kept) : After(kept, n, events') /\ Accounts(after, n)
    BY <1>3, <1>5, <2>1, FlushEffect
  <2>3. PICK n \in 0 .. Len(kept) : After(kept, n, events') /\ Accounts(after, n)
    BY <2>2
  <2>. HIDE DEF kept, after
  <2>4. d + n \in 0 .. Len(queue)
    BY <1>1, <1>3, <1>4
  <2>5. After(queue, d + n, events')
    BY <1>1, <1>3, <1>4, <2>3, <2>4, AfterShift
  <2>6. Accounts(st, d + n)
    <3>1. /\ stats' \in [Counters -> Nat] /\ SameRequests(st)
          /\ Handled(stats') <= Handled(after) + n
          /\ Handled(after) + after["spilled"] + n <= Handled(stats') + stats'["spilled"]
      BY <1>5, <2>3 DEF Accounts, SameRequests
    <3>2. /\ Handled(stats') \in Nat /\ stats'["spilled"] \in Nat /\ n \in Nat
      BY <1>1, <1>3, <1>4, <3>1, HandledType
    <3>3. /\ Handled(stats') <= Handled(st) + (d + n)
          /\ Handled(st) + st["spilled"] + (d + n) <= Handled(stats') + stats'["spilled"]
      BY <1>4, <1>5, <1>6, <3>1, <3>2
    <3>. QED  BY <3>1, <3>3 DEF Accounts
  <2>7. Len(q) < BatchRows => Len(q') < BatchRows
    <3>1. Len(q) < BatchRows => Len(kept) <= BatchRows
      BY <1>1, <1>3, <1>4, CollectorAssumption
    <3>2. Len(<<>>) = 0 /\ 0 < BatchRows
      BY CollectorAssumption
    <3>. QED  BY <2>2, <3>1, <3>2
  <2>. QED  BY <1>1, <2>2, <2>4, <2>5, <2>6, <2>7 DEF queue
<1>8. CASE ~BatchFull(kept)
  <2>1. q' = kept /\ qTimer' = TRUE /\ stats' = after /\ events' = events /\ spillFile' = spillFile
    BY <1>2, <1>8
  <2>2. Len(q') < BatchRows
    BY <1>1, <1>3, <1>4, <1>8, <2>1, CollectorAssumption DEF BatchFull
  <2>. HIDE DEF kept, after
  <2>3. After(queue, d, events')
    BY <1>3, <2>1 DEF After
  <2>4. Accounts(st, d)
    BY <1>4, <1>5, <1>6, <2>1 DEF Accounts, SameRequests
  <2>. QED  BY <1>1, <1>4, <2>1, <2>2, <2>3, <2>4 DEF queue
<1>. QED  BY <1>7, <1>8

-----------------------------------------------------------------------------
(* Type correctness.                                                       *)

Seen == [key : Keys, seq : Nat]

LEMMA SeenElements ==
  ASSUME seen \in Seq(Seen), NEW i \in DOMAIN seen
  PROVE  seen[i] \in Seen /\ seen[i].key \in Keys /\ seen[i].seq \in Nat
<1>1. seen[i] \in Seen
  OBVIOUS
<1>. QED  BY <1>1 DEF Seen

(* The dedup map stays a sequence of keys with the seq that set them.      *)
LEMMA SeenAfterType ==
  ASSUME NEW k \in Keys \cup {NoKey}, NEW s \in Nat, seen \in Seq(Seen)
  PROVE  SeenAfter(k, s) \in Seq(Seen)
<1>1. CASE k = NoKey
  BY <1>1 DEF SeenAfter
<1>2. CASE k # NoKey
  <2>. DEFINE set == IF \E i \in DOMAIN seen : seen[i].key = k
                     THEN [i \in DOMAIN seen |->
                             IF seen[i].key = k THEN [key |-> k, seq |-> s] ELSE seen[i]]
                     ELSE Append(seen, [key |-> k, seq |-> s])
  <2>1. [key |-> k, seq |-> s] \in Seen /\ Len(seen) \in Nat /\ DOMAIN seen = 1 .. Len(seen)
    BY <1>2 DEF Seen
  <2>2. set \in Seq(Seen)
    <3>1. \A i \in DOMAIN seen : seen[i] \in Seen
      OBVIOUS
    <3>. QED  BY <2>1, <3>1
  <2>3. SeenAfter(k, s) = IF Len(set) <= DedupMax THEN set
                          ELSE SubSeq(set, Len(set) - DedupMax + 1, Len(set))
    BY <1>2 DEF SeenAfter
  <2>. HIDE DEF set
  <2>4. DedupMax \in Nat \ {0} /\ Len(set) \in Nat
    BY <2>2, CollectorAssumption
  <2>. QED  BY <2>2, <2>3, <2>4
<1>. QED  BY <1>1, <1>2

(* The record of the next event is one, and counting it is well typed.     *)
LEMMA AcceptType ==
  ASSUME TypeOK, NEW k \in Keys \cup {NoKey}, NEW size \in Sizes
  PROVE  /\ [id |-> Len(acked) + 1, seq |-> SEQ + 1, key |-> k, size |-> size] \in Rec
         /\ Inc(stats, "accepted", 1) \in [Counters -> Nat]
<1>1. acked \in Seq(Rec) /\ SEQ \in Nat /\ stats \in [Counters -> Nat]
  BY DEF TypeOK
<1>2. "accepted" \in Counters
  BY DEF Counters
<1>. QED  BY <1>1, <1>2, IncType DEF Rec

(* Seeding finds a sequence number.                                        *)
LEMMA SeedType ==
  ASSUME TypeOK, NEW opened \in BOOLEAN, NEW s \in Seed(opened)
  PROVE  s \in Nat
BY DEF TypeOK, Seed, Rec

(* What a process starts with, and what is left of one that was killed.    *)
LEMMA EmptyTypes ==
  ASSUME EmptyMemory
  PROVE  /\ seen' \in Seq([key : Keys, seq : Nat]) /\ stale' \in Nat /\ reading' \in Nat
         /\ pend' \in Seq(Rec) /\ q' \in Seq(Rec) /\ qTimer' \in BOOLEAN
         /\ stats' \in [Counters -> Nat]
<1>1. <<>> \in Seq([key : Keys, seq : Nat]) /\ <<>> \in Seq(Rec)
  OBVIOUS
<1>. QED  BY <1>1 DEF EmptyMemory

(* Every action keeps the variables in their types.                        *)
LEMMA TypeStep == TypeOK /\ [Next]_vars => TypeOK'
<1>. SUFFICES ASSUME TypeOK, [Next]_vars PROVE TypeOK'
  OBVIOUS
<1>. USE DEF TypeOK
<1>a. events \subseteq Rec /\ spillFile \subseteq Rec /\ archive \subseteq Rec
  OBVIOUS
<1>b. ASSUME NEW table, Flush(q, qBytes, stats, table)
      PROVE  /\ table \subseteq Rec /\ spillFile' \subseteq Rec /\ q' \in Seq(Rec)
             /\ qTimer' \in BOOLEAN /\ stats' \in [Counters -> Nat]
  BY <1>b, FlushEffect DEF After, Accounts
<1>1. CASE ReceivePost
  <2>1. "received" \in Counters /\ "rejected" \in Counters
    BY DEF Counters
  <2>2. Inc(stats, "received", 1) \in [Counters -> Nat]
    BY <2>1, IncType
  <2>3. Inc(Inc(stats, "received", 1), "rejected", 1) \in [Counters -> Nat]
    BY <2>1, <2>2, IncType
  <2>4. stats' \in [Counters -> Nat] /\ reading' \in Nat
    BY <1>1, <2>2, <2>3 DEF ReceivePost
  <2>. QED  BY <1>1, <2>4 DEF ReceivePost, disk
<1>2. CASE RejectBody
  <2>1. "rejected" \in Counters
    BY DEF Counters
  <2>2. stats' \in [Counters -> Nat]
    BY <1>2, <2>1, IncType DEF RejectBody
  <2>. QED  BY <1>2, <2>2 DEF RejectBody, disk
<1>3. ASSUME NEW k \in Keys, AnswerDuplicate(k)
      PROVE  TypeOK'
  <2>1. "duplicate" \in Counters
    BY DEF Counters
  <2>2. stats' \in [Counters -> Nat]
    BY <1>3, <2>1, IncType DEF AnswerDuplicate
  <2>. QED  BY <1>3, <2>2 DEF AnswerDuplicate, disk
<1>4. ASSUME NEW k \in Keys \cup {NoKey}, NEW size \in Sizes, Accept(k, size)
      PROVE  TypeOK'
  <2>. DEFINE r  == [id |-> Len(acked) + 1, seq |-> SEQ + 1, key |-> k, size |-> size]
              st == Inc(stats, "accepted", 1)
  <2>1. r \in Rec /\ st \in [Counters -> Nat]
    BY AcceptType
  <2>. HIDE DEF r, st
  <2>2. seen' \in Seq([key : Keys, seq : Nat])
    <3>1. seen \in Seq(Seen) /\ SEQ + 1 \in Nat
      BY DEF Seen
    <3>2. SeenAfter(k, SEQ + 1) \in Seq(Seen)
      BY <3>1, SeenAfterType
    <3>. QED  BY <1>4, <3>2 DEF Accept, Seen
  <2>3. pend' = Append(pend, r) /\ acked' = Append(acked, r)
    BY <1>4 DEF Accept, Defer, r
  <2>4. /\ stats' \in [Counters -> Nat] /\ events' \subseteq Rec /\ spillFile' \subseteq Rec
    <3>1. \/ StoreOne(r, st)
          \/ stats' = st /\ events' = events /\ spillFile' = spillFile
      BY <1>4 DEF Accept, r, st
    <3>2. CASE Commit(<<r>>, st, events')
      <4>1. <<r>> \in Seq(Rec)
        BY <2>1
      <4>. QED  BY <1>a, <2>1, <3>2, <4>1, CommitEffect DEF Accounts
    <3>. QED  BY <1>a, <2>1, <3>1, <3>2 DEF StoreOne
  <2>. QED  BY <1>4, <2>1, <2>2, <2>3, <2>4 DEF Accept
<1>5. CASE RunImmediate
  <2>1. Head(pend) \in Rec /\ Tail(pend) \in Seq(Rec)
    BY <1>5 DEF RunImmediate
  <2>2. /\ q' \in Seq(Rec) /\ stats' \in [Counters -> Nat]
        /\ events' \subseteq Rec /\ spillFile' \subseteq Rec /\ qTimer' \in BOOLEAN
    <3>1. CASE durable
      BY <1>5, <3>1 DEF RunImmediate
    <3>2. CASE ~durable
      <4>1. EnqueueWrite(Head(pend), stats)
        BY <1>5, <3>2 DEF RunImmediate
      <4>. QED  BY <1>a, <2>1, <4>1, EnqueueEffect DEF After, Accounts
    <3>. QED  BY <3>1, <3>2
  <2>. QED  BY <1>5, <2>1, <2>2 DEF RunImmediate
<1>6. CASE TimerFlush
  BY <1>6, <1>b DEF TimerFlush
<1>7. CASE TtlPasses
  <2>1. PICK i \in DOMAIN seen : stale' = seen[i].seq
    BY <1>7 DEF TtlPasses
  <2>2. seen \in Seq(Seen)
    BY DEF Seen
  <2>3. stale' \in Nat
    BY <2>1, <2>2, SeenElements
  <2>. QED  BY <1>7, <2>3 DEF TtlPasses, disk
<1>8. CASE RunRetention
  <2>1. PICK table :
          /\ Flush(q, qBytes, stats, table)
          /\ \E old \in SUBSET table : \E gone \in SUBSET old :
               archive' = archive \cup old /\ events' = table \ gone
    BY <1>8 DEF RunRetention
  <2>. QED  BY <1>8, <1>b, <2>1 DEF RunRetention
<1>9. CASE Boot
  <2>1. SEQ' \in Nat /\ mark' \in Nat /\ boots' \in Nat
    BY <1>9, SeedType DEF Boot
  <2>. QED  BY <1>9, <2>1, EmptyTypes DEF Boot, disk
<1>10. CASE Signal
  BY <1>10 DEF Signal, memory, disk
<1>11. CASE ServerClosed
  BY <1>11, <1>b DEF ServerClosed
<1>12. CASE MemoryLost
  BY <1>12, EmptyTypes DEF MemoryLost, disk
<1>13. CASE UNCHANGED vars
  BY <1>13 DEF vars, memory, disk
<1>. QED
  BY <1>1, <1>2, <1>3, <1>4, <1>5, <1>6, <1>7, <1>8, <1>9, <1>10, <1>11, <1>12, <1>13
  DEF Next, ForceExit, Crash

(* The variables keep their types, whatever fails and restarts.            *)
THEOREM TypeCorrect == Spec => []TypeOK
<1>1. Init => TypeOK
  <2>1. <<>> \in Seq([key : Keys, seq : Nat]) /\ <<>> \in Seq(Rec)
    OBVIOUS
  <2>2. ASSUME Init PROVE stats \in [Counters -> Nat]
    BY <2>2 DEF Init
  <2>3. ASSUME Init
        PROVE  /\ proc \in {"up", "closing", "stopped", "crashed"}
               /\ db \in BOOLEAN /\ durable \in BOOLEAN /\ qTimer \in BOOLEAN
               /\ SEQ \in Nat /\ stale \in Nat /\ reading \in Nat
               /\ mark \in Nat /\ boots \in Nat
    BY <2>3 DEF Init
  <2>4. ASSUME Init
        PROVE  /\ seen = <<>> /\ pend = <<>> /\ q = <<>> /\ acked = <<>>
               /\ events = {} /\ spillFile = {} /\ archive = {} /\ streamed = {}
    BY <2>4 DEF Init
  <2>. QED  BY <2>1, <2>2, <2>3, <2>4 DEF TypeOK
<1>2. TypeOK /\ [Next]_vars => TypeOK'
  BY TypeStep
<1>. QED  BY <1>1, <1>2, PTL DEF Spec

-----------------------------------------------------------------------------
(* The queue.                                                              *)

QueueInv == QueueBounded /\ CleanStopLeavesNothingQueued

LEMMA QueueStep == TypeOK /\ QueueInv /\ [Next]_vars => QueueInv'
<1>. SUFFICES ASSUME TypeOK, QueueInv, [Next]_vars PROVE QueueInv'
  OBVIOUS
<1>. USE DEF QueueInv, QueueBounded, CleanStopLeavesNothingQueued, Alive
<1>a. /\ BatchRows \in Nat \ {0} /\ db \in BOOLEAN
      /\ events \subseteq Rec /\ spillFile \subseteq Rec
      /\ q \in Seq(Rec) /\ pend \in Seq(Rec) /\ stats \in [Counters -> Nat]
      /\ Len(<<>>) = 0 /\ Len(q) \in Nat
  BY CollectorAssumption DEF TypeOK
<1>b. ASSUME NEW table, Alive, Flush(q, qBytes, stats, table)
      PROVE  q' = <<>>
  <2>1. Len(q) <= BatchRows
    BY <1>a, <1>b
  <2>. QED  BY <1>a, <1>b, <2>1, FlushEffect
<1>1. CASE ReceivePost
  BY <1>1 DEF ReceivePost
<1>2. CASE RejectBody
  BY <1>2 DEF RejectBody
<1>3. ASSUME NEW k \in Keys, AnswerDuplicate(k) PROVE QueueInv'
  BY <1>3 DEF AnswerDuplicate
<1>4. ASSUME NEW k \in Keys \cup {NoKey}, NEW size \in Sizes, Accept(k, size) PROVE QueueInv'
  BY <1>4 DEF Accept
<1>5. CASE RunImmediate
  <2>1. proc' = proc /\ Alive
    BY <1>5 DEF RunImmediate
  <2>2. CASE durable
    BY <1>5, <2>1, <2>2 DEF RunImmediate
  <2>3. CASE ~durable
    <3>1. EnqueueWrite(Head(pend), stats) /\ Head(pend) \in Rec
      BY <1>a, <1>5, <2>3 DEF RunImmediate
    <3>2. Len(q') < BatchRows /\ (q' # <<>> => qTimer')
      BY <1>a, <2>1, <3>1, EnqueueEffect
    <3>. QED  BY <2>1, <3>2
  <2>. QED  BY <2>2, <2>3
<1>6. CASE TimerFlush
  <2>1. q' = <<>> /\ proc' = proc /\ Alive
    BY <1>b, <1>6 DEF TimerFlush
  <2>. QED  BY <1>a, <2>1
<1>7. CASE TtlPasses
  BY <1>7 DEF TtlPasses
<1>8. CASE RunRetention
  <2>1. PICK table : Flush(q, qBytes, stats, table)
    BY <1>8 DEF RunRetention
  <2>2. q' = <<>> /\ proc' = proc /\ Alive
    BY <1>b, <1>8, <2>1 DEF RunRetention
  <2>. QED  BY <1>a, <2>2
<1>9. CASE Boot
  <2>1. q' = <<>> /\ proc' = "up"
    BY <1>9 DEF Boot, EmptyMemory
  <2>. QED  BY <1>a, <2>1
<1>10. CASE Signal
  BY <1>10 DEF Signal, memory
<1>11. CASE ServerClosed
  <2>1. q' = <<>> /\ pend' = <<>> /\ proc' = "stopped"
    BY <1>b, <1>11 DEF ServerClosed
  <2>. QED  BY <2>1
<1>12. CASE MemoryLost
  BY <1>12 DEF MemoryLost
<1>13. CASE UNCHANGED vars
  BY <1>13 DEF vars, memory
<1>. QED
  BY <1>1, <1>2, <1>3, <1>4, <1>5, <1>6, <1>7, <1>8, <1>9, <1>10, <1>11, <1>12, <1>13
  DEF Next, ForceExit, Crash

(* enqueueWrite, flush(), retention and shutdown, each of which calls      *)
(* flush() at most once: no handler leaves a full batch behind or rows     *)
(* without a timer, and a shutdown that is not forced leaves nothing.      *)
THEOREM QueueAlwaysBounded == Spec => [](QueueBounded /\ CleanStopLeavesNothingQueued)
<1>1. Init => QueueInv
  BY DEF Init, QueueInv, QueueBounded, CleanStopLeavesNothingQueued, Alive
<1>2. TypeOK /\ QueueInv /\ [Next]_vars => QueueInv'
  BY QueueStep
<1>3. QueueInv => QueueBounded /\ CleanStopLeavesNothingQueued
  BY DEF QueueInv
<1>. QED  BY <1>1, <1>2, <1>3, TypeCorrect, PTL DEF Spec

(* A stop that was not forced leaves nothing queued: a queue below one     *)
(* batch is emptied by the one flush on the way out.                       *)
THEOREM CleanStopAlwaysEmpty == Spec => []CleanStopLeavesNothingQueued
  BY QueueAlwaysBounded, PTL

-----------------------------------------------------------------------------
(* Sequence numbers.                                                       *)

Below(s, bound) == \A i \in DOMAIN s : s[i].seq <= bound
Before(s, t) == \A i \in DOMAIN s, j \in DOMAIN t : s[i].seq < t[j].seq
RowsBefore(rows, s) == \A r \in rows : \A i \in DOMAIN s : r.seq < s[i].seq

(* What a process that is up holds is in order: the table, the queue, the  *)
(* deferred callbacks, SEQ.  A durable process stores ahead of its         *)
(* callbacks and queues nothing.                                           *)
OrderInv ==
  Alive =>
    /\ Ascending(q) /\ Ascending(pend) /\ Before(q, pend)
    /\ Below(q, SEQ) /\ Below(pend, SEQ)
    /\ durable => q = <<>>
    /\ db => /\ \A r \in events : r.seq <= SEQ
             /\ RowsBefore(events, q)
             /\ ~durable => RowsBefore(events, pend)

LEMMA SeqElements ==
  ASSUME NEW s \in Seq(Rec), NEW i \in DOMAIN s
  PROVE  s[i] \in Rec /\ s[i].seq \in Nat
<1>1. s[i] \in Rec
  OBVIOUS
<1>. QED  BY <1>1 DEF Rec

(* Storing and dropping a prefix of a queue in order keeps the order, and  *)
(* what it stores is above every row already there.                        *)
LEMMA WriteOrder ==
  ASSUME events \subseteq Rec, NEW queue \in Seq(Rec), NEW n \in 0 .. Len(queue), NEW table,
         After(queue, n, table), Ascending(queue), db => RowsBefore(events, queue)
  PROVE  /\ Ascending(q')
         /\ \A j \in DOMAIN q' : \E i \in DOMAIN queue : q'[j] = queue[i]
         /\ \A r \in table \ events : db /\ \E i \in DOMAIN queue : r = queue[i]
         /\ \A r \in table \ events : \A s \in events : s.seq < r.seq
         /\ db => RowsBefore(table, q')
<1>1. /\ q' \in Seq(Rec) /\ DOMAIN q' = 1 .. Len(q') /\ DOMAIN queue = 1 .. Len(queue)
      /\ n \in Nat /\ Len(queue) \in Nat
      /\ \A j \in DOMAIN q' : n + j \in DOMAIN queue /\ q'[j] = queue[n + j]
  BY DEF After
<1>2. Ascending(q')
  <2>. SUFFICES ASSUME NEW i \in DOMAIN q', NEW j \in DOMAIN q', i < j
                PROVE  q'[i].seq < q'[j].seq
    BY DEF Ascending
  <2>1. n + i < n + j
    BY <1>1
  <2>. QED  BY <1>1, <2>1 DEF Ascending
<1>3. \A j \in DOMAIN q' : \E i \in DOMAIN queue : q'[j] = queue[i]
  BY <1>1
<1>4. \A r \in table \ events : db /\ \E i \in 1 .. n : i \in DOMAIN queue /\ r = queue[i]
  BY DEF After
<1>5. \A r \in table \ events : \A s \in events : s.seq < r.seq
  BY <1>4 DEF RowsBefore
<1>6. ASSUME db, NEW r \in table, NEW j \in DOMAIN q'
      PROVE  r.seq < q'[j].seq
  <2>1. n + j \in DOMAIN queue /\ q'[j] = queue[n + j]
    BY <1>1
  <2>2. CASE r \in events
    BY <1>6, <2>1, <2>2 DEF RowsBefore
  <2>3. CASE r \notin events
    <3>1. PICK i \in 1 .. n : i \in DOMAIN queue /\ r = queue[i]
      BY <1>4, <2>3
    <3>2. i < n + j
      BY <1>1, <3>1
    <3>. QED  BY <2>1, <3>1, <3>2 DEF Ascending
  <2>. QED  BY <2>2, <2>3
<1>. QED  BY <1>2, <1>3, <1>4, <1>5, <1>6 DEF RowsBefore

RowsOnTop == \A r \in events' \ events : \A s \in events : s.seq < r.seq

(* A flush of the whole queue keeps the order.                             *)
LEMMA FlushOrder ==
  ASSUME TypeOK, OrderInv, Alive, NEW table, Flush(q, qBytes, stats, table), UNCHANGED <<pend, SEQ, db, durable>>
  PROVE  /\ Ascending(q') /\ Before(q', pend) /\ Below(q', SEQ)
         /\ durable => q' = <<>>
         /\ db => /\ \A r \in table : r.seq <= SEQ
                  /\ RowsBefore(table, q')
                  /\ ~durable => RowsBefore(table, pend)
         /\ \A r \in table \ events : \A s \in events : s.seq < r.seq
<1>1. /\ db \in BOOLEAN /\ events \subseteq Rec /\ spillFile \subseteq Rec
      /\ q \in Seq(Rec) /\ stats \in [Counters -> Nat]
  BY DEF TypeOK
<1>2. PICK n \in 0 .. Len(q) : After(q, n, table)
  BY <1>1, FlushEffect
<1>3. Ascending(q) /\ (db => RowsBefore(events, q))
  BY DEF OrderInv
<1>4. /\ Ascending(q')
      /\ \A j \in DOMAIN q' : \E i \in DOMAIN q : q'[j] = q[i]
      /\ \A r \in table \ events : db /\ \E i \in DOMAIN q : r = q[i]
      /\ \A r \in table \ events : \A s \in events : s.seq < r.seq
      /\ db => RowsBefore(table, q')
  BY <1>1, <1>2, <1>3, WriteOrder
<1>5. Before(q', pend) /\ Below(q', SEQ)
  BY <1>4 DEF OrderInv, Before, Below
<1>6. durable => q' = <<>>
  <2>1. ASSUME q = <<>> PROVE q' = <<>>
    BY <1>1, <1>2, <2>1 DEF After
  <2>. QED  BY <2>1 DEF OrderInv
<1>7. db => (\A r \in table : r.seq <= SEQ) /\ (~durable => RowsBefore(table, pend))
  BY <1>4 DEF OrderInv, Before, Below, RowsBefore
<1>. QED  BY <1>4, <1>5, <1>6, <1>7

(* The callback that queues the oldest deferred event.                     *)
LEMMA EnqueueOrder ==
  ASSUME TypeOK, OrderInv, Alive, pend # <<>>, ~durable, pend' = Tail(pend),
         EnqueueWrite(Head(pend), stats)
  PROVE  /\ Ascending(q') /\ Ascending(pend') /\ Before(q', pend')
         /\ Below(q', SEQ) /\ Below(pend', SEQ)
         /\ db => /\ \A r \in events' : r.seq <= SEQ
                  /\ RowsBefore(events', q')
                  /\ RowsBefore(events', pend')
         /\ RowsOnTop
<1>1. /\ db \in BOOLEAN /\ events \subseteq Rec /\ spillFile \subseteq Rec
      /\ q \in Seq(Rec) /\ pend \in Seq(Rec) /\ stats \in [Counters -> Nat]
  BY DEF TypeOK
<1>. DEFINE h == Head(pend)
<1>2. /\ h \in Rec /\ h = pend[1] /\ 1 \in DOMAIN pend
      /\ pend' \in Seq(Rec) /\ Len(pend') = Len(pend) - 1
      /\ DOMAIN pend = 1 .. Len(pend) /\ DOMAIN pend' = 1 .. Len(pend) - 1
      /\ \A j \in DOMAIN pend' : j + 1 \in DOMAIN pend /\ pend'[j] = pend[j + 1]
  BY <1>1
<1>a. EnqueueWrite(h, stats)
  OBVIOUS
<1>. HIDE DEF h
<1>. DEFINE queue == Append(q, h)
<1>3. /\ queue \in Seq(Rec) /\ Len(queue) = Len(q) + 1 /\ Len(q) \in Nat
      /\ DOMAIN queue = 1 .. Len(q) + 1 /\ DOMAIN q = 1 .. Len(q)
      /\ \A i \in DOMAIN queue : queue[i] = IF i \in DOMAIN q THEN q[i] ELSE h
  BY <1>1, <1>2
<1>4. PICK n \in 0 .. Len(q) + 1 : After(queue, n, events')
  BY <1>1, <1>2, <1>a, EnqueueEffect
<1>. HIDE DEF queue
<1>5. Ascending(queue)
  <2>. SUFFICES ASSUME NEW i \in DOMAIN queue, NEW j \in DOMAIN queue, i < j
                PROVE  queue[i].seq < queue[j].seq
    BY DEF Ascending
  <2>1. i \in DOMAIN q
    BY <1>3
  <2>2. CASE j \in DOMAIN q
    BY <1>3, <2>1, <2>2 DEF OrderInv, Ascending
  <2>3. CASE j \notin DOMAIN q
    BY <1>2, <1>3, <2>1, <2>3 DEF OrderInv, Before
  <2>. QED  BY <2>2, <2>3
<1>6. ASSUME NEW i \in DOMAIN queue, NEW j \in DOMAIN pend'
      PROVE  queue[i].seq < pend'[j].seq
  <2>1. j + 1 \in DOMAIN pend /\ pend'[j] = pend[j + 1] /\ 1 < j + 1
    BY <1>2
  <2>2. CASE i \in DOMAIN q
    BY <1>3, <2>1, <2>2 DEF OrderInv, Before
  <2>3. CASE i \notin DOMAIN q
    BY <1>2, <1>3, <2>1, <2>3 DEF OrderInv, Ascending
  <2>. QED  BY <2>2, <2>3
<1>7. \A i \in DOMAIN queue : queue[i].seq <= SEQ
  BY <1>2, <1>3 DEF OrderInv, Below
<1>8. db => RowsBefore(events, queue) /\ RowsBefore(events, pend')
  BY <1>2, <1>3 DEF OrderInv, RowsBefore
<1>9. Ascending(pend') /\ Below(pend', SEQ)
  <2>1. Ascending(pend')
    <3>. SUFFICES ASSUME NEW i \in DOMAIN pend', NEW j \in DOMAIN pend', i < j
                  PROVE  pend'[i].seq < pend'[j].seq
      BY DEF Ascending
    <3>1. i + 1 < j + 1
      BY <1>2
    <3>. QED  BY <1>2, <3>1 DEF OrderInv, Ascending
  <2>. QED  BY <1>2, <2>1 DEF OrderInv, Below
<1>10. /\ Ascending(q')
       /\ \A j \in DOMAIN q' : \E i \in DOMAIN queue : q'[j] = queue[i]
       /\ \A r \in events' \ events : db /\ \E i \in DOMAIN queue : r = queue[i]
       /\ RowsOnTop
       /\ db => RowsBefore(events', q')
  BY <1>1, <1>3, <1>4, <1>5, <1>8, WriteOrder DEF RowsOnTop
<1>11. Before(q', pend') /\ Below(q', SEQ)
  BY <1>6, <1>7, <1>10 DEF Before, Below
<1>12. db => (\A r \in events' : r.seq <= SEQ) /\ RowsBefore(events', pend')
  BY <1>6, <1>7, <1>8, <1>10 DEF OrderInv, RowsBefore
<1>. QED  BY <1>9, <1>10, <1>11, <1>12

(* The next sequence number is above everything in the process.            *)
LEMMA AcceptOrder ==
  ASSUME TypeOK, OrderInv, NEW k \in Keys \cup {NoKey}, NEW size \in Sizes, Accept(k, size)
  PROVE  OrderInv' /\ RowsOnTop
<1>. DEFINE r  == [id |-> Len(acked) + 1, seq |-> SEQ + 1, key |-> k, size |-> size]
            st == Inc(stats, "accepted", 1)
<1>1. /\ r \in Rec /\ st \in [Counters -> Nat] /\ r.seq = SEQ + 1 /\ SEQ \in Nat
      /\ pend \in Seq(Rec) /\ q \in Seq(Rec) /\ events \subseteq Rec
  BY AcceptType DEF TypeOK
<1>2. /\ pend' = Append(pend, r) /\ SEQ' = SEQ + 1
      /\ UNCHANGED <<proc, db, durable, q>> /\ Alive
      /\ durable => StoreOne(r, st)
      /\ ~durable => events' = events
  BY DEF Accept, Defer
<1>. HIDE DEF r, st
<1>3. /\ pend' \in Seq(Rec) /\ DOMAIN pend' = 1 .. Len(pend) + 1 /\ Len(pend) \in Nat
      /\ DOMAIN pend = 1 .. Len(pend)
      /\ \A i \in DOMAIN pend' : pend'[i] = IF i \in DOMAIN pend THEN pend[i] ELSE r
  BY <1>1, <1>2
<1>4. /\ \A i \in DOMAIN q : q[i].seq \in Nat /\ q[i].seq <= SEQ
      /\ \A i \in DOMAIN pend : pend[i].seq \in Nat /\ pend[i].seq <= SEQ
      /\ db => \A s \in events : s.seq \in Nat /\ s.seq <= SEQ
  <2>1. /\ \A i \in DOMAIN q : q[i].seq \in Nat
        /\ \A i \in DOMAIN pend : pend[i].seq \in Nat
    BY <1>1, SeqElements
  <2>2. \A s \in events : s.seq \in Nat
    BY <1>1 DEF Rec
  <2>. QED  BY <1>2, <2>1, <2>2 DEF OrderInv, Below
<1>5. \A s \in events' : s \in events \/ (durable /\ db /\ s = r)
  <2>1. CASE durable /\ db
    <3>1. Commit(<<r>>, st, events')
      BY <1>2, <2>1 DEF StoreOne
    <3>2. <<r>> \in Seq(Rec) /\ \A i \in DOMAIN <<r>> : <<r>>[i] = r
      BY <1>1
    <3>3. \A s \in events' \ events : \E i \in DOMAIN <<r>> : s = <<r>>[i]
      BY <1>1, <3>1, <3>2, CommitEffect, ZenonT(40)
    <3>. QED  BY <2>1, <3>2, <3>3
  <2>2. CASE ~(durable /\ db)
    BY <1>2, <2>2 DEF StoreOne
  <2>. QED  BY <2>1, <2>2
<1>6. RowsOnTop
  BY <1>1, <1>4, <1>5 DEF RowsOnTop
<1>7. Ascending(pend')
  <2>. SUFFICES ASSUME NEW i \in DOMAIN pend', NEW j \in DOMAIN pend', i < j
                PROVE  pend'[i].seq < pend'[j].seq
    BY DEF Ascending
  <2>1. i \in DOMAIN pend
    BY <1>3
  <2>2. CASE j \in DOMAIN pend
    BY <1>2, <1>3, <2>1, <2>2 DEF OrderInv, Ascending
  <2>3. CASE j \notin DOMAIN pend
    BY <1>1, <1>3, <1>4, <2>1, <2>3
  <2>. QED  BY <2>2, <2>3
<1>8. Before(q, pend') /\ Below(q, SEQ + 1) /\ Below(pend', SEQ + 1)
  BY <1>1, <1>2, <1>3, <1>4 DEF OrderInv, Before, Below
<1>9. Ascending(q) /\ (durable => q = <<>>)
  BY <1>2 DEF OrderInv
<1>10. db => /\ \A s \in events' : s.seq <= SEQ + 1
             /\ RowsBefore(events', q)
             /\ ~durable => RowsBefore(events', pend')
  <2>. SUFFICES ASSUME db
                PROVE  /\ \A s \in events' : s.seq <= SEQ + 1
                       /\ RowsBefore(events', q)
                       /\ ~durable => RowsBefore(events', pend')
    OBVIOUS
  <2>1. \A s \in events' : s.seq <= SEQ + 1
    BY <1>1, <1>4, <1>5
  <2>2. RowsBefore(events', q)
    BY <1>2, <1>5, <1>9 DEF OrderInv, RowsBefore
  <2>3. ~durable => RowsBefore(events', pend')
    BY <1>1, <1>2, <1>3, <1>4, <1>5 DEF OrderInv, RowsBefore
  <2>. QED  BY <2>1, <2>2, <2>3
<1>. QED  BY <1>2, <1>6, <1>7, <1>8, <1>9, <1>10 DEF OrderInv, Alive, Ascending, Before, Below, RowsBefore

LEMMA OrderStep == TypeOK /\ OrderInv /\ [Next]_vars => OrderInv' /\ RowsOnTop
<1>. SUFFICES ASSUME TypeOK, OrderInv, [Next]_vars PROVE OrderInv' /\ RowsOnTop
  OBVIOUS
<1>a. ASSUME UNCHANGED <<SEQ, pend, q, db, durable, events>>, Alive' => Alive
      PROVE  OrderInv' /\ RowsOnTop
  BY <1>a DEF OrderInv, RowsOnTop, Alive, Ascending, Before, Below, RowsBefore
<1>b. ASSUME ~Alive', events' \ events = {}
      PROVE  OrderInv' /\ RowsOnTop
  BY <1>b DEF OrderInv, RowsOnTop
<1>c. ASSUME Alive, UNCHANGED <<proc, SEQ, pend, db, durable>>,
             NEW table, Flush(q, qBytes, stats, table), events' \subseteq table
      PROVE  OrderInv' /\ RowsOnTop
  <2>1. /\ Ascending(q') /\ Before(q', pend) /\ Below(q', SEQ)
        /\ durable => q' = <<>>
        /\ db => /\ \A r \in table : r.seq <= SEQ
                 /\ RowsBefore(table, q')
                 /\ ~durable => RowsBefore(table, pend)
        /\ \A r \in table \ events : \A s \in events : s.seq < r.seq
    BY <1>c, FlushOrder
  <2>2. db => /\ \A r \in events' : r.seq <= SEQ
              /\ RowsBefore(events', q')
              /\ ~durable => RowsBefore(events', pend)
    BY <1>c, <2>1 DEF RowsBefore
  <2>3. RowsOnTop
    BY <1>c, <2>1 DEF RowsOnTop
  <2>4. Ascending(pend) /\ Below(pend, SEQ)
    BY <1>c DEF OrderInv
  <2>. QED  BY <1>c, <2>1, <2>2, <2>3, <2>4
            DEF OrderInv, Alive, Ascending, Before, Below, RowsBefore
<1>1. CASE ReceivePost
  BY <1>1, <1>a DEF ReceivePost, disk, Alive
<1>2. CASE RejectBody
  BY <1>2, <1>a DEF RejectBody, disk, Alive
<1>3. ASSUME NEW k \in Keys, AnswerDuplicate(k) PROVE OrderInv' /\ RowsOnTop
  BY <1>3, <1>a DEF AnswerDuplicate, disk, Alive
<1>4. ASSUME NEW k \in Keys \cup {NoKey}, NEW size \in Sizes, Accept(k, size)
      PROVE  OrderInv' /\ RowsOnTop
  BY <1>4, AcceptOrder
<1>5. CASE RunImmediate
  <2>1. CASE durable
    <3>1. /\ pend' = Tail(pend) /\ pend # <<>> /\ Alive
          /\ UNCHANGED <<proc, db, durable, SEQ, q, events>>
      BY <1>5, <2>1 DEF RunImmediate
    <3>2. pend \in Seq(Rec)
      BY DEF TypeOK
    <3>3. /\ DOMAIN pend = 1 .. Len(pend) /\ DOMAIN pend' = 1 .. Len(pend) - 1
          /\ \A j \in DOMAIN pend' : j \in Nat /\ j + 1 \in DOMAIN pend /\ pend'[j] = pend[j + 1]
      BY <3>1, <3>2
    <3>4. Ascending(pend')
      <4>. SUFFICES ASSUME NEW i \in DOMAIN pend', NEW j \in DOMAIN pend', i < j
                    PROVE  pend'[i].seq < pend'[j].seq
        BY DEF Ascending
      <4>1. i + 1 < j + 1
        BY <3>3
      <4>. QED  BY <3>1, <3>3, <4>1 DEF OrderInv, Ascending
    <3>5. Below(pend', SEQ) /\ Before(q, pend')
      BY <3>1, <3>3 DEF OrderInv, Below, Before
    <3>6. OrderInv'
      BY <2>1, <3>1, <3>4, <3>5 DEF OrderInv, Alive, Ascending, Before, Below, RowsBefore
    <3>. QED  BY <3>1, <3>6 DEF RowsOnTop
  <2>2. CASE ~durable
    <3>1. /\ pend' = Tail(pend) /\ pend # <<>> /\ Alive
          /\ EnqueueWrite(Head(pend), stats)
          /\ UNCHANGED <<proc, db, durable, SEQ>>
      BY <1>5, <2>2 DEF RunImmediate
    <3>2. /\ Ascending(q') /\ Ascending(pend') /\ Before(q', pend')
          /\ Below(q', SEQ) /\ Below(pend', SEQ)
          /\ db => /\ \A r \in events' : r.seq <= SEQ
                   /\ RowsBefore(events', q')
                   /\ RowsBefore(events', pend')
          /\ RowsOnTop
      BY <2>2, <3>1, EnqueueOrder
    <3>3. OrderInv'
      BY <2>2, <3>1, <3>2 DEF OrderInv, Alive, Ascending, Before, Below, RowsBefore
    <3>. QED  BY <3>2, <3>3
  <2>. QED  BY <2>1, <2>2
<1>6. CASE TimerFlush
  <2>1. /\ Alive /\ Flush(q, qBytes, stats, events')
        /\ UNCHANGED <<proc, SEQ, pend, db, durable>>
    BY <1>6 DEF TimerFlush
  <2>. QED  BY <1>c, <2>1
<1>7. CASE TtlPasses
  BY <1>7, <1>a DEF TtlPasses, disk, Alive
<1>8. CASE RunRetention
  <2>1. PICK table : Flush(q, qBytes, stats, table) /\ events' \subseteq table
    BY <1>8 DEF RunRetention
  <2>2. Alive /\ UNCHANGED <<proc, SEQ, pend, db, durable>>
    BY <1>8 DEF RunRetention
  <2>. QED  BY <1>c, <2>1, <2>2
<1>9. CASE Boot
  <2>1. /\ SEQ' \in Seed(db') /\ events' = events
        /\ q' = <<>> /\ pend' = <<>>
    BY <1>9 DEF Boot, EmptyMemory, disk
  <2>2. db' => \A r \in events' : r.seq <= SEQ'
    BY <2>1 DEF Seed
  <2>. QED  BY <2>1, <2>2 DEF OrderInv, RowsOnTop, Ascending, Before, Below, RowsBefore
<1>10. CASE Signal
  BY <1>10, <1>a DEF Signal, memory, disk, Alive
<1>11. CASE ServerClosed
  <2>1. Flush(q, qBytes, stats, events') /\ Alive /\ ~Alive' /\ UNCHANGED <<pend, SEQ, db, durable>>
    BY <1>11 DEF ServerClosed, Alive
  <2>2. \A r \in events' \ events : \A s \in events : s.seq < r.seq
    BY <2>1, FlushOrder
  <2>. QED  BY <2>1, <2>2 DEF OrderInv, RowsOnTop
<1>12. CASE MemoryLost
  BY <1>12, <1>b DEF MemoryLost, disk, Alive
<1>13. CASE UNCHANGED vars
  BY <1>13, <1>a DEF vars, memory, disk, Alive
<1>. QED
  BY <1>1, <1>2, <1>3, <1>4, <1>5, <1>6, <1>7, <1>8, <1>9, <1>10, <1>11, <1>12, <1>13
  DEF Next, ForceExit, Crash

(* The order of the three stages gives the order of what is not stored.    *)
LEMMA OrderImpliesFree == TypeOK /\ OrderInv => SeqIsFreePrimaryKey
<1>. SUFFICES ASSUME TypeOK, OrderInv, Alive, db
              PROVE  /\ Ascending(Unstored)
                     /\ Below(Unstored, SEQ) /\ RowsBefore(events, Unstored)
                     /\ \A r \in events : r.seq <= SEQ
  BY DEF SeqIsFreePrimaryKey, Below, RowsBefore
<1>1. q \in Seq(Rec) /\ pend \in Seq(Rec)
  BY DEF TypeOK
<1>2. CASE durable
  <2>1. Unstored = <<>>
    BY <1>2 DEF Unstored, OrderInv
  <2>. QED  BY <2>1 DEF OrderInv, Ascending, Below, RowsBefore
<1>3. CASE ~durable
  <2>1. Unstored = q \o pend
    BY <1>3 DEF Unstored
  <2>2. /\ DOMAIN Unstored = 1 .. Len(q) + Len(pend)
        /\ DOMAIN q = 1 .. Len(q) /\ DOMAIN pend = 1 .. Len(pend)
        /\ Len(q) \in Nat /\ Len(pend) \in Nat
        /\ \A i \in DOMAIN Unstored :
             Unstored[i] = IF i <= Len(q) THEN q[i] ELSE pend[i - Len(q)]
    BY <1>1, <2>1
  <2>3. \A i \in DOMAIN Unstored :
          \/ i \in DOMAIN q /\ Unstored[i] = q[i]
          \/ i - Len(q) \in DOMAIN pend /\ i > Len(q) /\ Unstored[i] = pend[i - Len(q)]
    BY <2>2
  <2>4. Ascending(Unstored)
    <3>. SUFFICES ASSUME NEW i \in DOMAIN Unstored, NEW j \in DOMAIN Unstored, i < j
                  PROVE  Unstored[i].seq < Unstored[j].seq
      BY DEF Ascending
    <3>1. CASE j \in DOMAIN q
      BY <2>2, <3>1 DEF OrderInv, Ascending
    <3>2. CASE i \in DOMAIN q /\ j \notin DOMAIN q
      BY <2>2, <2>3, <3>2 DEF OrderInv, Before
    <3>3. CASE i \notin DOMAIN q /\ j \notin DOMAIN q
      <4>1. i - Len(q) < j - Len(q)
        BY <2>2
      <4>. QED  BY <2>3, <3>3, <4>1 DEF OrderInv, Ascending
    <3>4. j \in DOMAIN q => i \in DOMAIN q
      BY <2>2
    <3>. QED  BY <3>1, <3>2, <3>3, <3>4
  <2>5. Below(Unstored, SEQ)
    BY <2>3 DEF OrderInv, Below
  <2>6. RowsBefore(events, Unstored)
    BY <1>3, <2>3 DEF OrderInv, RowsBefore
  <2>. QED  BY <2>4, <2>5, <2>6 DEF OrderInv
<1>. QED  BY <1>2, <1>3

LEMMA OrderAlways == Spec => []OrderInv
<1>1. Init => OrderInv
  BY DEF Init, OrderInv, Alive
<1>2. TypeOK /\ OrderInv /\ [Next]_vars => OrderInv'
  BY OrderStep
<1>. QED  BY <1>1, <1>2, TypeCorrect, PTL DEF Spec

(* No event is ever dropped by INSERT OR IGNORE because its seq is taken:  *)
(* what handleEvents, ingestPostAck and flush() hold is above every row,   *)
(* and startBackend seeds SEQ so that this holds again after any end of    *)
(* the process.                                                            *)
THEOREM SeqAlwaysFree == Spec => []SeqIsFreePrimaryKey
BY TypeCorrect, OrderAlways, OrderImpliesFree, PTL

(* Whatever flush, durable insert, crash or trim comes next, a row enters  *)
(* the table above every row in it.                                        *)
THEOREM RowsAlwaysArriveInOrder == Spec => RowsArriveInSeqOrder
<1>1. TypeOK /\ OrderInv /\ [Next]_vars
        => [\A r \in events' \ events : \A s \in events : s.seq < r.seq]_vars
  BY OrderStep DEF RowsOnTop
<1>. QED  BY <1>1, TypeCorrect, OrderAlways, PTL DEF Spec, RowsArriveInSeqOrder

-----------------------------------------------------------------------------
(* The counters of GET /health.                                            *)

LEMMA CounterNames ==
  /\ "received" \in Counters /\ "accepted" \in Counters /\ "duplicate" \in Counters
  /\ "rejected" \in Counters /\ "flushed" \in Counters /\ "dropped_queue" \in Counters
  /\ "bad_row" \in Counters /\ "spilled" \in Counters
BY DEF Counters

LEMMA UnstoredLength ==
  ASSUME q \in Seq(Rec), pend \in Seq(Rec)
  PROVE  Len(Unstored) = IF durable THEN Len(q) ELSE Len(q) + Len(pend)
BY DEF Unstored

(* A write of n rows keeps the sum when it takes n rows out of what is not *)
(* stored.                                                                 *)
LEMMA AccountsKept ==
  ASSUME NEW st \in [Counters -> Nat], NEW n \in Nat, NEW before \in Nat, NEW after \in Nat,
         NEW b \in BOOLEAN, Accounts(st, n), before = after + n,
         Handled(st) + before <= st["accepted"],
         b => st["accepted"] <= Handled(st) + before + st["spilled"]
  PROVE  /\ Handled(stats') + after <= stats'["accepted"]
         /\ b => stats'["accepted"] <= Handled(stats') + after + stats'["spilled"]
<1>1. /\ stats' \in [Counters -> Nat] /\ stats'["accepted"] = st["accepted"]
      /\ Handled(stats') <= Handled(st) + n
      /\ Handled(st) + st["spilled"] + n <= Handled(stats') + stats'["spilled"]
  BY DEF Accounts, SameRequests, RequestCounters
<1>2. /\ Handled(st) \in Nat /\ st["spilled"] \in Nat
      /\ Handled(stats') \in Nat /\ stats'["spilled"] \in Nat /\ st["accepted"] \in Nat
  BY <1>1, HandledType DEF Counters
<1>3. Handled(stats') + after <= stats'["accepted"]
  BY <1>1, <1>2
<1>4. ASSUME b PROVE stats'["accepted"] <= Handled(stats') + after + stats'["spilled"]
  BY <1>1, <1>2, <1>4
<1>. QED  BY <1>3, <1>4

CountersInv ==
  Alive =>
    /\ stats["received"] = stats["accepted"] + stats["duplicate"] + stats["rejected"] + reading
    /\ mark <= Len(acked) /\ stats["accepted"] = Len(acked) - mark
    /\ Handled(stats) + Len(Unstored) <= stats["accepted"]
    /\ db \/ ~durable => stats["accepted"] <= Handled(stats) + Len(Unstored) + stats["spilled"]

(* A step that only flushes keeps the sums.                                *)
LEMMA FlushCounters ==
  ASSUME TypeOK, CountersInv, Alive, NEW table, Flush(q, qBytes, stats, table),
         UNCHANGED <<proc, reading, pend, db, durable, acked, mark>>
  PROVE  CountersInv'
<1>1. /\ db \in BOOLEAN /\ durable \in BOOLEAN /\ events \subseteq Rec /\ spillFile \subseteq Rec
      /\ q \in Seq(Rec) /\ pend \in Seq(Rec) /\ stats \in [Counters -> Nat]
      /\ Len(q) \in Nat /\ Len(pend) \in Nat
  BY DEF TypeOK
<1>2. PICK n \in 0 .. Len(q) : After(q, n, table) /\ Accounts(stats, n)
  BY <1>1, FlushEffect
<1>3. q' \in Seq(Rec) /\ Len(q') = Len(q) - n /\ n \in Nat /\ Len(q') \in Nat
  BY <1>1, <1>2 DEF After
<1>4. /\ Len(Unstored) = IF durable THEN Len(q) ELSE Len(q) + Len(pend)
      /\ Len(Unstored') = IF durable THEN Len(q') ELSE Len(q') + Len(pend)
  <2>1. Len(Unstored) = IF durable THEN Len(q) ELSE Len(q) + Len(pend)
    BY <1>1, UnstoredLength
  <2>2. Len(Unstored') = IF durable THEN Len(q') ELSE Len(q') + Len(pend)
    <3>1. Unstored' = q' \o (IF durable THEN <<>> ELSE pend)
      BY DEF Unstored
    <3>2. pend \in Seq(Rec) /\ q' \in Seq(Rec) /\ durable \in BOOLEAN
      BY <1>1, <1>3
    <3>3. CASE durable
      BY <3>1, <3>2, <3>3
    <3>4. CASE ~durable
      BY <3>1, <3>2, <3>4
    <3>. QED  BY <3>3, <3>4
  <2>. QED  BY <2>1, <2>2
<1>5. Len(Unstored) \in Nat /\ Len(Unstored') \in Nat /\ Len(Unstored) = Len(Unstored') + n
  BY <1>1, <1>3, <1>4
<1>6. /\ Handled(stats) + Len(Unstored) <= stats["accepted"]
      /\ (db \/ ~durable) => stats["accepted"] <= Handled(stats) + Len(Unstored) + stats["spilled"]
  BY DEF CountersInv
<1>7. /\ Handled(stats') + Len(Unstored') <= stats'["accepted"]
      /\ (db \/ ~durable) => stats'["accepted"] <= Handled(stats') + Len(Unstored') + stats'["spilled"]
  <2>. DEFINE b == db \/ ~durable
  <2>1. b \in BOOLEAN
    BY <1>1
  <2>. HIDE DEF b
  <2>2. b => stats["accepted"] <= Handled(stats) + Len(Unstored) + stats["spilled"]
    BY <1>6 DEF b
  <2>3. /\ Handled(stats') + Len(Unstored') <= stats'["accepted"]
        /\ b => stats'["accepted"] <= Handled(stats') + Len(Unstored') + stats'["spilled"]
    BY <1>1, <1>2, <1>3, <1>5, <1>6, <2>1, <2>2, AccountsKept
  <2>. QED  BY <2>3 DEF b
<1>8. \A c \in RequestCounters : stats'[c] = stats[c]
  BY <1>2 DEF Accounts, SameRequests
<1>9. Handled(stats)' = Handled(stats')
  BY DEF Handled
<1>. QED  BY <1>7, <1>8, <1>9 DEF CountersInv, Alive, RequestCounters

(* The durable insert of an accepted event counts it; without a database   *)
(* nothing does.                                                           *)
LEMMA AcceptCounters ==
  ASSUME TypeOK, CountersInv,
         NEW k \in Keys \cup {NoKey}, NEW size \in Sizes, Accept(k, size)
  PROVE  CountersInv'
<1>. DEFINE r  == [id |-> Len(acked) + 1, seq |-> SEQ + 1, key |-> k, size |-> size]
            st == Inc(stats, "accepted", 1)
<1>1. /\ db \in BOOLEAN /\ durable \in BOOLEAN /\ events \subseteq Rec /\ mark \in Nat
      /\ q \in Seq(Rec) /\ pend \in Seq(Rec) /\ acked \in Seq(Rec) /\ stats \in [Counters -> Nat]
      /\ Len(q) \in Nat /\ Len(pend) \in Nat /\ Len(acked) \in Nat /\ reading \in Nat
  BY DEF TypeOK
<1>2. "accepted" \in Counters
  BY DEF Counters
<1>3. /\ r \in Rec /\ st \in [Counters -> Nat] /\ st["accepted"] = stats["accepted"] + 1
      /\ \A c \in Counters : c # "accepted" => st[c] = stats[c]
  <2>1. r \in Rec
    BY AcceptType
  <2>. HIDE DEF r
  <2>. QED  BY <1>1, <1>2, <2>1, IncOne
<1>4. /\ pend' = Append(pend, r) /\ acked' = Append(acked, r)
      /\ UNCHANGED <<proc, db, durable, q, mark>> /\ Alive
      /\ reading > 0 /\ reading' = reading - 1
      /\ durable => StoreOne(r, st)
      /\ ~durable => stats' = st
  BY DEF Accept, Defer
<1>. HIDE DEF r, st
<1>5. /\ pend' \in Seq(Rec) /\ Len(pend') = Len(pend) + 1 /\ Len(acked') = Len(acked) + 1
  BY <1>1, <1>3, <1>4
<1>6. /\ Len(Unstored) = IF durable THEN Len(q) ELSE Len(q) + Len(pend)
      /\ Len(Unstored') = IF durable THEN Len(q) ELSE Len(q) + Len(pend) + 1
  <2>1. Unstored' = q \o (IF durable THEN <<>> ELSE pend')
    BY <1>4 DEF Unstored
  <2>2. CASE durable
    BY <1>1, <2>1, <2>2, UnstoredLength
  <2>3. CASE ~durable
    <3>1. Unstored' = q \o pend'
      BY <2>1, <2>3
    <3>2. Len(q \o pend') = Len(q) + Len(pend) + 1
      <4>1. q \in Seq(Rec) /\ pend' \in Seq(Rec)
        BY <1>1, <1>5
      <4>2. Len(q \o pend') = Len(q) + Len(pend')
        BY <4>1
      <4>. QED  BY <1>1, <1>5, <4>2
    <3>3. Len(Unstored) = Len(q) + Len(pend)
      BY <1>1, <2>3, UnstoredLength
    <3>. QED  BY <2>3, <3>1, <3>2, <3>3
  <2>. QED  BY <2>2, <2>3
<1>7. /\ stats["received"] = stats["accepted"] + stats["duplicate"] + stats["rejected"] + reading
      /\ mark <= Len(acked) /\ stats["accepted"] = Len(acked) - mark
      /\ Handled(stats) + Len(Unstored) <= stats["accepted"]
      /\ (db \/ ~durable) => stats["accepted"] <= Handled(stats) + Len(Unstored) + stats["spilled"]
  BY <1>4 DEF CountersInv
<1>8. /\ \A c \in Counters : stats[c] \in Nat /\ st[c] \in Nat
      /\ Handled(stats) \in Nat /\ Handled(st) = Handled(stats) /\ Len(Unstored) \in Nat
  <2>1. Handled(st) = Handled(stats)
    BY <1>3 DEF Handled, Counters
  <2>. QED  BY <1>1, <1>3, <1>6, <2>1, HandledType
<1>9. /\ st["received"] = st["accepted"] + st["duplicate"] + st["rejected"] + reading'
      /\ mark <= Len(acked') /\ st["accepted"] = Len(acked') - mark
      /\ Handled(st) + Len(Unstored) + 1 <= st["accepted"]
      /\ (db \/ ~durable) => st["accepted"] <= Handled(st) + Len(Unstored) + 1 + st["spilled"]
  <2>1. st["received"] = st["accepted"] + st["duplicate"] + st["rejected"] + reading'
    <3>1. /\ st["received"] = stats["received"] /\ st["duplicate"] = stats["duplicate"]
          /\ st["rejected"] = stats["rejected"]
      BY <1>3, CounterNames
    <3>2. /\ stats["received"] \in Nat /\ stats["duplicate"] \in Nat
          /\ stats["rejected"] \in Nat /\ stats["accepted"] \in Nat
      BY <1>8, CounterNames
    <3>. QED  BY <1>1, <1>3, <1>4, <1>7, <3>1, <3>2, SMTT(30)
  <2>2. mark <= Len(acked') /\ st["accepted"] = Len(acked') - mark
    BY <1>1, <1>3, <1>5, <1>7
  <2>3. Handled(st) + Len(Unstored) + 1 <= st["accepted"]
    BY <1>1, <1>2, <1>3, <1>7, <1>8
  <2>4. (db \/ ~durable) => st["accepted"] <= Handled(st) + Len(Unstored) + 1 + st["spilled"]
    <3>1. st["spilled"] = stats["spilled"] /\ stats["spilled"] \in Nat /\ stats["accepted"] \in Nat
      BY <1>2, <1>3, <1>8 DEF Counters
    <3>. QED  BY <1>3, <1>7, <1>8, <3>1
  <2>. QED  BY <2>1, <2>2, <2>3, <2>4
<1>10. CASE durable /\ db
  <2>1. Commit(<<r>>, st, events') /\ <<r>> \in Seq(Rec) /\ Len(<<r>>) = 1
    BY <1>3, <1>4, <1>10 DEF StoreOne
  <2>2. Accounts(st, 1)
    BY <1>1, <1>3, <2>1, CommitEffect
  <2>3. /\ \A c \in RequestCounters : stats'[c] = st[c]
        /\ Handled(stats') <= Handled(st) + 1
        /\ Handled(st) + st["spilled"] + 1 <= Handled(stats') + stats'["spilled"]
        /\ Handled(stats') \in Nat /\ stats'["spilled"] \in Nat
    BY <2>2, HandledType DEF Accounts, SameRequests
  <2>4. Len(Unstored') = Len(Unstored)
    BY <1>6, <1>10
  <2>5. Handled(stats') + Len(Unstored') <= st["accepted"]
    BY <1>2, <1>8, <1>9, <2>3, <2>4
  <2>6. st["accepted"] <= Handled(stats') + Len(Unstored') + stats'["spilled"]
    <3>1. st["spilled"] \in Nat /\ st["accepted"] \in Nat
      BY <1>8 DEF Counters
    <3>2. Handled(st) \in Nat
      BY <1>8
    <3>3. st["accepted"] <= Handled(st) + Len(Unstored) + 1 + st["spilled"]
      BY <1>9, <1>10
    <3>4. /\ Handled(stats') + Len(Unstored') + stats'["spilled"] \in Nat
          /\ Handled(st) + st["spilled"] + 1 <= Handled(stats') + stats'["spilled"]
          /\ Len(Unstored') = Len(Unstored) /\ Len(Unstored) \in Nat
          /\ Handled(stats') \in Nat /\ stats'["spilled"] \in Nat
      BY <1>8, <2>3, <2>4
    <3>. QED  BY <3>1, <3>2, <3>3, <3>4, SMTT(30)
  <2>7. Handled(stats)' = Handled(stats')
    BY DEF Handled
  <2>. QED  BY <1>4, <1>9, <2>3, <2>5, <2>6, <2>7 DEF CountersInv, RequestCounters
<1>11. CASE durable /\ ~db
  <2>1. stats' = st /\ Len(Unstored') = Len(Unstored)
    BY <1>4, <1>6, <1>11 DEF StoreOne
  <2>2. Handled(st) + Len(Unstored') <= st["accepted"]
    BY <1>2, <1>8, <1>9, <2>1
  <2>3. Handled(stats)' = Handled(st)
    BY <2>1 DEF Handled
  <2>. QED  BY <1>4, <1>9, <1>11, <2>1, <2>2, <2>3 DEF CountersInv
<1>12. CASE ~durable
  <2>1. stats' = st /\ Len(Unstored') = Len(Unstored) + 1
    BY <1>1, <1>4, <1>6, <1>12
  <2>2. Handled(stats)' = Handled(st)
    BY <2>1 DEF Handled
  <2>3. /\ Handled(st) + Len(Unstored') <= st["accepted"]
        /\ (db \/ ~durable) => st["accepted"] <= Handled(st) + Len(Unstored') + st["spilled"]
    <3>1. st["spilled"] \in Nat /\ st["accepted"] \in Nat
      BY <1>8 DEF Counters
    <3>. QED  BY <1>8, <1>9, <2>1, <3>1
  <2>. QED  BY <1>4, <1>9, <2>1, <2>2, <2>3 DEF CountersInv
<1>. QED  BY <1>1, <1>10, <1>11, <1>12

(* Queueing a deferred event moves it from the callbacks to the queue.     *)
LEMMA ImmediateCounters ==
  ASSUME TypeOK, CountersInv, RunImmediate
  PROVE  CountersInv'
<1>1. /\ db \in BOOLEAN /\ durable \in BOOLEAN /\ events \subseteq Rec /\ spillFile \subseteq Rec
      /\ q \in Seq(Rec) /\ pend \in Seq(Rec) /\ stats \in [Counters -> Nat]
      /\ Len(q) \in Nat /\ Len(pend) \in Nat
  BY DEF TypeOK
<1>2. /\ Alive /\ pend # <<>> /\ pend' = Tail(pend)
      /\ UNCHANGED <<proc, db, durable, reading, acked, mark>>
      /\ durable => UNCHANGED <<q, stats>>
      /\ ~durable => EnqueueWrite(Head(pend), stats)
  BY DEF RunImmediate
<1>3. /\ Head(pend) \in Rec /\ pend' \in Seq(Rec) /\ Len(pend') = Len(pend) - 1
      /\ Len(pend') \in Nat
  BY <1>1, <1>2
<1>4. /\ Handled(stats) + Len(Unstored) <= stats["accepted"]
      /\ (db \/ ~durable) => stats["accepted"] <= Handled(stats) + Len(Unstored) + stats["spilled"]
  BY <1>2 DEF CountersInv
<1>5. Handled(stats)' = Handled(stats')
  BY DEF Handled
<1>6. CASE durable
  <2>1. Unstored = q \o <<>> /\ Unstored' = q \o <<>>
    BY <1>2, <1>6 DEF Unstored
  <2>. QED  BY <1>2, <1>4, <1>5, <1>6, <2>1 DEF CountersInv, Alive
<1>7. CASE ~durable
  <2>1. PICK n \in 0 .. Len(q) + 1 : After(Append(q, Head(pend)), n, events') /\ Accounts(stats, n)
    BY <1>1, <1>2, <1>3, <1>7, EnqueueEffect
  <2>2. n \in Nat /\ q' \in Seq(Rec) /\ Len(q') = Len(q) + 1 - n /\ Len(q') \in Nat
    BY <1>1, <1>3, <2>1 DEF After
  <2>3. Len(Unstored) = Len(q) + Len(pend)
    BY <1>1, <1>7, UnstoredLength
  <2>4. Unstored' = q' \o pend'
    BY <1>2, <1>7 DEF Unstored
  <2>5. Len(Unstored') = Len(q') + Len(pend')
    <3>1. Len(q' \o pend') = Len(q') + Len(pend')
      BY <1>3, <2>2
    <3>. QED  BY <2>4, <3>1
  <2>6. Len(Unstored) = Len(Unstored') + n /\ Len(Unstored) \in Nat /\ Len(Unstored') \in Nat
    BY <1>1, <1>3, <2>2, <2>3, <2>5
  <2>7. TRUE => stats["accepted"] <= Handled(stats) + Len(Unstored) + stats["spilled"]
    BY <1>4, <1>7
  <2>8. /\ Handled(stats') + Len(Unstored') <= stats'["accepted"]
        /\ TRUE => stats'["accepted"] <= Handled(stats') + Len(Unstored') + stats'["spilled"]
    BY <1>1, <1>4, <2>1, <2>2, <2>6, <2>7, AccountsKept
  <2>9. \A c \in RequestCounters : stats'[c] = stats[c]
    BY <2>1 DEF Accounts, SameRequests
  <2>. QED  BY <1>2, <1>5, <2>8, <2>9 DEF CountersInv, Alive, RequestCounters
<1>. QED  BY <1>1, <1>6, <1>7

LEMMA CountersStep == TypeOK /\ CountersInv /\ [Next]_vars => CountersInv'
<1>. SUFFICES ASSUME TypeOK, CountersInv, [Next]_vars PROVE CountersInv'
  OBVIOUS
<1>a. /\ db \in BOOLEAN /\ durable \in BOOLEAN /\ events \subseteq Rec /\ spillFile \subseteq Rec
      /\ q \in Seq(Rec) /\ pend \in Seq(Rec) /\ acked \in Seq(Rec) /\ stats \in [Counters -> Nat]
      /\ mark \in Nat /\ reading \in Nat
      /\ Len(q) \in Nat /\ Len(pend) \in Nat /\ Len(acked) \in Nat
  BY DEF TypeOK
<1>b. \A c \in Counters : stats[c] \in Nat
  BY <1>a
<1>c. ASSUME UNCHANGED <<stats, reading, acked, mark, q, pend, db, durable>>, Alive' => Alive
      PROVE  CountersInv'
  <2>1. UNCHANGED Unstored /\ UNCHANGED Handled(stats)
    BY <1>c DEF Unstored, Handled
  <2>. QED  BY <1>c, <2>1 DEF CountersInv
<1>d. ASSUME Alive, NEW st \in [Counters -> Nat], stats' = st,
             UNCHANGED <<acked, mark, q, pend, db, durable>>,
             st["received"] = st["accepted"] + st["duplicate"] + st["rejected"] + reading',
             \A c \in {"accepted", "spilled", "flushed", "bad_row", "dropped_queue"} : st[c] = stats[c]
      PROVE  CountersInv'
  <2>1. UNCHANGED Unstored
    BY <1>d DEF Unstored
  <2>2. UNCHANGED Handled(stats)
    BY <1>d DEF Handled
  <2>. QED  BY <1>d, <2>1, <2>2 DEF CountersInv
<1>1. CASE ReceivePost
  <2>. DEFINE s1 == Inc(stats, "received", 1)
              s2 == Inc(s1, "rejected", 1)
  <2>1. /\ s1 \in [Counters -> Nat] /\ s1["received"] = stats["received"] + 1
        /\ \A c \in Counters : c # "received" => s1[c] = stats[c]
    BY <1>a, CounterNames, IncOne
  <2>2. /\ UNCHANGED <<acked, mark, q, pend, db, durable>> /\ Alive
        /\ \/ stats' = s2 /\ reading' = reading
           \/ stats' = s1 /\ reading' = reading + 1
    BY <1>1 DEF ReceivePost
  <2>. HIDE DEF s1
  <2>3. /\ s2 \in [Counters -> Nat] /\ s2["rejected"] = s1["rejected"] + 1
        /\ \A c \in Counters : c # "rejected" => s2[c] = s1[c]
    BY <2>1, CounterNames, IncOne
  <2>. HIDE DEF s2
  <2>4. /\ stats["received"] = stats["accepted"] + stats["duplicate"] + stats["rejected"] + reading
    BY <2>2 DEF CountersInv
  <2>5. CASE stats' = s1 /\ reading' = reading + 1
    <3>1. \A c \in {"accepted", "spilled", "flushed", "bad_row", "dropped_queue"} : s1[c] = stats[c]
      BY <2>1, CounterNames
    <3>2. /\ s1["received"] = stats["received"] + 1 /\ s1["accepted"] = stats["accepted"]
          /\ s1["duplicate"] = stats["duplicate"]
          /\ s1["rejected"] = stats["rejected"] /\ reading' = reading + 1
      BY <2>1, <2>5, CounterNames
    <3>3. s1["received"] = s1["accepted"] + s1["duplicate"] + s1["rejected"] + reading'
      <4>1. /\ stats["received"] \in Nat /\ stats["accepted"] \in Nat
            /\ stats["duplicate"] \in Nat /\ stats["rejected"] \in Nat
            /\ reading \in Nat
        BY <1>a, <1>b, CounterNames
      <4>. QED  BY <2>4, <3>2, <4>1
    <3>. QED  BY <1>d, <2>1, <2>2, <2>5, <3>1, <3>3
  <2>6. CASE stats' = s2 /\ reading' = reading
    <3>1. \A c \in {"accepted", "spilled", "flushed", "bad_row", "dropped_queue"} : s2[c] = stats[c]
      BY <2>1, <2>3, CounterNames
    <3>2. /\ s2["received"] = stats["received"] + 1 /\ s2["accepted"] = stats["accepted"]
          /\ s2["duplicate"] = stats["duplicate"]
          /\ s2["rejected"] = stats["rejected"] + 1 /\ reading' = reading
      BY <2>1, <2>3, <2>6, CounterNames
    <3>3. s2["received"] = s2["accepted"] + s2["duplicate"] + s2["rejected"] + reading'
      <4>1. /\ stats["received"] \in Nat /\ stats["accepted"] \in Nat
            /\ stats["duplicate"] \in Nat /\ stats["rejected"] \in Nat
            /\ reading \in Nat
        BY <1>a, <1>b, CounterNames
      <4>. QED  BY <2>4, <3>2, <4>1
    <3>. QED  BY <1>d, <2>2, <2>3, <2>6, <3>1, <3>3
  <2>. QED  BY <2>2, <2>5, <2>6
<1>2. ASSUME NEW c \in {"rejected", "duplicate"}, stats' = Inc(stats, c, 1),
             Alive, reading > 0, reading' = reading - 1,
             UNCHANGED <<acked, mark, q, pend, db, durable>>
      PROVE  CountersInv'
  <2>. DEFINE st == Inc(stats, c, 1)
  <2>1. /\ st \in [Counters -> Nat] /\ st[c] = stats[c] + 1
        /\ \A d \in Counters : d # c => st[d] = stats[d]
    <3>1. c \in Counters
      BY CounterNames
    <3>. QED  BY <1>a, <3>1, IncOne
  <2>. HIDE DEF st
  <2>2. stats' = st
    BY <1>2 DEF st
  <2>3. stats["received"] = stats["accepted"] + stats["duplicate"] + stats["rejected"] + reading
    BY <1>2 DEF CountersInv
  <2>4. \A d \in {"accepted", "spilled", "flushed", "bad_row", "dropped_queue"} : st[d] = stats[d]
    BY <1>2, <2>1 DEF Counters
  <2>5. st["received"] = st["accepted"] + st["duplicate"] + st["rejected"] + reading'
    <3>1. /\ st["received"] = stats["received"] /\ st["accepted"] = stats["accepted"]
          /\ \/ st["rejected"] = stats["rejected"] + 1 /\ st["duplicate"] = stats["duplicate"]
             \/ st["rejected"] = stats["rejected"] /\ st["duplicate"] = stats["duplicate"] + 1
      <4>1. CASE c = "rejected"
        BY <2>1, <4>1, CounterNames
      <4>2. CASE c = "duplicate"
        BY <2>1, <4>2, CounterNames
      <4>. QED  BY <1>2, <4>1, <4>2
    <3>2. /\ stats["received"] \in Nat /\ stats["accepted"] \in Nat
          /\ stats["duplicate"] \in Nat /\ stats["rejected"] \in Nat /\ reading \in Nat
      BY <1>a, <1>b, CounterNames
    <3>3. reading' = reading - 1
      BY <1>2
    <3>. QED  BY <2>3, <3>1, <3>2, <3>3
  <2>. QED  BY <1>2, <1>d, <2>1, <2>2, <2>4, <2>5
<1>3. CASE RejectBody
  BY <1>2, <1>3 DEF RejectBody
<1>4. ASSUME NEW k \in Keys, AnswerDuplicate(k) PROVE CountersInv'
  BY <1>2, <1>4 DEF AnswerDuplicate
<1>5. ASSUME NEW k \in Keys \cup {NoKey}, NEW size \in Sizes, Accept(k, size)
      PROVE  CountersInv'
  BY <1>5, AcceptCounters
<1>6. CASE RunImmediate
  BY <1>6, ImmediateCounters
<1>7. CASE TimerFlush
  <2>1. /\ Alive /\ Flush(q, qBytes, stats, events')
        /\ UNCHANGED <<proc, reading, pend, db, durable, acked, mark>>
    BY <1>7 DEF TimerFlush
  <2>. QED  BY <2>1, FlushCounters
<1>8. CASE TtlPasses
  BY <1>8, <1>c DEF TtlPasses, Alive
<1>9. CASE RunRetention
  <2>1. PICK table : Flush(q, qBytes, stats, table)
    BY <1>9 DEF RunRetention
  <2>2. /\ Alive /\ UNCHANGED <<proc, reading, pend, db, durable, acked, mark>>
    BY <1>9 DEF RunRetention
  <2>. QED  BY <2>1, <2>2, FlushCounters
<1>10. CASE Boot
  <2>1. /\ q' = <<>> /\ pend' = <<>> /\ reading' = 0 /\ mark' = Len(acked) /\ acked' = acked
        /\ stats' = [c \in Counters |-> 0]
    BY <1>10 DEF Boot, EmptyMemory
  <2>2. Unstored' = <<>> /\ Len(<<>>) = 0
    BY <2>1 DEF Unstored
  <2>3. \A c \in Counters : stats'[c] = 0
    BY <2>1
  <2>4. Handled(stats)' = 0
    BY <2>3 DEF Handled, Counters
  <2>. QED  BY <1>a, <2>1, <2>2, <2>3, <2>4 DEF CountersInv, Counters
<1>11. CASE Signal
  BY <1>11, <1>c DEF Signal, memory, Alive
<1>12. CASE ServerClosed
  BY <1>12 DEF ServerClosed, CountersInv, Alive
<1>13. CASE MemoryLost
  BY <1>13 DEF MemoryLost, CountersInv, Alive
<1>14. CASE UNCHANGED vars
  BY <1>14, <1>c DEF vars, memory, Alive
<1>. QED
  BY <1>1, <1>3, <1>4, <1>5, <1>6, <1>7, <1>8, <1>9, <1>10, <1>11, <1>12, <1>13, <1>14
  DEF Next, ForceExit, Crash

(* GET /health adds up, whatever is dropped, refused, rolled back, spilled *)
(* or trimmed: no request is counted twice or not at all, and no accepted  *)
(* event leaves the process unaccounted for.                               *)
THEOREM CountersAlwaysAddUp == Spec => []CountersAddUp
<1>1. Init => CountersInv
  BY DEF Init, CountersInv, Alive
<1>2. TypeOK /\ CountersInv /\ [Next]_vars => CountersInv'
  BY CountersStep
<1>3. TypeOK /\ CountersInv => CountersAddUp
  <2>. SUFFICES ASSUME TypeOK, CountersInv, Alive PROVE CountersAddUp
    BY DEF CountersAddUp
  <2>1. /\ \A c \in Counters : stats[c] \in Nat
        /\ Len(Unstored) \in Nat
    <3>1. q \in Seq(Rec) /\ pend \in Seq(Rec) /\ stats \in [Counters -> Nat]
      BY DEF TypeOK
    <3>. QED  BY <3>1, UnstoredLength
  <2>2. Counted = Handled(stats) + Len(Unstored)
    BY DEF Counted, Handled
  <2>. QED  BY <2>1, <2>2 DEF CountersInv, CountersAddUp
<1>. QED  BY <1>1, <1>2, <1>3, TypeCorrect, PTL DEF Spec

-----------------------------------------------------------------------------
(* The byte budget.                                                        *)

LEMMA RowSize == \A r \in Rec : r.size \in Nat
<1>1. \A r \in Rec : r.size \in Sizes
  BY DEF Rec
<1>2. Sizes \subseteq Nat
  BY CollectorAssumption
<1>. QED  BY <1>1, <1>2

(* The bytes of a queue, row by row.                                       *)
LEMMA BytesOf ==
  /\ Bytes(<< >>) = 0
  /\ \A s \in Seq(Rec), r \in Rec : Bytes(Append(s, r)) = Bytes(s) + r.size
  /\ \A s \in Seq(Rec) : Bytes(s) \in Nat
<1>1. \A s : Bytes(s) = Value(0, s)
  BY DEF Bytes, Value
<1>2. Value(0, << >>) = 0
  BY ValueEmpty
<1>3. ASSUME NEW s \in Seq(Rec), NEW r \in Rec
      PROVE  Value(0, Append(s, r)) = Value(0, s) + r.size
  BY ValueAppend
<1>4. ASSUME NEW s \in Seq(Rec)
      PROVE  Value(0, s) \in Nat
  <2>1. \A v \in Nat, r \in Rec : v + r.size \in Nat
    BY RowSize
  <2>2. 0 \in Nat
    OBVIOUS
  <2>. QED  BY <2>1, <2>2, ValueType
<1>. QED  BY <1>1, <1>2, <1>3, <1>4

(* Cutting a queue in two divides its bytes.                               *)
LEMMA BytesSplit ==
  ASSUME NEW s \in Seq(Rec), NEW d \in 0 .. Len(s)
  PROVE  Bytes(s) = Bytes(SubSeq(s, 1, d)) + Bytes(SubSeq(s, d + 1, Len(s)))
<1>. DEFINE Fore(n) == SubSeq(s, 1, n)
            Back(n) == SubSeq(s, d + 1, n)
            T == {n \in Nat : d + n <= Len(s) =>
                                Bytes(Fore(d + n)) = Bytes(Fore(d)) + Bytes(Back(d + n))}
<1>1. 0 \in T
  <2>1. Back(d) = << >> /\ Fore(d) \in Seq(Rec)
    OBVIOUS
  <2>2. Bytes(Fore(d)) \in Nat /\ Bytes(Back(d)) = 0
    BY <2>1, BytesOf
  <2>. QED  BY <2>2
<1>2. ASSUME NEW n \in T, d + (n + 1) <= Len(s)
      PROVE  Bytes(Fore(d + (n + 1))) = Bytes(Fore(d)) + Bytes(Back(d + (n + 1)))
  <2>1. n \in Nat /\ Bytes(Fore(d + n)) = Bytes(Fore(d)) + Bytes(Back(d + n))
    BY <1>2
  <2>. DEFINE r == s[d + (n + 1)]
  <2>2. /\ Fore(d) \in Seq(Rec) /\ Fore(d + n) \in Seq(Rec) /\ Back(d + n) \in Seq(Rec)
        /\ r \in Rec
        /\ Fore(d + (n + 1)) = Append(Fore(d + n), r)
        /\ Back(d + (n + 1)) = Append(Back(d + n), r)
    BY <1>2, <2>1
  <2>3. r.size \in Nat
    BY <2>2, RowSize
  <2>. HIDE DEF Fore, Back, r
  <2>4. /\ Bytes(Fore(d + (n + 1))) = Bytes(Fore(d + n)) + r.size
        /\ Bytes(Back(d + (n + 1))) = Bytes(Back(d + n)) + r.size
        /\ Bytes(Fore(d)) \in Nat /\ Bytes(Back(d + n)) \in Nat
    BY <2>2, BytesOf
  <2>. QED  BY <2>1, <2>3, <2>4
<1>3. \A n \in T \cap Nat : n + 1 \in T
  BY <1>2
<1>. HIDE DEF T
<1>4. Len(s) - d \in T
  BY <1>1, <1>3, Induction
<1>5. d + (Len(s) - d) = Len(s) /\ Fore(Len(s)) = s
  OBVIOUS
<1>. HIDE DEF Fore, Back
<1>6. Bytes(Fore(Len(s))) = Bytes(Fore(d)) + Bytes(Back(Len(s)))
  BY <1>4, <1>5 DEF T
<1>. QED  BY <1>5, <1>6 DEF Fore, Back

(* A flush that is given the true byte count leaves the true byte count.   *)
LEMMA FlushBytes ==
  ASSUME NEW queue \in Seq(Rec), NEW bytes, bytes = Bytes(queue),
         NEW st, NEW table, Flush(queue, bytes, st, table)
  PROVE  qBytes' = Bytes(q') /\ qBytes' <= bytes
<1>. DEFINE batch == BatchOf(queue)
<1>1. /\ q' = SubSeq(queue, Len(batch) + 1, Len(queue))
      /\ qBytes' = bytes - Bytes(batch)
  BY DEF Flush, RestOf
<1>2. /\ batch \in Seq(Rec) /\ Len(batch) \in 0 .. Len(queue)
      /\ batch = SubSeq(queue, 1, Len(batch))
      /\ q' \in Seq(Rec)
  <2>. DEFINE n == IF Len(queue) < BatchRows THEN Len(queue) ELSE BatchRows
  <2>1. n \in 0 .. Len(queue)
    BY CollectorAssumption
  <2>2. batch = SubSeq(queue, 1, n)
    BY DEF BatchOf
  <2>. HIDE DEF n, batch
  <2>3. Len(batch) = n /\ batch \in Seq(Rec)
    BY <2>1, <2>2
  <2>. QED  BY <1>1, <2>1, <2>2, <2>3
<1>. HIDE DEF batch
<1>3. Bytes(queue) = Bytes(batch) + Bytes(q')
  BY <1>1, <1>2, BytesSplit
<1>4. Bytes(batch) \in Nat /\ Bytes(q') \in Nat
  BY <1>2, BytesOf
<1>. QED  BY <1>1, <1>3, <1>4

LEMMA EnqueueBytes ==
  ASSUME q \in Seq(Rec), qBytes = Bytes(q), NEW r \in Rec, NEW st, EnqueueWrite(r, st)
  PROVE  qBytes' = Bytes(q') /\ qBytes' <= QMaxBytes
<1>. DEFINE queue == Append(q, r)
            bytes == qBytes + r.size
<1>1. queue \in Seq(Rec) /\ bytes = Bytes(queue)
  BY BytesOf
<1>. HIDE DEF queue, bytes
<1>2. PICK d \in 0 .. Len(queue) :
        LET kept  == SubSeq(queue, d + 1, Len(queue))
            left  == bytes - Bytes(SubSeq(queue, 1, d))
            after == Inc(st, "dropped_queue", d)
        IN /\ DropsOldest(queue, bytes, d)
           /\ Flush(kept, left, after, events') \/ (q' = kept /\ qBytes' = left)
  BY DEF EnqueueWrite, queue, bytes
<1>. DEFINE kept == SubSeq(queue, d + 1, Len(queue))
            left == bytes - Bytes(SubSeq(queue, 1, d))
<1>3. kept \in Seq(Rec) /\ SubSeq(queue, 1, d) \in Seq(Rec)
  BY <1>1
<1>4. /\ Bytes(kept) \in Nat /\ Bytes(SubSeq(queue, 1, d)) \in Nat
      /\ bytes = Bytes(SubSeq(queue, 1, d)) + Bytes(kept)
  BY <1>1, <1>3, BytesOf, BytesSplit
<1>5. left = Bytes(kept)
  BY <1>4
<1>6. left <= QMaxBytes
  <2>1. CASE left <= QMaxBytes
    BY <2>1
  <2>2. CASE d = Len(queue)
    <3>1. kept = << >>
      BY <1>1, <2>2
    <3>2. left = 0 /\ QMaxBytes \in Nat
      BY <1>5, <3>1, BytesOf, CollectorAssumption
    <3>. QED  BY <3>2
  <2>. QED  BY <1>2, <2>1, <2>2 DEF DropsOldest
<1>7. CASE q' = kept /\ qBytes' = left
  BY <1>5, <1>6, <1>7
<1>8. CASE Flush(kept, left, Inc(st, "dropped_queue", d), events')
  <2>. HIDE DEF kept, left
  <2>1. qBytes' = Bytes(q') /\ qBytes' <= left
    BY <1>3, <1>5, <1>8, FlushBytes
  <2>2. q' \in Seq(Rec)
    <3>1. q' = SubSeq(kept, Len(BatchOf(kept)) + 1, Len(kept))
      BY <1>8 DEF Flush, RestOf
    <3>2. BatchOf(kept) \in Seq(Rec)
      BY <1>3, CollectorAssumption DEF BatchOf
    <3>. QED  BY <1>3, <3>1, <3>2
  <2>3. qBytes' \in Nat /\ left \in Nat /\ QMaxBytes \in Nat
    BY <1>4, <1>5, <2>1, <2>2, BytesOf, CollectorAssumption DEF kept
  <2>. QED  BY <1>6, <2>1, <2>3
<1>. QED  BY <1>2, <1>7, <1>8

(* The byte count of the queue never drifts: neither the loop that drops   *)
(* rows over budget nor the splice of a flush takes off anything but the   *)
(* rows that leave, whatever the sizes of rows, and the budget is kept.    *)
THEOREM ByteBudgetAlwaysKept == Spec => []ByteBudgetKept
<1>1. Init => ByteBudgetKept
  BY DEF Init, ByteBudgetKept, Alive
<1>2. TypeOK /\ ByteBudgetKept /\ [Next]_vars => ByteBudgetKept'
  <2>. SUFFICES ASSUME TypeOK, ByteBudgetKept, [Next]_vars PROVE ByteBudgetKept'
    OBVIOUS
  <2>a. q \in Seq(Rec) /\ pend \in Seq(Rec)
    BY DEF TypeOK
  <2>b. ASSUME UNCHANGED <<q, qBytes>>, Alive' => Alive PROVE ByteBudgetKept'
    BY <2>b DEF ByteBudgetKept
  <2>c. ASSUME Alive, NEW st, NEW table, Flush(q, qBytes, st, table)
        PROVE  ByteBudgetKept'
    <3>1. qBytes = Bytes(q) /\ qBytes <= QMaxBytes /\ Bytes(q) \in Nat
      BY <2>a, <2>c, BytesOf DEF ByteBudgetKept
    <3>2. qBytes' = Bytes(q') /\ qBytes' <= qBytes
      BY <2>a, <2>c, <3>1, FlushBytes
    <3>3. q' \in Seq(Rec)
      <4>1. q' = RestOf(q) /\ BatchRows \in Nat \ {0}
        BY <2>c, CollectorAssumption DEF Flush
      <4>. QED  BY <2>a, <4>1, Splice
    <3>4. Bytes(q') \in Nat /\ QMaxBytes \in Nat
      BY <3>3, BytesOf, CollectorAssumption
    <3>. QED  BY <3>1, <3>2, <3>4 DEF ByteBudgetKept
  <2>1. CASE ReceivePost
    BY <2>1, <2>b DEF ReceivePost, Alive
  <2>2. CASE RejectBody
    BY <2>2, <2>b DEF RejectBody, Alive
  <2>3. ASSUME NEW k \in Keys, AnswerDuplicate(k) PROVE ByteBudgetKept'
    BY <2>3, <2>b DEF AnswerDuplicate, Alive
  <2>4. ASSUME NEW k \in Keys \cup {NoKey}, NEW size \in Sizes, Accept(k, size)
        PROVE  ByteBudgetKept'
    BY <2>4, <2>b DEF Accept, Alive
  <2>5. CASE RunImmediate
    <3>1. CASE durable
      BY <2>5, <3>1, <2>b DEF RunImmediate, Alive
    <3>2. CASE ~durable
      <4>1. Alive /\ Head(pend) \in Rec /\ EnqueueWrite(Head(pend), stats)
        BY <2>a, <2>5, <3>2 DEF RunImmediate
      <4>2. qBytes = Bytes(q)
        BY <4>1 DEF ByteBudgetKept
      <4>. QED  BY <2>a, <4>1, <4>2, EnqueueBytes DEF ByteBudgetKept
    <3>. QED  BY <3>1, <3>2
  <2>6. CASE TimerFlush
    BY <2>6, <2>c DEF TimerFlush
  <2>7. CASE TtlPasses
    BY <2>7, <2>b DEF TtlPasses, Alive
  <2>8. CASE RunRetention
    BY <2>8, <2>c DEF RunRetention
  <2>9. CASE Boot
    BY <2>9, BytesOf, CollectorAssumption DEF Boot, EmptyMemory, ByteBudgetKept
  <2>10. CASE Signal
    BY <2>10, <2>b DEF Signal, memory, Alive
  <2>11. CASE ServerClosed
    BY <2>11 DEF ServerClosed, ByteBudgetKept, Alive
  <2>12. CASE MemoryLost
    BY <2>12 DEF MemoryLost, ByteBudgetKept, Alive
  <2>13. CASE UNCHANGED vars
    BY <2>13, <2>b DEF vars, memory, Alive
  <2>. QED
    BY <2>1, <2>2, <2>3, <2>4, <2>5, <2>6, <2>7, <2>8, <2>9, <2>10, <2>11, <2>12, <2>13
    DEF Next, ForceExit, Crash
<1>. QED  BY <1>1, <1>2, TypeCorrect, PTL DEF Spec

-----------------------------------------------------------------------------
(* The broadcaster.                                                        *)

(* What this process has broadcast lies below what still waits in its      *)
(* callbacks; what earlier processes broadcast carries an earlier id.      *)
StreamedInv ==
  /\ \A s \in streamed : s.id <= Len(acked)
  /\ \A i \in DOMAIN pend : pend[i].id <= Len(acked)
  /\ Alive => \A s \in streamed :
                s.id > mark => s.seq <= SEQ /\ \A i \in DOMAIN pend : s.seq < pend[i].seq

StreamedOnTop ==
  \A r \in streamed' \ streamed : \A s \in streamed : s.id > mark => s.seq < r.seq

LEMMA StreamedStep == TypeOK /\ OrderInv /\ StreamedInv /\ [Next]_vars => StreamedInv' /\ StreamedOnTop
<1>. SUFFICES ASSUME TypeOK, OrderInv, StreamedInv, [Next]_vars PROVE StreamedInv' /\ StreamedOnTop
  OBVIOUS
<1>a. /\ pend \in Seq(Rec) /\ acked \in Seq(Rec) /\ streamed \subseteq Rec
      /\ SEQ \in Nat /\ mark \in Nat /\ Len(acked) \in Nat /\ Len(pend) \in Nat
      /\ DOMAIN pend = 1 .. Len(pend)
  BY DEF TypeOK
<1>b. \A s \in Rec : s.id \in Nat /\ s.seq \in Nat
  BY DEF Rec
<1>c. ASSUME UNCHANGED <<streamed, acked, pend, SEQ, mark>>, Alive' => Alive
      PROVE  StreamedInv' /\ StreamedOnTop
  BY <1>c DEF StreamedInv, StreamedOnTop
<1>1. CASE ReceivePost
  BY <1>1, <1>c DEF ReceivePost, Alive
<1>2. CASE RejectBody
  BY <1>2, <1>c DEF RejectBody, Alive
<1>3. ASSUME NEW k \in Keys, AnswerDuplicate(k) PROVE StreamedInv' /\ StreamedOnTop
  BY <1>3, <1>c DEF AnswerDuplicate, Alive
<1>4. ASSUME NEW k \in Keys \cup {NoKey}, NEW size \in Sizes, Accept(k, size)
      PROVE  StreamedInv' /\ StreamedOnTop
  <2>. DEFINE r == [id |-> Len(acked) + 1, seq |-> SEQ + 1, key |-> k, size |-> size]
  <2>1. r \in Rec /\ r.id = Len(acked) + 1 /\ r.seq = SEQ + 1
    BY <1>a, AcceptType
  <2>2. /\ pend' = Append(pend, r) /\ acked' = Append(acked, r) /\ SEQ' = SEQ + 1
        /\ UNCHANGED <<proc, streamed, mark>> /\ Alive
    BY <1>4 DEF Accept, Defer
  <2>. HIDE DEF r
  <2>3. /\ Len(acked') = Len(acked) + 1
        /\ DOMAIN pend' = 1 .. Len(pend) + 1
        /\ \A i \in DOMAIN pend' : pend'[i] = IF i \in DOMAIN pend THEN pend[i] ELSE r
    BY <1>a, <2>1, <2>2
  <2>4. \A i \in DOMAIN pend : pend[i] \in Rec /\ pend[i].id \in Nat
    BY <1>a, <1>b
  <2>5. \A s \in streamed : s.id \in Nat /\ s.seq \in Nat
    BY <1>a, <1>b
  <2>6. \A s \in streamed : s.id <= Len(acked')
    BY <1>a, <2>2, <2>3, <2>5 DEF StreamedInv
  <2>7. \A i \in DOMAIN pend' : pend'[i].id <= Len(acked')
    BY <1>a, <2>1, <2>3, <2>4 DEF StreamedInv
  <2>8. ASSUME NEW s \in streamed, s.id > mark
        PROVE  s.seq <= SEQ' /\ \A i \in DOMAIN pend' : s.seq < pend'[i].seq
    <3>1. s.seq <= SEQ /\ \A i \in DOMAIN pend : s.seq < pend[i].seq
      BY <2>2, <2>8 DEF StreamedInv
    <3>. QED  BY <1>a, <2>1, <2>2, <2>3, <2>5, <3>1
  <2>. QED  BY <2>2, <2>6, <2>7, <2>8 DEF StreamedInv, StreamedOnTop
<1>5. CASE RunImmediate
  <2>. DEFINE r == Head(pend)
  <2>1. /\ pend # << >> /\ pend' = Tail(pend) /\ streamed' = streamed \cup {r}
        /\ UNCHANGED <<proc, SEQ, acked, mark>> /\ Alive
    BY <1>5 DEF RunImmediate
  <2>2. /\ 1 \in DOMAIN pend /\ r = pend[1] /\ r \in Rec
        /\ \A i \in DOMAIN pend' : i + 1 \in DOMAIN pend /\ 1 < i + 1 /\ pend'[i] = pend[i + 1]
    BY <1>a, <2>1
  <2>. HIDE DEF r
  <2>3. /\ r.seq <= SEQ
        /\ \A i \in DOMAIN pend' : r.seq < pend'[i].seq
    BY <2>1, <2>2 DEF OrderInv, Ascending, Below
  <2>4. \A s \in streamed : s.id > mark =>
          s.seq <= SEQ /\ s.seq < r.seq /\ \A i \in DOMAIN pend' : s.seq < pend'[i].seq
    BY <2>1, <2>2 DEF StreamedInv
  <2>5. r.id <= Len(acked) /\ \A i \in DOMAIN pend' : pend'[i].id <= Len(acked)
    BY <2>2 DEF StreamedInv
  <2>6. \A s \in streamed' : s.id <= Len(acked')
    BY <2>1, <2>5 DEF StreamedInv
  <2>7. \A s \in streamed' : s.id > mark =>
          s.seq <= SEQ /\ \A i \in DOMAIN pend' : s.seq < pend'[i].seq
    BY <2>1, <2>3, <2>4
  <2>. QED  BY <2>1, <2>4, <2>5, <2>6, <2>7 DEF StreamedInv, StreamedOnTop
<1>6. CASE TimerFlush
  BY <1>6, <1>c DEF TimerFlush, Alive
<1>7. CASE TtlPasses
  BY <1>7, <1>c DEF TtlPasses, Alive
<1>8. CASE RunRetention
  BY <1>8, <1>c DEF RunRetention, Alive
<1>9. CASE Boot
  <2>1. pend' = << >> /\ mark' = Len(acked) /\ UNCHANGED <<acked, streamed>>
    BY <1>9 DEF Boot, EmptyMemory
  <2>2. \A s \in streamed : s.id \in Nat /\ ~(s.id > mark')
    BY <1>a, <1>b, <2>1 DEF StreamedInv
  <2>. QED  BY <2>1, <2>2 DEF StreamedInv, StreamedOnTop
<1>10. CASE Signal
  BY <1>10, <1>c DEF Signal, memory, Alive
<1>11. CASE ServerClosed
  BY <1>11, <1>c DEF ServerClosed, Alive
<1>12. CASE MemoryLost
  <2>1. pend' = << >> /\ UNCHANGED <<acked, streamed>> /\ ~Alive'
    BY <1>12 DEF MemoryLost, EmptyMemory, Alive
  <2>. QED  BY <2>1 DEF StreamedInv, StreamedOnTop
<1>13. CASE UNCHANGED vars
  BY <1>13, <1>c DEF vars, memory, Alive
<1>. QED
  BY <1>1, <1>2, <1>3, <1>4, <1>5, <1>6, <1>7, <1>8, <1>9, <1>10, <1>11, <1>12, <1>13
  DEF Next, ForceExit, Crash

(* setImmediate runs the deferred work of a process in the order of its    *)
(* seq, so that a live stream never shows an event below one it has shown, *)
(* however many requests, flushes and restarts come between.               *)
THEOREM AlwaysStreamedInOrder == Spec => StreamedInSeqOrder
<1>1. Init => StreamedInv
  BY DEF Init, StreamedInv
<1>2. TypeOK /\ OrderInv /\ StreamedInv /\ [Next]_vars => StreamedInv' /\ StreamedOnTop
  BY StreamedStep
<1>3. Spec => [](TypeOK /\ OrderInv)
  BY TypeCorrect, OrderAlways, PTL
<1>4. Spec => []StreamedInv
  BY <1>1, <1>2, <1>3, PTL DEF Spec
<1>5. TypeOK /\ OrderInv /\ StreamedInv /\ [Next]_vars
        => [\A r \in streamed' \ streamed :
              \A s \in streamed : s.id > mark => s.seq < r.seq]_vars
  BY <1>2 DEF StreamedOnTop
<1>. QED  BY <1>3, <1>4, <1>5, PTL DEF Spec, StreamedInSeqOrder

-----------------------------------------------------------------------------
(* The dedup map.                                                          *)

(* Ids are places in acked.                                                *)
MapInv ==
  Alive =>
    /\ mark <= Len(acked)
    /\ Len(seen) <= DedupMax
    /\ \A i, j \in DOMAIN seen : seen[i].key = seen[j].key => i = j
    /\ \A i \in DOMAIN seen :
         \E n \in mark + 1 .. Len(acked) : acked[n].key = seen[i].key /\ acked[n].seq = seen[i].seq

(* What is left when the first c elements go.                              *)
LEMMA CutFront ==
  ASSUME NEW S, NEW s \in Seq(S), NEW c \in 0 .. Len(s), NEW t, t = SubSeq(s, c + 1, Len(s))
  PROVE  /\ t \in Seq(S) /\ Len(t) = Len(s) - c /\ DOMAIN t = 1 .. Len(s) - c
         /\ \A i \in DOMAIN t : i \in Int /\ c + i \in DOMAIN s /\ t[i] = s[c + i]
<1>1. t \in Seq(S) /\ Len(t) = Len(s) - c /\ DOMAIN t = 1 .. Len(s) - c
  OBVIOUS
<1>2. \A i \in 1 .. Len(s) - c : i \in Int /\ c + i \in DOMAIN s /\ t[i] = s[c + i]
  OBVIOUS
<1>. QED  BY <1>1, <1>2

(* A map of at most DEDUP_MAX entries, each key once, every entry either   *)
(* the one of k set at n or an entry of seen.                              *)
MapOf(s, k, n) ==
  /\ Len(s) <= DedupMax
  /\ \A i, j \in DOMAIN s : s[i].key = s[j].key => i = j
  /\ \A i \in DOMAIN s : \/ s[i].key = k /\ s[i].seq = n
                         \/ \E j \in DOMAIN seen : s[i] = seen[j]

(* Setting a key replaces its entry in place or appends it, and cutting    *)
(* the front keeps what is left: the entries afterwards are the new one or *)
(* old ones, each key still once.                                          *)
LEMMA SeenAfterMap ==
  ASSUME NEW k \in Keys \cup {NoKey}, NEW n \in Nat,
         seen \in Seq(Seen), DedupMax \in Nat \ {0},
         Len(seen) <= DedupMax,
         \A i, j \in DOMAIN seen : seen[i].key = seen[j].key => i = j
  PROVE  MapOf(SeenAfter(k, n), k, n)
<1>. DEFINE new == [key |-> k, seq |-> n]
            replaced == [i \in DOMAIN seen |-> IF seen[i].key = k THEN new ELSE seen[i]]
            set == IF \E i \in DOMAIN seen : seen[i].key = k THEN replaced
                   ELSE Append(seen, new)
<1>1. CASE k = NoKey
  BY <1>1 DEF SeenAfter, MapOf
<1>2. CASE k # NoKey
  <2>1. new \in Seen /\ new.key = k /\ new.seq = n /\ Len(seen) \in Nat /\ DOMAIN seen = 1 .. Len(seen)
    BY <1>2 DEF Seen
  <2>2. /\ set \in Seq(Seen) /\ Len(set) \in Nat /\ DOMAIN set = 1 .. Len(set)
        /\ \A i, j \in DOMAIN set : set[i].key = set[j].key => i = j
        /\ \A i \in DOMAIN set : set[i] = new \/ \E j \in DOMAIN seen : set[i] = seen[j]
    <3>0. \A i \in DOMAIN seen : seen[i] \in Seen
      OBVIOUS
    <3>1. CASE \E i \in DOMAIN seen : seen[i].key = k
      <4>1. set = replaced
        BY <3>1
      <4>2. replaced \in Seq(Seen) /\ Len(replaced) = Len(seen) /\ DOMAIN replaced = 1 .. Len(seen)
        BY <2>1, <3>0
      <4>3. \A i \in DOMAIN replaced : replaced[i].key = seen[i].key
                                     /\ (replaced[i] = new \/ replaced[i] = seen[i])
        BY <2>1, <4>2
      <4>. HIDE DEF replaced, set
      <4>. QED  BY <2>1, <4>1, <4>2, <4>3
    <3>2. CASE ~ \E i \in DOMAIN seen : seen[i].key = k
      <4>1. set = Append(seen, new)
        BY <3>2
      <4>. HIDE DEF set, new
      <4>2. /\ set \in Seq(Seen) /\ Len(set) = Len(seen) + 1
            /\ DOMAIN set = 1 .. Len(seen) + 1
            /\ \A i \in DOMAIN set : set[i] = IF i \in DOMAIN seen THEN seen[i] ELSE new
        BY <2>1, <4>1
      <4>3. \A i \in DOMAIN set : i \notin DOMAIN seen => i = Len(seen) + 1
        BY <2>1, <4>2
      <4>. QED  BY <2>1, <3>2, <4>2, <4>3
    <3>. QED  BY <3>1, <3>2
  <2>. HIDE DEF set, new
  <2>3. SeenAfter(k, n) = IF Len(set) <= DedupMax THEN set
                          ELSE SubSeq(set, Len(set) - DedupMax + 1, Len(set))
    BY <1>2 DEF SeenAfter, set, new
  <2>4. CASE Len(set) <= DedupMax
    <3>1. SeenAfter(k, n) = set
      BY <2>3, <2>4
    <3>. QED  BY <2>1, <2>2, <2>4, <3>1 DEF MapOf
  <2>5. CASE Len(set) > DedupMax
    <3>. DEFINE c == Len(set) - DedupMax
                s == SubSeq(set, c + 1, Len(set))
    <3>0. Len(set) \in Nat /\ DedupMax \in Nat /\ ~(Len(set) <= DedupMax)
      BY <2>2, <2>5
    <3>1. SeenAfter(k, n) = s
      BY <2>3, <3>0
    <3>2. c \in Nat /\ c <= Len(set) /\ Len(set) - c = DedupMax
      BY <3>0
    <3>. HIDE DEF c
    <3>3. /\ Len(s) = DedupMax
          /\ \A i \in DOMAIN s : i \in Int /\ c + i \in DOMAIN set /\ s[i] = set[c + i]
      <4>1. c \in 0 .. Len(set)
        BY <3>0, <3>2
      <4>. HIDE DEF s
      <4>2. s = SubSeq(set, c + 1, Len(set))
        BY DEF s
      <4>. QED  BY <2>2, <3>2, <4>1, <4>2, CutFront
    <3>. HIDE DEF s
    <3>5. \A i, j \in DOMAIN s : s[i].key = s[j].key => i = j
      <4>. SUFFICES ASSUME NEW i \in DOMAIN s, NEW j \in DOMAIN s, s[i].key = s[j].key PROVE i = j
        OBVIOUS
      <4>1. c + i = c + j
        BY <2>2, <3>3
      <4>. QED  BY <3>2, <3>3, <4>1
    <3>6. \A i \in DOMAIN s : s[i] = new \/ \E j \in DOMAIN seen : s[i] = seen[j]
      BY <2>2, <3>3
    <3>7. Len(s) <= DedupMax
      BY <3>0, <3>3
    <3>. QED  BY <2>1, <3>1, <3>5, <3>6, <3>7 DEF MapOf
  <2>. QED  BY <2>2, <2>4, <2>5
<1>. QED  BY <1>1, <1>2

LEMMA MapStep == TypeOK /\ MapInv /\ [Next]_vars => MapInv'
<1>. SUFFICES ASSUME TypeOK, MapInv, [Next]_vars PROVE MapInv'
  OBVIOUS
<1>a. /\ seen \in Seq(Seen) /\ acked \in Seq(Rec)
      /\ SEQ \in Nat /\ mark \in Nat /\ Len(acked) \in Nat
      /\ DedupMax \in Nat \ {0}
  BY CollectorAssumption DEF TypeOK, Seen
<1>b. ASSUME UNCHANGED <<seen, acked, mark>>, Alive' => Alive
      PROVE  MapInv'
  BY <1>b DEF MapInv
<1>1. CASE ReceivePost
  BY <1>1, <1>b DEF ReceivePost, Alive
<1>2. CASE RejectBody
  BY <1>2, <1>b DEF RejectBody, Alive
<1>3. ASSUME NEW k \in Keys, AnswerDuplicate(k) PROVE MapInv'
  BY <1>3, <1>b DEF AnswerDuplicate, Alive
<1>4. ASSUME NEW k \in Keys \cup {NoKey}, NEW size \in Sizes, Accept(k, size)
      PROVE  MapInv'
  <2>. DEFINE r == [id |-> Len(acked) + 1, seq |-> SEQ + 1, key |-> k, size |-> size]
  <2>1. r \in Rec /\ r.seq = SEQ + 1 /\ r.key = k
    BY <1>a, AcceptType
  <2>2. /\ seen' = SeenAfter(k, SEQ + 1) /\ acked' = Append(acked, r)
        /\ UNCHANGED <<proc, mark>> /\ Alive
    BY <1>4 DEF Accept
  <2>. HIDE DEF r
  <2>3. /\ mark <= Len(acked) /\ Len(seen) <= DedupMax
        /\ \A i, j \in DOMAIN seen : seen[i].key = seen[j].key => i = j
        /\ \A i \in DOMAIN seen :
             \E n \in mark + 1 .. Len(acked) : acked[n].key = seen[i].key /\ acked[n].seq = seen[i].seq
    BY <2>2 DEF MapInv
  <2>4. /\ Len(seen') <= DedupMax
        /\ \A i, j \in DOMAIN seen' : seen'[i].key = seen'[j].key => i = j
        /\ \A i \in DOMAIN seen' : \/ seen'[i].key = k /\ seen'[i].seq = SEQ + 1
                                   \/ \E j \in DOMAIN seen : seen'[i] = seen[j]
    <3>1. SEQ + 1 \in Nat
      BY <1>a
    <3>2. MapOf(seen', k, SEQ + 1)
      BY <1>a, <2>2, <2>3, <3>1, SeenAfterMap
    <3>. QED  BY <3>2 DEF MapOf
  <2>5. /\ Len(acked') = Len(acked) + 1 /\ acked'[Len(acked) + 1] = r
        /\ \A n \in 1 .. Len(acked) : acked'[n] = acked[n]
    BY <1>a, <2>1, <2>2
  <2>6. /\ mark' <= Len(acked')
        /\ \A n \in mark + 1 .. Len(acked) : n \in mark' + 1 .. Len(acked') /\ n \in 1 .. Len(acked)
        /\ Len(acked) + 1 \in mark' + 1 .. Len(acked')
    BY <1>a, <2>2, <2>3, <2>5
  <2>7. ASSUME NEW i \in DOMAIN seen'
        PROVE  \E n \in mark' + 1 .. Len(acked') :
                 acked'[n].key = seen'[i].key /\ acked'[n].seq = seen'[i].seq
    <3>1. CASE seen'[i].key = k /\ seen'[i].seq = SEQ + 1
      BY <2>1, <2>5, <2>6, <3>1
    <3>2. ASSUME NEW j \in DOMAIN seen, seen'[i] = seen[j]
          PROVE  \E n \in mark' + 1 .. Len(acked') :
                   acked'[n].key = seen'[i].key /\ acked'[n].seq = seen'[i].seq
      <4>1. PICK n \in mark + 1 .. Len(acked) : acked[n].key = seen[j].key /\ acked[n].seq = seen[j].seq
        BY <2>3
      <4>. QED  BY <2>5, <2>6, <3>2, <4>1
    <3>. QED  BY <2>4, <3>1, <3>2
  <2>. QED  BY <2>4, <2>6, <2>7 DEF MapInv
<1>5. CASE RunImmediate
  BY <1>5, <1>b DEF RunImmediate, Alive
<1>6. CASE TimerFlush
  BY <1>6, <1>b DEF TimerFlush, Alive
<1>7. CASE TtlPasses
  BY <1>7, <1>b DEF TtlPasses, Alive
<1>8. CASE RunRetention
  BY <1>8, <1>b DEF RunRetention, Alive
<1>9. CASE Boot
  <2>1. seen' = << >> /\ mark' = Len(acked) /\ acked' = acked
    BY <1>9 DEF Boot, EmptyMemory
  <2>2. Len(<< >>) = 0 /\ DOMAIN << >> = {}
    OBVIOUS
  <2>. QED  BY <1>a, <2>1, <2>2 DEF MapInv
<1>10. CASE Signal
  BY <1>10, <1>b DEF Signal, memory, Alive
<1>11. CASE ServerClosed
  BY <1>11, <1>b DEF ServerClosed, Alive
<1>12. CASE MemoryLost
  BY <1>12 DEF MemoryLost, MapInv, Alive
<1>13. CASE UNCHANGED vars
  BY <1>13, <1>b DEF vars, memory, Alive
<1>. QED
  BY <1>1, <1>2, <1>3, <1>4, <1>5, <1>6, <1>7, <1>8, <1>9, <1>10, <1>11, <1>12, <1>13
  DEF Next, ForceExit, Crash

(* dedupHit never answers for a call whose event this process has not      *)
(* itself accepted, and the loop over seen.keys() keeps the map in bounds. *)
THEOREM DedupMapAlwaysSound == Spec => []DedupMapSound
<1>1. Init => MapInv
  BY DEF Init, MapInv, Alive
<1>2. TypeOK /\ MapInv /\ [Next]_vars => MapInv'
  BY MapStep
<1>3. TypeOK /\ MapInv => DedupMapSound
  BY DEF MapInv, DedupMapSound, Mine
<1>. QED  BY <1>1, <1>2, <1>3, TypeCorrect, PTL DEF Spec

-----------------------------------------------------------------------------
(* Loss.                                                                   *)

(* What GET /health counts of the events that do not reach the table.      *)
Excused(st) == st["dropped_queue"] + st["bad_row"] + st["spilled"]

(* Not lost by a handler that leaves table behind: still queued, stored,   *)
(* spilled, or the same call as a row that is.                             *)
Safe(r, table) ==
  \/ r \in Elems(q') \cup table \cup spillFile'
  \/ r.key # NoKey /\ \E s \in table : s.key = r.key

(* A handler that found `queue' loses no more than the set lost of its     *)
(* rows, and its counters rise by as much as that and what it spills.      *)
Loses(queue, st, table) ==
  \E lost, put \in SUBSET Elems(queue) :
    /\ IsFiniteSet(lost) /\ IsFiniteSet(put)
    /\ \A r \in Elems(queue) \ lost : Safe(r, table)
    /\ spillFile \subseteq spillFile' /\ spillFile' \subseteq spillFile \cup put
    /\ Excused(st) + Cardinality(lost) + Cardinality(put) <= Excused(stats')

LEMMA ExcusedType ==
  ASSUME NEW st \in [Counters -> Nat]
  PROVE  Excused(st) \in Nat
BY DEF Excused, Counters

(* The rows at a set of places are no more than the places.                *)
LEMMA RowsAt ==
  ASSUME NEW s, NEW I, IsFiniteSet(I)
  PROVE  /\ IsFiniteSet({s[i] : i \in I})
         /\ Cardinality({s[i] : i \in I}) <= Cardinality(I)
         /\ Cardinality({s[i] : i \in I}) \in Nat /\ Cardinality(I) \in Nat
<1>. DEFINE R == {s[i] : i \in I}
            f == [i \in I |-> s[i]]
<1>1. f \in Surjection(I, R)
  BY DEF Surjection
<1>2. IsFiniteSet(R) /\ Cardinality(R) <= Cardinality(I)
  BY <1>1, FS_Surjection
<1>. QED  BY <1>2, FS_CardinalityType

LEMMA ElemsFinite ==
  ASSUME NEW S, NEW s \in Seq(S)
  PROVE  IsFiniteSet(Elems(s)) /\ Cardinality(Elems(s)) \in 0 .. Len(s)
<1>1. DOMAIN s = 1 .. Len(s) /\ Len(s) \in Nat
  OBVIOUS
<1>2. IsFiniteSet(1 .. Len(s)) /\ Cardinality(1 .. Len(s)) = Len(s)
  <2>1. /\ IsFiniteSet(1 .. Len(s))
        /\ Cardinality(1 .. Len(s)) = IF 1 > Len(s) THEN 0 ELSE Len(s) - 1 + 1
    BY <1>1, FS_Interval
  <2>. QED  BY <1>1, <2>1
<1>3. /\ IsFiniteSet({s[i] : i \in DOMAIN s})
      /\ Cardinality({s[i] : i \in DOMAIN s}) <= Cardinality(DOMAIN s)
      /\ Cardinality({s[i] : i \in DOMAIN s}) \in Nat
  BY <1>1, <1>2, RowsAt
<1>. QED  BY <1>1, <1>2, <1>3 DEF Elems

(* Inserting a batch counts as excused exactly the rows that throw.        *)
LEMMA AfterInsertsExcused ==
  ASSUME NEW st \in [Counters -> Nat], NEW batch \in Seq(Rec), NEW bad \in SUBSET DOMAIN batch
  PROVE  /\ AfterInserts(st, batch, bad) \in [Counters -> Nat]
         /\ Excused(AfterInserts(st, batch, bad)) = Excused(st) + Cardinality(bad)
<1>1. Len(batch) - Cardinality(bad) \in Nat /\ Cardinality(bad) \in Nat
  <2>1. Cardinality(bad) \in 0 .. Len(batch) /\ Len(batch) \in Nat
    BY BadRows
  <2>. QED  BY <2>1
<1>2. "flushed" \in Counters /\ "bad_row" \in Counters
  BY DEF Counters
<1>. DEFINE s1 == Inc(st, "flushed", Len(batch) - Cardinality(bad))
            s2 == AfterInserts(st, batch, bad)
<1>3. /\ s1 \in [Counters -> Nat]
      /\ \A d \in Counters : d # "flushed" => s1[d] = st[d]
  BY <1>1, <1>2, IncType
<1>4. s2 = Inc(s1, "bad_row", Cardinality(bad))
  BY DEF AfterInserts
<1>. HIDE DEF s1, s2
<1>5. /\ s2 \in [Counters -> Nat]
      /\ s2["bad_row"] = s1["bad_row"] + Cardinality(bad)
      /\ \A d \in Counters : d # "bad_row" => s2[d] = s1[d]
  BY <1>1, <1>2, <1>3, <1>4, IncType, ZenonT(40)
<1>6. /\ s2["bad_row"] = st["bad_row"] + Cardinality(bad)
      /\ s2["dropped_queue"] = st["dropped_queue"] /\ s2["spilled"] = st["spilled"]
      /\ st["bad_row"] \in Nat /\ st["dropped_queue"] \in Nat /\ st["spilled"] \in Nat
  BY <1>3, <1>5 DEF Counters
<1>7. Excused(s2) = Excused(st) + Cardinality(bad)
  BY <1>1, <1>6 DEF Excused
<1>. QED  BY <1>5, <1>7 DEF s2

LEMMA ElemsConcat ==
  ASSUME NEW S, NEW s \in Seq(S), NEW t \in Seq(S)
  PROVE  Elems(s \o t) = Elems(s) \cup Elems(t)
<1>1. /\ DOMAIN (s \o t) = 1 .. Len(s) + Len(t) /\ DOMAIN s = 1 .. Len(s) /\ DOMAIN t = 1 .. Len(t)
      /\ Len(s) \in Nat /\ Len(t) \in Nat
      /\ \A i \in DOMAIN (s \o t) : (s \o t)[i] = IF i <= Len(s) THEN s[i] ELSE t[i - Len(s)]
  OBVIOUS
<1>2. ASSUME NEW x \in Elems(s \o t) PROVE x \in Elems(s) \cup Elems(t)
  <2>1. PICK i \in DOMAIN (s \o t) : x = (s \o t)[i]
    BY DEF Elems
  <2>2. CASE i <= Len(s)
    <3>1. i \in DOMAIN s /\ x = s[i]
      BY <1>1, <2>1, <2>2
    <3>. QED  BY <3>1 DEF Elems
  <2>3. CASE ~(i <= Len(s))
    <3>1. i - Len(s) \in DOMAIN t /\ x = t[i - Len(s)]
      BY <1>1, <2>1, <2>3
    <3>. QED  BY <3>1 DEF Elems
  <2>. QED  BY <2>2, <2>3
<1>3. \A i \in DOMAIN s : s[i] \in Elems(s \o t)
  <2>. SUFFICES ASSUME NEW i \in DOMAIN s PROVE s[i] \in Elems(s \o t)
    OBVIOUS
  <2>1. i \in DOMAIN (s \o t) /\ (s \o t)[i] = s[i]
    BY <1>1
  <2>. QED  BY <2>1 DEF Elems
<1>4. \A i \in DOMAIN t : t[i] \in Elems(s \o t)
  <2>. SUFFICES ASSUME NEW i \in DOMAIN t PROVE t[i] \in Elems(s \o t)
    OBVIOUS
  <2>1. Len(s) + i \in DOMAIN (s \o t) /\ (s \o t)[Len(s) + i] = t[i]
    BY <1>1
  <2>. QED  BY <2>1 DEF Elems
<1>5. Elems(s) \subseteq Elems(s \o t) /\ Elems(t) \subseteq Elems(s \o t)
  BY <1>3, <1>4 DEF Elems
<1>. QED  BY <1>2, <1>5

(* A committed batch loses the rows that throw and no other: a row that is *)
(* ignored has the key of a row in the table, for its seq is free.         *)
LEMMA CommitLoses ==
  ASSUME events \subseteq Rec,
         NEW batch \in Seq(Rec), NEW st \in [Counters -> Nat], NEW table,
         Ascending(batch), RowsBefore(events, batch),
         Commit(batch, st, table)
  PROVE  \E lost \in SUBSET Elems(batch) :
           /\ IsFiniteSet(lost)
           /\ \A r \in Elems(batch) \ lost :
                r \in table \/ (r.key # NoKey /\ \E s \in table : s.key = r.key)
           /\ spillFile' = spillFile
           /\ Excused(st) + Cardinality(lost) <= Excused(stats')
<1>1. PICK bad \in SUBSET DOMAIN batch, ins \in SUBSET DOMAIN batch :
        /\ Lands(batch, bad, ins)
        /\ table = events \cup {batch[i] : i \in ins}
        /\ stats' = AfterInserts(st, batch, bad)
        /\ spillFile' = spillFile
  BY DEF Commit
<1>. DEFINE lost == {batch[i] : i \in bad}
<1>2. /\ DOMAIN batch = 1 .. Len(batch) /\ Len(batch) \in Nat
      /\ \A i \in DOMAIN batch : batch[i] \in Rec /\ batch[i].seq \in Nat
  BY SeqElements
<1>3. IsFiniteSet(bad) /\ Cardinality(bad) \in 0 .. Len(batch)
  <2>1. IsFiniteSet(1 .. Len(batch))
    BY <1>2, FS_Interval
  <2>. QED  BY <1>2, <2>1, FS_Subset, BadRows
<1>4. /\ IsFiniteSet(lost) /\ Cardinality(lost) <= Cardinality(bad)
      /\ Cardinality(lost) \in Nat /\ Cardinality(bad) \in Nat
  BY <1>3, RowsAt
<1>5. lost \in SUBSET Elems(batch)
  BY DEF Elems
<1>6. ASSUME NEW i \in DOMAIN batch, i \notin bad
      PROVE  \/ batch[i] \in table
             \/ batch[i].key # NoKey /\ \E s \in table : s.key = batch[i].key
  <2>1. CASE i \in ins
    BY <1>1, <2>1
  <2>2. ASSUME NEW r \in events, Conflict(batch[i], r)
        PROVE  batch[i].key # NoKey /\ \E s \in table : s.key = batch[i].key
    <3>1. r.seq < batch[i].seq /\ r.seq \in Nat /\ batch[i].seq \in Nat
      BY <1>2 DEF RowsBefore, Rec
    <3>. QED  BY <1>1, <2>2, <3>1 DEF Conflict
  <2>3. ASSUME NEW j \in ins, j < i, Conflict(batch[i], batch[j])
        PROVE  batch[i].key # NoKey /\ \E s \in table : s.key = batch[i].key
    <3>1. batch[j].seq < batch[i].seq /\ batch[j].seq \in Nat /\ batch[i].seq \in Nat
      BY <1>2, <2>3 DEF Ascending
    <3>. QED  BY <1>1, <2>3, <3>1 DEF Conflict
  <2>. QED  BY <1>1, <1>6, <2>1, <2>2, <2>3 DEF Lands
<1>7. \A r \in Elems(batch) \ lost :
        r \in table \/ (r.key # NoKey /\ \E s \in table : s.key = r.key)
  BY <1>6 DEF Elems
<1>8. Excused(st) + Cardinality(lost) <= Excused(stats')
  <2>1. Excused(stats') = Excused(st) + Cardinality(bad) /\ Excused(st) \in Nat
    BY <1>1, AfterInsertsExcused, ExcusedType
  <2>. QED  BY <1>4, <2>1
<1>. QED  BY <1>1, <1>4, <1>5, <1>7, <1>8

(* A batch that is spilled is on disk, or lost and counted as spilled.     *)
LEMMA SpillLoses ==
  ASSUME NEW batch \in Seq(Rec), NEW st \in [Counters -> Nat], NEW table,
         Spill(batch, st, table)
  PROVE  \E lost, put \in SUBSET Elems(batch) :
           /\ IsFiniteSet(lost) /\ IsFiniteSet(put)
           /\ \A r \in Elems(batch) \ lost : r \in spillFile'
           /\ spillFile \subseteq spillFile' /\ spillFile' \subseteq spillFile \cup put
           /\ Excused(st) + Cardinality(lost) + Cardinality(put) <= Excused(stats')
<1>1. /\ IsFiniteSet(Elems(batch)) /\ Cardinality(Elems(batch)) \in 0 .. Len(batch)
      /\ Len(batch) \in Nat /\ IsFiniteSet({}) /\ Cardinality({}) = 0
  BY ElemsFinite, FS_EmptySet
<1>2. Excused(st) + Len(batch) <= Excused(stats')
  <2>1. ASSUME NEW s1 \in [Counters -> Nat], Excused(st) <= Excused(s1),
               stats' = Inc(s1, "spilled", Len(batch))
        PROVE  Excused(st) + Len(batch) <= Excused(stats')
    <3>1. /\ stats' \in [Counters -> Nat]
          /\ stats'["spilled"] = s1["spilled"] + Len(batch)
          /\ \A d \in Counters : d # "spilled" => stats'[d] = s1[d]
      <4>1. "spilled" \in Counters
        BY DEF Counters
      <4>. QED  BY <1>1, <2>1, <4>1, IncType
    <3>2. stats'["bad_row"] = s1["bad_row"] /\ stats'["dropped_queue"] = s1["dropped_queue"]
      BY <3>1 DEF Counters
    <3>3. /\ s1["bad_row"] \in Nat /\ s1["dropped_queue"] \in Nat /\ s1["spilled"] \in Nat
      BY DEF Counters
    <3>4. Excused(stats') = Excused(s1) + Len(batch)
      BY <1>1, <3>1, <3>2, <3>3 DEF Excused
    <3>. QED  BY <1>1, <2>1, <3>4, ExcusedType
  <2>2. CASE stats' = Inc(st, "spilled", Len(batch))
    <3>1. Excused(st) <= Excused(st)
      BY ExcusedType
    <3>. QED  BY <2>1, <2>2, <3>1
  <2>3. ASSUME NEW bad \in SUBSET DOMAIN batch,
               stats' = Inc(AfterInserts(st, batch, bad), "spilled", Len(batch))
        PROVE  Excused(st) + Len(batch) <= Excused(stats')
    <3>1. Cardinality(bad) \in Nat /\ Excused(st) \in Nat
      BY <1>1, BadRows, ExcusedType
    <3>2. /\ AfterInserts(st, batch, bad) \in [Counters -> Nat]
          /\ Excused(st) <= Excused(AfterInserts(st, batch, bad))
      BY <3>1, AfterInsertsExcused
    <3>. QED  BY <2>1, <2>3, <3>2
  <2>. QED  BY <2>2, <2>3 DEF Spill
<1>3. Excused(st) \in Nat /\ Excused(stats') \in Nat
  <2>1. stats' \in [Counters -> Nat]
    <3>1. "spilled" \in Counters
      BY DEF Counters
    <3>2. CASE stats' = Inc(st, "spilled", Len(batch))
      BY <1>1, <3>1, <3>2, IncType
    <3>3. ASSUME NEW bad \in SUBSET DOMAIN batch,
                 stats' = Inc(AfterInserts(st, batch, bad), "spilled", Len(batch))
          PROVE  stats' \in [Counters -> Nat]
      <4>1. AfterInserts(st, batch, bad) \in [Counters -> Nat]
        BY AfterInsertsExcused
      <4>. HIDE DEF AfterInserts
      <4>. QED  BY <1>1, <3>1, <3>3, <4>1, IncType
    <3>. QED  BY <3>2, <3>3 DEF Spill
  <2>. QED  BY <2>1, ExcusedType
<1>. DEFINE P(lost, put) ==
           /\ IsFiniteSet(lost) /\ IsFiniteSet(put)
           /\ \A r \in Elems(batch) \ lost : r \in spillFile'
           /\ spillFile \subseteq spillFile' /\ spillFile' \subseteq spillFile \cup put
           /\ Excused(st) + Cardinality(lost) + Cardinality(put) <= Excused(stats')
<1>4. Excused(st) + 0 + Cardinality(Elems(batch)) <= Excused(stats')
  BY <1>1, <1>2, <1>3
<1>5. Excused(st) + Cardinality(Elems(batch)) + 0 <= Excused(stats')
  BY <1>1, <1>2, <1>3
<1>6. CASE spillFile' = spillFile \cup Elems(batch)
  <2>1. P({}, Elems(batch))
    BY <1>1, <1>4, <1>6
  <2>. QED  BY <2>1
<1>7. CASE spillFile' = spillFile
  <2>1. P(Elems(batch), {})
    BY <1>1, <1>5, <1>7
  <2>. QED  BY <2>1
<1>. QED  BY <1>6, <1>7 DEF Spill


(* Counting n dropped rows excuses n of them.                              *)
LEMMA DroppedExcused ==
  ASSUME NEW st \in [Counters -> Nat], NEW n \in Nat
  PROVE  /\ Inc(st, "dropped_queue", n) \in [Counters -> Nat]
         /\ Excused(Inc(st, "dropped_queue", n)) = Excused(st) + n
<1>. DEFINE s1 == Inc(st, "dropped_queue", n)
<1>1. "dropped_queue" \in Counters
  BY DEF Counters
<1>2. /\ s1 \in [Counters -> Nat]
      /\ s1["dropped_queue"] = st["dropped_queue"] + n
      /\ \A d \in Counters : d # "dropped_queue" => s1[d] = st[d]
  BY <1>1, IncType
<1>. HIDE DEF s1
<1>3. s1["bad_row"] = st["bad_row"] /\ s1["spilled"] = st["spilled"]
  BY <1>2 DEF Counters
<1>4. /\ st["bad_row"] \in Nat /\ st["dropped_queue"] \in Nat /\ st["spilled"] \in Nat
  BY DEF Counters
<1>5. Excused(s1) = Excused(st) + n
  BY <1>2, <1>3, <1>4 DEF Excused
<1>. QED  BY <1>2, <1>5 DEF s1

(* One flush(): its batch is stored, spilled, dropped or refused, and the  *)
(* rest stays queued.                                                      *)
LEMMA FlushLoses ==
  ASSUME db \in BOOLEAN, events \subseteq Rec,
         NEW queue \in Seq(Rec), NEW bytes, NEW st \in [Counters -> Nat], NEW table,
         Ascending(queue), db => RowsBefore(events, queue),
         Flush(queue, bytes, st, table)
  PROVE  Loses(queue, st, table)
<1>. DEFINE batch == BatchOf(queue)
<1>1. /\ batch \in Seq(Rec) /\ q' = RestOf(queue) /\ RestOf(queue) \in Seq(Rec)
      /\ Len(batch) \in Nat
      /\ \A i \in DOMAIN batch : i \in DOMAIN queue /\ batch[i] = queue[i]
  <2>1. BatchRows \in Nat \ {0} /\ q' = RestOf(queue)
    BY CollectorAssumption DEF Flush
  <2>2. Len(batch) \in Nat
    <3>1. batch \in Seq(Rec)
      BY <2>1, Splice
    <3>. HIDE DEF batch
    <3>. QED  BY <3>1
  <2>. QED  BY <2>1, <2>2, Splice
<1>2. \A r \in Elems(queue) : r \in Elems(batch) \/ r \in Elems(q')
  <2>. SUFFICES ASSUME NEW i \in DOMAIN queue PROVE queue[i] \in Elems(batch) \cup Elems(q')
    BY DEF Elems
  <2>. DEFINE n == IF Len(queue) < BatchRows THEN Len(queue) ELSE BatchRows
  <2>1. n \in 0 .. Len(queue) /\ i \in 1 .. Len(queue)
    BY CollectorAssumption
  <2>2. batch = SubSeq(queue, 1, n)
    BY DEF BatchOf
  <2>. HIDE DEF n, batch
  <2>3. Len(batch) = n /\ DOMAIN batch = 1 .. n /\ \A j \in 1 .. n : batch[j] = queue[j]
    BY <2>1, <2>2
  <2>4. q' = SubSeq(queue, n + 1, Len(queue))
    BY <1>1, <2>3 DEF RestOf, batch
  <2>5. CASE i <= n
    <3>1. i \in DOMAIN batch /\ batch[i] = queue[i]
      BY <2>1, <2>3, <2>5
    <3>. QED  BY <3>1 DEF Elems
  <2>6. CASE i > n
    <3>1. i - n \in DOMAIN q' /\ q'[i - n] = queue[i]
      BY <2>1, <2>4, <2>6
    <3>. QED  BY <3>1 DEF Elems
  <2>. QED  BY <2>1, <2>5, <2>6
<1>3. Elems(batch) \subseteq Elems(queue)
  BY <1>1 DEF Elems
<1>4. /\ IsFiniteSet(Elems(batch)) /\ Cardinality(Elems(batch)) \in 0 .. Len(batch)
      /\ IsFiniteSet({}) /\ Cardinality({}) = 0
  BY <1>1, ElemsFinite, FS_EmptySet
<1>5. ASSUME NEW lost \in SUBSET Elems(batch), NEW put \in SUBSET Elems(batch),
             IsFiniteSet(lost), IsFiniteSet(put),
             \A r \in Elems(batch) \ lost : Safe(r, table),
             spillFile \subseteq spillFile', spillFile' \subseteq spillFile \cup put,
             Excused(st) + Cardinality(lost) + Cardinality(put) <= Excused(stats')
      PROVE  Loses(queue, st, table)
  <2>1. \A r \in Elems(queue) \ lost : Safe(r, table)
    BY <1>2, <1>5 DEF Safe
  <2>2. lost \in SUBSET Elems(queue) /\ put \in SUBSET Elems(queue)
    BY <1>3
  <2>. QED  BY <1>5, <2>1, <2>2 DEF Loses
<1>6. CASE queue = << >>
  <2>1. stats' = st /\ spillFile' = spillFile /\ Elems(queue) = {}
    BY <1>6 DEF Flush, Elems
  <2>2. Excused(st) + Cardinality({}) + Cardinality({}) <= Excused(stats')
    BY <1>4, <2>1, ExcusedType
  <2>. QED  BY <1>4, <2>1, <2>2 DEF Loses
<1>7. CASE queue # << >> /\ ~db
  <2>1. stats' = Inc(st, "dropped_queue", Len(batch)) /\ spillFile' = spillFile
    BY <1>7 DEF Flush
  <2>2. Excused(stats') = Excused(st) + Len(batch) /\ Excused(st) \in Nat
    BY <1>1, <2>1, DroppedExcused, ExcusedType
  <2>3. Excused(st) + Cardinality(Elems(batch)) + Cardinality({}) <= Excused(stats')
    BY <1>1, <1>4, <2>2
  <2>. QED  BY <1>4, <1>5, <2>1, <2>3
<1>8. CASE queue # << >> /\ db
  <2>1. Ascending(batch) /\ RowsBefore(events, batch)
    BY <1>1, <1>8 DEF Ascending, RowsBefore
  <2>2. CASE Commit(batch, st, table)
    <3>1. PICK lost \in SUBSET Elems(batch) :
            /\ IsFiniteSet(lost)
            /\ \A r \in Elems(batch) \ lost :
                 r \in table \/ (r.key # NoKey /\ \E s \in table : s.key = r.key)
            /\ spillFile' = spillFile
            /\ Excused(st) + Cardinality(lost) <= Excused(stats')
      BY <1>1, <2>1, <2>2, CommitLoses
    <3>2. \A r \in Elems(batch) \ lost : Safe(r, table)
      BY <3>1 DEF Safe
    <3>3. Excused(st) \in Nat /\ Cardinality(lost) \in Nat
      BY <3>1, ExcusedType, FS_CardinalityType
    <3>4. Excused(st) + Cardinality(lost) + Cardinality({}) <= Excused(stats')
      BY <1>4, <3>1, <3>3
    <3>. QED  BY <1>4, <1>5, <3>1, <3>2, <3>4
  <2>3. CASE Spill(batch, st, table)
    <3>1. PICK lost \in SUBSET Elems(batch), put \in SUBSET Elems(batch) :
            /\ IsFiniteSet(lost) /\ IsFiniteSet(put)
            /\ \A r \in Elems(batch) \ lost : r \in spillFile'
            /\ spillFile \subseteq spillFile' /\ spillFile' \subseteq spillFile \cup put
            /\ Excused(st) + Cardinality(lost) + Cardinality(put) <= Excused(stats')
      BY <1>1, <2>3, SpillLoses
    <3>2. \A r \in Elems(batch) \ lost : Safe(r, table)
      BY <3>1 DEF Safe
    <3>. QED  BY <1>5, <3>1, <3>2
  <2>. QED  BY <1>8, <2>2, <2>3 DEF Flush
<1>. QED  BY <1>6, <1>7, <1>8

(* enqueueWrite: what it drops over budget is counted, and a flush loses   *)
(* no more than FlushLoses says.                                           *)
LEMMA EnqueueLoses ==
  ASSUME db \in BOOLEAN, events \subseteq Rec, spillFile \subseteq Rec, q \in Seq(Rec),
         NEW r \in Rec, NEW st \in [Counters -> Nat],
         Ascending(Append(q, r)), db => RowsBefore(events, Append(q, r)),
         EnqueueWrite(r, st)
  PROVE  Loses(Append(q, r), st, events')
<1>. DEFINE queue == Append(q, r)
            bytes == qBytes + r.size
<1>1. queue \in Seq(Rec) /\ Len(queue) \in Nat /\ DOMAIN queue = 1 .. Len(queue)
  OBVIOUS
<1>. HIDE DEF queue
<1>2. PICK d \in 0 .. Len(queue) :
        LET kept  == SubSeq(queue, d + 1, Len(queue))
            left  == bytes - Bytes(SubSeq(queue, 1, d))
            after == Inc(st, "dropped_queue", d)
        IN \/ Flush(kept, left, after, events')
           \/ q' = kept /\ stats' = after /\ spillFile' = spillFile
  BY DEF EnqueueWrite, queue
<1>. DEFINE kept == SubSeq(queue, d + 1, Len(queue))
            left == bytes - Bytes(SubSeq(queue, 1, d))
            after == Inc(st, "dropped_queue", d)
            over == {queue[i] : i \in 1 .. d}
<1>3. /\ after \in [Counters -> Nat] /\ Excused(after) = Excused(st) + d
      /\ Excused(st) \in Nat /\ d \in Nat
  BY <1>1, DroppedExcused, ExcusedType
<1>. HIDE DEF left, after
<1>4. /\ kept \in Seq(Rec)
      /\ \A i \in DOMAIN kept : i \in Int /\ d + i \in DOMAIN queue /\ kept[i] = queue[d + i]
  <2>. HIDE DEF kept
  <2>. QED  BY <1>1, CutFront DEF kept
<1>5. /\ IsFiniteSet(over) /\ Cardinality(over) \in Nat /\ Cardinality(over) <= d
  <2>1. IsFiniteSet(1 .. d) /\ Cardinality(1 .. d) = d
    <3>1. /\ IsFiniteSet(1 .. d)
          /\ Cardinality(1 .. d) = IF 1 > d THEN 0 ELSE d - 1 + 1
      BY <1>3, FS_Interval
    <3>. QED  BY <1>3, <3>1
  <2>. QED  BY <2>1, RowsAt
<1>6. over \subseteq Elems(queue) /\ Elems(kept) \subseteq Elems(queue)
  BY <1>1, <1>4, SMTT(30) DEF Elems
<1>7. \A x \in Elems(queue) : x \in over \/ x \in Elems(kept)
  <2>. SUFFICES ASSUME NEW i \in 1 .. Len(queue), i > d PROVE queue[i] \in Elems(kept)
    BY <1>1, <1>3 DEF Elems
  <2>1. i - d \in DOMAIN kept /\ kept[i - d] = queue[i]
    BY <1>1, <1>3
  <2>. QED  BY <2>1 DEF Elems
<1>8. CASE q' = kept /\ stats' = after /\ spillFile' = spillFile
  <2>1. IsFiniteSet({}) /\ Cardinality({}) = 0
    BY FS_EmptySet
  <2>2. \A x \in Elems(queue) \ over : Safe(x, events')
    BY <1>7, <1>8 DEF Safe
  <2>3. Excused(st) + Cardinality(over) + Cardinality({}) <= Excused(stats')
    BY <1>3, <1>5, <1>8, <2>1
  <2>4. {} \in SUBSET Elems(queue) /\ over \in SUBSET Elems(queue)
    BY <1>6
  <2>. HIDE DEF over, kept
  <2>. QED  BY <1>5, <1>8, <2>1, <2>2, <2>3, <2>4 DEF Loses, queue
<1>9. CASE Flush(kept, left, after, events')
  <2>1. Ascending(kept) /\ (db => RowsBefore(events, kept))
    <3>1. \A i, j \in DOMAIN kept : i < j => d + i < d + j
      BY <1>3, <1>4
    <3>. HIDE DEF kept
    <3>. QED  BY <1>4, <3>1 DEF Ascending, RowsBefore, queue
  <2>2. Loses(kept, after, events')
    <3>. HIDE DEF kept
    <3>. QED  BY <1>3, <1>4, <1>9, <2>1, FlushLoses
  <2>3. PICK lost \in SUBSET Elems(kept), put \in SUBSET Elems(kept) :
          /\ IsFiniteSet(lost) /\ IsFiniteSet(put)
          /\ \A x \in Elems(kept) \ lost : Safe(x, events')
          /\ spillFile \subseteq spillFile' /\ spillFile' \subseteq spillFile \cup put
          /\ Excused(after) + Cardinality(lost) + Cardinality(put) <= Excused(stats')
    BY <2>2 DEF Loses
  <2>. HIDE DEF over, kept
  <2>. DEFINE all == over \cup lost
  <2>4. /\ IsFiniteSet(all) /\ Cardinality(all) <= Cardinality(over) + Cardinality(lost)
        /\ Cardinality(all) \in Nat /\ Cardinality(lost) \in Nat /\ Cardinality(put) \in Nat
    <3>1. /\ IsFiniteSet(all)
          /\ Cardinality(all) = Cardinality(over) + Cardinality(lost) - Cardinality(over \cap lost)
      BY <1>5, <2>3, FS_Union
    <3>2. IsFiniteSet(over \cap lost)
      BY <1>5, FS_Intersection
    <3>3. /\ Cardinality(all) \in Nat /\ Cardinality(lost) \in Nat /\ Cardinality(put) \in Nat
          /\ Cardinality(over \cap lost) \in Nat
      BY <2>3, <3>1, <3>2, FS_CardinalityType
    <3>. HIDE DEF all
    <3>. QED  BY <1>5, <3>1, <3>3
  <2>5. \A x \in Elems(queue) \ all : Safe(x, events')
    BY <1>7, <2>3
  <2>6. all \in SUBSET Elems(queue) /\ put \in SUBSET Elems(queue)
    BY <1>6, <2>3
  <2>7. Excused(stats') \in Int
    <3>1. stats' \in [Counters -> Nat]
      BY EnqueueEffect DEF Accounts
    <3>. QED  BY <3>1, ExcusedType
  <2>. HIDE DEF all
  <2>8. Excused(st) + Cardinality(all) + Cardinality(put) <= Excused(stats')
    BY <1>3, <1>5, <2>3, <2>4, <2>7
  <2>. QED  BY <2>3, <2>4, <2>5, <2>6, <2>8 DEF Loses, queue
<1>. QED  BY <1>2, <1>8, <1>9 DEF left, after

(* What is lost, beside what was spilled of this process's events and      *)
(* reached the file, is within what is counted; and an event on disk or in *)
(* the process is one that was acknowledged.                               *)
Lost == {r \in Mine : ~Kept(r)}
LossInv ==
  /\ mark <= Len(acked)
  /\ \A r \in OnDisk \cup Elems(q) \cup Elems(pend) : r.id <= Len(acked)
  /\ proc # "crashed" /\ (db \/ ~durable) =>
       Cardinality(Lost) + Cardinality(spillFile \cap Mine) <= Excused(stats)

LEMMA MineFinite ==
  ASSUME TypeOK
  PROVE  /\ IsFiniteSet(Mine) /\ IsFiniteSet(Lost) /\ IsFiniteSet(spillFile \cap Mine)
         /\ Cardinality(Lost) \in Nat /\ Cardinality(spillFile \cap Mine) \in Nat
<1>1. IsFiniteSet(mark + 1 .. Len(acked))
  <2>1. mark + 1 \in Int /\ Len(acked) \in Int
    BY DEF TypeOK
  <2>. QED  BY <2>1, FS_Interval
<1>2. IsFiniteSet(Mine)
  BY <1>1, RowsAt DEF Mine
<1>3. IsFiniteSet(Lost) /\ IsFiniteSet(spillFile \cap Mine)
  <2>1. Lost \in SUBSET Mine /\ spillFile \cap Mine \in SUBSET Mine
    BY DEF Lost
  <2>. QED  BY <1>2, <2>1, FS_Subset
<1>. QED  BY <1>2, <1>3, FS_CardinalityType

(* Two sets within a allowance grow by no more than it does.               *)
LEMMA Allowance ==
  ASSUME NEW L, NEW S, NEW X, NEW Y, NEW L1, NEW S1,
         IsFiniteSet(L), IsFiniteSet(S), IsFiniteSet(X), IsFiniteSet(Y),
         L1 \subseteq L \cup X, S1 \subseteq S \cup Y,
         NEW a \in Nat, NEW b \in Nat,
         Cardinality(L) + Cardinality(S) <= a, a + Cardinality(X) + Cardinality(Y) <= b
  PROVE  Cardinality(L1) + Cardinality(S1) <= b
<1>1. ASSUME NEW A, NEW B, NEW C, IsFiniteSet(A), IsFiniteSet(B), C \subseteq A \cup B
      PROVE  /\ Cardinality(C) <= Cardinality(A) + Cardinality(B)
             /\ Cardinality(A) \in Nat /\ Cardinality(B) \in Nat /\ Cardinality(C) \in Nat
  <2>1. /\ IsFiniteSet(A \cup B)
        /\ Cardinality(A \cup B) = Cardinality(A) + Cardinality(B) - Cardinality(A \cap B)
    BY <1>1, FS_Union
  <2>2. IsFiniteSet(A \cap B)
    BY <1>1, FS_Intersection
  <2>3. IsFiniteSet(C) /\ Cardinality(C) <= Cardinality(A \cup B)
    <3>1. C \in SUBSET (A \cup B)
      BY <1>1
    <3>. QED  BY <2>1, <3>1, FS_Subset
  <2>4. /\ Cardinality(A) \in Nat /\ Cardinality(B) \in Nat /\ Cardinality(C) \in Nat
        /\ Cardinality(A \cap B) \in Nat /\ Cardinality(A \cup B) \in Nat
    BY <1>1, <2>1, <2>2, <2>3, FS_CardinalityType
  <2>. QED  BY <2>1, <2>3, <2>4
<1>2. /\ Cardinality(L1) <= Cardinality(L) + Cardinality(X)
      /\ Cardinality(L) \in Nat /\ Cardinality(X) \in Nat /\ Cardinality(L1) \in Nat
  BY <1>1
<1>3. /\ Cardinality(S1) <= Cardinality(S) + Cardinality(Y)
      /\ Cardinality(S) \in Nat /\ Cardinality(Y) \in Nat /\ Cardinality(S1) \in Nat
  BY <1>1
<1>. QED  BY <1>2, <1>3

(* A handler that works off `queue', with `rest' waiting elsewhere.        *)
LEMMA WriteLoss ==
  ASSUME TypeOK, LossInv, stats' \in [Counters -> Nat], proc # "crashed",
         NEW queue \in Seq(Rec), NEW rest, NEW table, NEW n,
         After(queue, n, table), Loses(queue, stats, table),
         UNCHANGED <<acked, mark, db, durable>>,
         Elems(queue) \subseteq Elems(q) \cup Elems(pend),
         Elems(pend') \subseteq Elems(pend),
         Elems(Unstored) \subseteq Elems(queue) \cup rest,
         Elems(q') \cup rest \subseteq Elems(Unstored'),
         events' \cup archive' = table \cup archive
  PROVE  LossInv'
<1>1. PICK lost \in SUBSET Elems(queue), put \in SUBSET Elems(queue) :
        /\ IsFiniteSet(lost) /\ IsFiniteSet(put)
        /\ \A r \in Elems(queue) \ lost : Safe(r, table)
        /\ spillFile \subseteq spillFile' /\ spillFile' \subseteq spillFile \cup put
        /\ Excused(stats) + Cardinality(lost) + Cardinality(put) <= Excused(stats')
  BY DEF Loses
<1>2. /\ OnDisk' = table \cup archive \cup spillFile' /\ events \subseteq table
      /\ OnDisk \subseteq OnDisk'
  BY <1>1 DEF OnDisk, After
<1>3. Mine' = Mine
  BY DEF Mine
<1>4. ASSUME NEW r \in Mine, Kept(r), r \notin lost
      PROVE  Kept(r)'
  <2>1. CASE r \in OnDisk
    BY <1>2, <2>1 DEF Kept
  <2>2. CASE r.key # NoKey /\ \E s \in OnDisk : s.key = r.key
    BY <1>2, <2>2 DEF Kept
  <2>3. CASE r \in Elems(Unstored)
    <3>1. CASE r \in rest
      BY <3>1 DEF Kept
    <3>2. CASE r \in Elems(queue)
      <4>1. Safe(r, table)
        BY <1>1, <1>4, <3>2
      <4>. QED  BY <1>2, <4>1 DEF Safe, Kept
    <3>. QED  BY <2>3, <3>1, <3>2
  <2>. QED  BY <1>4, <2>1, <2>2, <2>3 DEF Kept
<1>5. Lost' \subseteq Lost \cup lost
  BY <1>3, <1>4 DEF Lost
<1>6. spillFile' \cap Mine' \subseteq (spillFile \cap Mine) \cup put
  BY <1>1, <1>3
<1>7. ASSUME db \/ ~durable
      PROVE  Cardinality(Lost') + Cardinality(spillFile' \cap Mine') <= Excused(stats')
  <2>1. Cardinality(Lost) + Cardinality(spillFile \cap Mine) <= Excused(stats)
    BY <1>7 DEF LossInv
  <2>2. Excused(stats) \in Nat /\ Excused(stats') \in Nat
    BY ExcusedType DEF TypeOK
  <2>3. IsFiniteSet(Lost) /\ IsFiniteSet(spillFile \cap Mine)
    BY MineFinite
  <2>. DEFINE L1 == Lost'
              S1 == spillFile' \cap Mine'
  <2>4. L1 \subseteq Lost \cup lost /\ S1 \subseteq (spillFile \cap Mine) \cup put
    BY <1>5, <1>6
  <2>5. IsFiniteSet(lost) /\ IsFiniteSet(put)
    BY <1>1
  <2>6. Excused(stats) + Cardinality(lost) + Cardinality(put) <= Excused(stats')
    BY <1>1
  <2>. HIDE DEF L1, S1
  <2>7. Cardinality(L1) + Cardinality(S1) <= Excused(stats')
    BY <2>1, <2>2, <2>3, <2>4, <2>5, <2>6, Allowance
  <2>. QED  BY <2>7 DEF L1, S1
<1>8. \A r \in OnDisk' \cup Elems(q') \cup Elems(pend') : r.id <= Len(acked)
  <2>1. \A r \in Elems(q) \cup Elems(pend) \cup OnDisk : r.id <= Len(acked)
    BY DEF LossInv
  <2>2. table \subseteq events \cup Elems(queue)
    BY DEF After, Elems
  <2>3. Elems(q') \subseteq Elems(queue)
    BY DEF After, Elems
  <2>4. OnDisk' \subseteq OnDisk \cup Elems(queue)
    BY <1>1, <1>2, <2>2 DEF OnDisk
  <2>. QED  BY <2>1, <2>3, <2>4
<1>9. (Excused(stats))' = Excused(stats')
  BY DEF Excused
<1>10. mark' <= Len(acked') /\ Elems(q)' = Elems(q') /\ Elems(pend)' = Elems(pend')
  BY DEF LossInv, Elems
<1>. QED  BY <1>7, <1>8, <1>9, <1>10 DEF LossInv

(* An accepted event waits, is stored, has the key of a stored row, or is  *)
(* counted as a bad row.                                                   *)
LEMMA AcceptLoss ==
  ASSUME TypeOK, OrderInv, LossInv, NEW k \in Keys \cup {NoKey}, NEW size \in Sizes,
         Accept(k, size)
  PROVE  LossInv'
<1>. DEFINE st == Inc(stats, "accepted", 1)
<1>1. /\ db \in BOOLEAN /\ durable \in BOOLEAN /\ events \subseteq Rec /\ spillFile \subseteq Rec
      /\ archive \subseteq Rec
      /\ q \in Seq(Rec) /\ pend \in Seq(Rec) /\ acked \in Seq(Rec) /\ stats \in [Counters -> Nat]
      /\ SEQ \in Nat /\ mark \in Nat /\ Len(acked) \in Nat
  BY DEF TypeOK
<1>0. PICK r : r = [id |-> Len(acked) + 1, seq |-> SEQ + 1, key |-> k, size |-> size]
  OBVIOUS
<1>2. r \in Rec /\ r.id = Len(acked) + 1 /\ r.seq = SEQ + 1 /\ st \in [Counters -> Nat]
  BY <1>0, <1>1, AcceptType
<1>3. /\ pend' = Append(pend, r) /\ acked' = Append(acked, r)
      /\ UNCHANGED <<proc, db, durable, q, mark, archive>> /\ Alive
      /\ durable => StoreOne(r, st)
      /\ ~durable => stats' = st /\ UNCHANGED <<events, spillFile>>
  BY <1>0 DEF Accept, Defer
<1>4. Excused(st) = Excused(stats)
  <2>1. /\ st["bad_row"] = stats["bad_row"] /\ st["dropped_queue"] = stats["dropped_queue"]
        /\ st["spilled"] = stats["spilled"]
    BY <1>1 DEF Inc, Counters
  <2>. QED  BY <2>1 DEF Excused
<1>. HIDE DEF st
<1>5. /\ Elems(pend') = Elems(pend) \cup {r} /\ Len(acked') = Len(acked) + 1
      /\ \A i \in 1 .. Len(acked) : acked'[i] = acked[i]
      /\ acked'[Len(acked) + 1] = r
  <2>1. /\ Len(acked') = Len(acked) + 1
        /\ \A i \in 1 .. Len(acked) : acked'[i] = acked[i]
        /\ acked'[Len(acked) + 1] = r
    BY <1>1, <1>2, <1>3
  <2>2. /\ DOMAIN pend' = DOMAIN pend \cup {Len(pend) + 1}
        /\ \A i \in DOMAIN pend : pend'[i] = pend[i]
        /\ pend'[Len(pend) + 1] = r
    BY <1>1, <1>2, <1>3
  <2>. QED  BY <2>1, <2>2 DEF Elems
<1>6. Mine' = Mine \cup {r}
  <2>1. mark \in 0 .. Len(acked) /\ mark' = mark
    BY <1>1, <1>3 DEF LossInv
  <2>2. mark' + 1 .. Len(acked') = (mark + 1 .. Len(acked)) \cup {Len(acked) + 1}
    BY <1>1, <1>5, <2>1
  <2>3. (mark + 1 .. Len(acked)) \subseteq 1 .. Len(acked)
    BY <1>1
  <2>4. Mine' = {acked'[i] : i \in mark' + 1 .. Len(acked')}
    BY DEF Mine
  <2>. QED  BY <1>5, <2>2, <2>3, <2>4 DEF Mine
<1>7. /\ \A x \in OnDisk \cup Elems(q) \cup Elems(pend) : x.id <= Len(acked)
      /\ \A x \in OnDisk : x.id \in Nat
      /\ (db \/ ~durable) => Cardinality(Lost) + Cardinality(spillFile \cap Mine) <= Excused(stats)
  <2>1. OnDisk \subseteq Rec
    BY <1>1 DEF OnDisk
  <2>. QED  BY <1>3, <2>1 DEF LossInv, Alive, Rec
<1>8. \A s \in Seq(Rec) : \A i \in DOMAIN s : s[i].id \in Nat
  <2>1. \A s \in Seq(Rec) : \A i \in DOMAIN s : s[i] \in Rec
    BY SeqElements
  <2>. QED  BY <2>1 DEF Rec
<1>9. r \notin spillFile
  BY <1>1, <1>2, <1>7 DEF OnDisk
<1>10. ASSUME events \subseteq events', spillFile' = spillFile,
              \A x \in events' \ events : x = r,
              NEW lost \in SUBSET {r}, r \in lost \/ Kept(r)',
              stats' \in [Counters -> Nat],
              db \/ ~durable => Excused(stats) + Cardinality(lost) <= Excused(stats')
       PROVE  LossInv'
  <2>1. OnDisk \subseteq OnDisk' /\ OnDisk' \subseteq OnDisk \cup {r}
    BY <1>3, <1>10 DEF OnDisk
  <2>2. Elems(Unstored) \subseteq Elems(Unstored')
    <3>1. CASE durable
      BY <1>3, <3>1 DEF Unstored
    <3>2. CASE ~durable
      <4>1. Unstored = q \o pend /\ Unstored' = q \o Append(pend, r)
        BY <1>3, <3>2 DEF Unstored
      <4>2. /\ DOMAIN (q \o pend) \subseteq DOMAIN (q \o Append(pend, r))
            /\ \A i \in DOMAIN (q \o pend) : (q \o Append(pend, r))[i] = (q \o pend)[i]
        BY <1>1, <1>2
      <4>. QED  BY <4>1, <4>2 DEF Elems
    <3>. QED  BY <1>1, <3>1, <3>2
  <2>3. \A x \in Mine : Kept(x) => Kept(x)'
    BY <2>1, <2>2 DEF Kept, Elems
  <2>4. Lost' \subseteq Lost \cup lost
    BY <1>6, <1>10, <2>3 DEF Lost
  <2>5. spillFile' \cap Mine' \subseteq (spillFile \cap Mine) \cup {}
    BY <1>6, <1>9, <1>10
  <2>6. ASSUME db \/ ~durable
        PROVE  Cardinality(Lost') + Cardinality(spillFile' \cap Mine') <= Excused(stats')
    <3>. DEFINE L1 == Lost'
                S1 == spillFile' \cap Mine'
    <3>1. /\ IsFiniteSet(Lost) /\ IsFiniteSet(spillFile \cap Mine)
          /\ IsFiniteSet(lost) /\ IsFiniteSet({}) /\ Cardinality({}) = 0 /\ Cardinality(lost) \in Nat
      <4>1. IsFiniteSet({r})
        BY FS_Singleton
      <4>2. IsFiniteSet(lost)
        BY <4>1, FS_Subset
      <4>. QED  BY <4>2, MineFinite, FS_EmptySet, FS_CardinalityType
    <3>2. Excused(stats) \in Nat /\ Excused(stats') \in Nat
      BY <1>1, <1>10, ExcusedType
    <3>3. Excused(stats) + Cardinality(lost) + Cardinality({}) <= Excused(stats')
      BY <1>10, <2>6, <3>1, <3>2
    <3>4. Cardinality(Lost) + Cardinality(spillFile \cap Mine) <= Excused(stats)
      BY <1>7, <2>6
    <3>5. L1 \subseteq Lost \cup lost /\ S1 \subseteq (spillFile \cap Mine) \cup {}
      BY <2>4, <2>5
    <3>. HIDE DEF L1, S1
    <3>6. Cardinality(L1) + Cardinality(S1) <= Excused(stats')
      BY <3>1, <3>2, <3>3, <3>4, <3>5, Allowance
    <3>. QED  BY <3>6 DEF L1, S1
  <2>7. \A x \in OnDisk' \cup Elems(q) \cup Elems(pend') : x.id <= Len(acked')
    <3>1. \A x \in Elems(q) \cup Elems(pend) \cup OnDisk : x.id \in Nat /\ x.id <= Len(acked)
      BY <1>1, <1>7, <1>8 DEF Elems
    <3>2. \A x \in Elems(q) \cup Elems(pend) \cup OnDisk : x.id <= Len(acked')
      BY <1>1, <1>5, <3>1
    <3>3. r.id <= Len(acked')
      BY <1>1, <1>2, <1>5
    <3>. QED  BY <1>5, <2>1, <3>2, <3>3
  <2>8. mark' <= Len(acked')
    BY <1>1, <1>3, <1>5 DEF LossInv
  <2>9. (Excused(stats))' = Excused(stats') /\ Elems(q)' = Elems(q) /\ Elems(pend)' = Elems(pend')
    BY <1>3 DEF Excused, Elems
  <2>. QED  BY <1>3, <2>6, <2>7, <2>8, <2>9 DEF LossInv
<1>11. IsFiniteSet({}) /\ Cardinality({}) = 0 /\ Excused(stats) \in Nat
  BY <1>1, FS_EmptySet, ExcusedType
<1>12. CASE ~durable
  <2>1. stats' = st /\ events' = events /\ spillFile' = spillFile
    BY <1>3, <1>12
  <2>2. r \in Elems(Unstored')
    <3>1. Unstored' = q \o Append(pend, r)
      BY <1>3, <1>12 DEF Unstored
    <3>2. /\ Len(q) + (Len(pend) + 1) \in DOMAIN (q \o Append(pend, r))
          /\ (q \o Append(pend, r))[Len(q) + (Len(pend) + 1)] = r
      BY <1>1, <1>2
    <3>. QED  BY <3>1, <3>2 DEF Elems
  <2>3. Kept(r)'
    BY <2>2 DEF Kept, Elems
  <2>4. Excused(stats) + Cardinality({}) <= Excused(stats')
    BY <1>4, <1>11, <2>1
  <2>. QED  BY <1>2, <1>10, <2>1, <2>3, <2>4
<1>13. CASE durable /\ ~db
  <2>1. stats' = st /\ events' = events /\ spillFile' = spillFile
    BY <1>3, <1>13 DEF StoreOne
  <2>. QED  BY <1>2, <1>10, <1>13, <2>1
<1>14. CASE durable /\ db
  <2>0. PICK batch : batch = <<r>>
    OBVIOUS
  <2>1. /\ Commit(batch, st, events') /\ batch \in Seq(Rec) /\ Elems(batch) = {r}
        /\ \A i \in DOMAIN batch : batch[i] = r
    BY <1>2, <1>3, <1>14, <2>0 DEF StoreOne, Elems
  <2>2. Ascending(batch)
    BY <2>0 DEF Ascending
  <2>3. RowsBefore(events, batch)
    <3>1. \A s \in events : s.seq \in Nat /\ s.seq <= SEQ
      BY <1>1, <1>3, <1>14 DEF OrderInv, Rec
    <3>. QED  BY <1>1, <1>2, <2>1, <3>1 DEF RowsBefore
  <2>4. PICK lost \in SUBSET {r} :
          /\ \A x \in {r} \ lost :
               x \in events' \/ (x.key # NoKey /\ \E s \in events' : s.key = x.key)
          /\ spillFile' = spillFile
          /\ Excused(st) + Cardinality(lost) <= Excused(stats')
    <3>1. \E lost \in SUBSET Elems(batch) :
            /\ IsFiniteSet(lost)
            /\ \A x \in Elems(batch) \ lost :
                 x \in events' \/ (x.key # NoKey /\ \E s \in events' : s.key = x.key)
            /\ spillFile' = spillFile
            /\ Excused(st) + Cardinality(lost) <= Excused(stats')
      BY <1>1, <1>2, <2>1, <2>2, <2>3, CommitLoses
    <3>. QED  BY <2>1, <3>1
  <2>5. r \in lost \/ Kept(r)'
    BY <2>4 DEF Kept, OnDisk
  <2>6. /\ events \subseteq events' /\ \A x \in events' \ events : x = r
        /\ stats' \in [Counters -> Nat]
    <3>1. Accounts(st, Len(batch))
      BY <1>1, <1>2, <2>1, CommitEffect
    <3>2. events \subseteq events' /\ \A x \in events' \ events : \E i \in DOMAIN batch : x = batch[i]
      BY <1>1, <1>2, <2>1, CommitEffect
    <3>. QED  BY <2>1, <3>1, <3>2 DEF Accounts
  <2>. QED  BY <1>4, <1>10, <2>4, <2>5, <2>6
<1>. QED  BY <1>1, <1>12, <1>13, <1>14

(* A flush of the queue, as the timer, retention and shutdown call it.     *)
LEMMA FlushLoss ==
  ASSUME TypeOK, OrderInv, LossInv, Alive, NEW table, Flush(q, qBytes, stats, table),
         UNCHANGED <<acked, mark, db, durable, pend>>,
         events' \cup archive' = table \cup archive
  PROVE  LossInv'
<1>1. /\ db \in BOOLEAN /\ durable \in BOOLEAN /\ events \subseteq Rec /\ spillFile \subseteq Rec
      /\ q \in Seq(Rec) /\ pend \in Seq(Rec) /\ stats \in [Counters -> Nat] /\ proc # "crashed"
  BY DEF TypeOK, Alive
<1>2. PICK n \in 0 .. Len(q) : After(q, n, table) /\ Accounts(stats, n)
  BY <1>1, FlushEffect
<1>3. Ascending(q) /\ (db => RowsBefore(events, q))
  BY DEF OrderInv
<1>4. Loses(q, stats, table)
  BY <1>1, <1>3, FlushLoses
<1>5. stats' \in [Counters -> Nat] /\ q' \in Seq(Rec)
  BY <1>2 DEF Accounts, After
<1>6. PICK rest : rest = Elems(IF durable THEN <<>> ELSE pend)
  OBVIOUS
<1>7. \A s, t \in Seq(Rec) : Elems(s \o t) = Elems(s) \cup Elems(t)
  BY ElemsConcat
<1>8. Elems(Unstored) = Elems(q) \cup rest /\ Elems(Unstored') = Elems(q') \cup rest
  <2>1. CASE durable
    <3>1. Unstored = q \o << >> /\ Unstored' = q' \o << >> /\ rest = Elems(<< >>) /\ << >> \in Seq(Rec)
      BY <1>6, <2>1 DEF Unstored
    <3>. QED  BY <1>1, <1>5, <1>7, <3>1
  <2>2. CASE ~durable
    <3>1. Unstored = q \o pend /\ Unstored' = q' \o pend /\ rest = Elems(pend)
      BY <1>6, <2>2 DEF Unstored
    <3>. QED  BY <1>1, <1>5, <1>7, <3>1
  <2>. QED  BY <1>1, <2>1, <2>2
<1>9. Elems(q) \subseteq Elems(q) \cup Elems(pend) /\ Elems(pend') \subseteq Elems(pend)
  OBVIOUS
<1>. QED  BY <1>1, <1>2, <1>4, <1>5, <1>8, <1>9, WriteLoss

(* The oldest deferred callback of a process that queues its rows.         *)
LEMMA ImmediateLoss ==
  ASSUME TypeOK, OrderInv, LossInv, RunImmediate, ~durable
  PROVE  LossInv'
<1>1. /\ db \in BOOLEAN /\ events \subseteq Rec /\ spillFile \subseteq Rec
      /\ q \in Seq(Rec) /\ pend \in Seq(Rec) /\ stats \in [Counters -> Nat]
  BY DEF TypeOK
<1>2. /\ Alive /\ pend # << >> /\ pend' = Tail(pend) /\ EnqueueWrite(Head(pend), stats)
      /\ UNCHANGED <<proc, acked, mark, db, durable, archive>>
  BY DEF RunImmediate
<1>3. PICK h \in Rec : h = Head(pend) /\ h = pend[1] /\ 1 \in DOMAIN pend
  BY <1>1, <1>2
<1>4. PICK queue \in Seq(Rec) : queue = Append(q, h)
  <2>1. Append(q, h) \in Seq(Rec)
    BY <1>1
  <2>. QED  BY <2>1
<1>5. EnqueueWrite(h, stats) /\ proc # "crashed"
  BY <1>2, <1>3 DEF Alive
<1>6. PICK n \in 0 .. Len(q) + 1 : After(queue, n, events') /\ Accounts(stats, n)
  BY <1>1, <1>4, <1>5, EnqueueEffect
<1>7. /\ DOMAIN queue = DOMAIN q \cup {Len(q) + 1} /\ DOMAIN q = 1 .. Len(q) /\ Len(q) \in Nat
      /\ \A i \in DOMAIN q : queue[i] = q[i]
      /\ queue[Len(q) + 1] = h
  BY <1>1, <1>3, <1>4
<1>8. Ascending(queue) /\ (db => RowsBefore(events, queue))
  <2>1. /\ \A i \in DOMAIN q : q[i].seq < h.seq
        /\ db => \A r \in events : r.seq < h.seq
        /\ Ascending(q) /\ (db => RowsBefore(events, q))
    BY <1>2, <1>3 DEF OrderInv, Before, RowsBefore
  <2>2. \A i, j \in DOMAIN queue : i < j => i \in DOMAIN q
    BY <1>7
  <2>. QED  BY <1>7, <2>1, <2>2 DEF Ascending, RowsBefore
<1>9. Loses(queue, stats, events')
  BY <1>1, <1>4, <1>5, <1>8, EnqueueLoses
<1>10. stats' \in [Counters -> Nat] /\ q' \in Seq(Rec) /\ pend' \in Seq(Rec)
  BY <1>1, <1>2, <1>6 DEF Accounts, After
<1>11. PICK rest : rest = Elems(Tail(pend))
  OBVIOUS
<1>12. Elems(queue) = Elems(q) \cup {h} /\ Elems(pend) = {h} \cup rest
  <2>1. /\ DOMAIN pend = 1 .. Len(pend) /\ Len(pend) \in Nat \ {0}
        /\ DOMAIN Tail(pend) = 1 .. Len(pend) - 1
        /\ \A i \in DOMAIN Tail(pend) : i + 1 \in DOMAIN pend /\ Tail(pend)[i] = pend[i + 1]
    BY <1>1, <1>2
  <2>2. \A i \in DOMAIN pend : i = 1 \/ (i - 1 \in DOMAIN Tail(pend) /\ Tail(pend)[i - 1] = pend[i])
    BY <2>1
  <2>3. \A i \in DOMAIN pend : pend[i] \in {h} \cup rest
    BY <1>3, <1>11, <2>2 DEF Elems
  <2>4. rest \subseteq Elems(pend)
    BY <1>11, <2>1 DEF Elems
  <2>5. h \in Elems(pend)
    BY <1>3 DEF Elems
  <2>6. Elems(pend) \subseteq {h} \cup rest
    BY <2>3 DEF Elems
  <2>7. Elems(queue) = Elems(q) \cup {h}
    BY <1>7 DEF Elems
  <2>. QED  BY <2>4, <2>5, <2>6, <2>7
<1>13. /\ Elems(Unstored) \subseteq Elems(queue) \cup rest
       /\ Elems(q') \cup rest \subseteq Elems(Unstored')
  <2>1. Unstored = q \o pend /\ Unstored' = q' \o pend'
    BY <1>2 DEF Unstored
  <2>2. Elems(Unstored) = Elems(q) \cup Elems(pend) /\ Elems(Unstored') = Elems(q') \cup Elems(pend')
    BY <1>1, <1>10, <2>1, ElemsConcat
  <2>. QED  BY <1>2, <1>11, <1>12, <2>2
<1>14. /\ Elems(queue) \subseteq Elems(q) \cup Elems(pend) /\ Elems(pend') \subseteq Elems(pend)
       /\ events' \cup archive' = events' \cup archive
  BY <1>2, <1>11, <1>12
<1>. QED  BY <1>2, <1>5, <1>6, <1>9, <1>10, <1>13, <1>14, WriteLoss

LEMMA LossStep == TypeOK /\ OrderInv /\ LossInv /\ [Next]_vars => LossInv'
<1>. SUFFICES ASSUME TypeOK, OrderInv, LossInv, [Next]_vars PROVE LossInv'
  OBVIOUS
<1>a. /\ q \in Seq(Rec) /\ pend \in Seq(Rec) /\ acked \in Seq(Rec) /\ stats \in [Counters -> Nat]
      /\ mark \in Nat /\ Len(acked) \in Nat
  BY DEF TypeOK
<1>b. ASSUME UNCHANGED <<db, durable, q, pend, disk, acked, mark>>,
             proc' # "crashed" => proc # "crashed",
             Excused(stats') = Excused(stats), archive' = archive, events' = events,
             spillFile' = spillFile
      PROVE  LossInv'
  <2>1. /\ Mine' = Mine /\ OnDisk' = OnDisk /\ Unstored' = Unstored
        /\ Elems(q)' = Elems(q) /\ Elems(pend)' = Elems(pend)
    BY <1>b DEF Mine, OnDisk, Unstored, Elems
  <2>2. \A r : Kept(r)' <=> Kept(r)
    BY <2>1 DEF Kept, Elems
  <2>3. Lost' = Lost
    BY <2>1, <2>2 DEF Lost
  <2>4. (Excused(stats))' = Excused(stats)
    BY <1>b DEF Excused
  <2>. QED  BY <1>b, <2>1, <2>3, <2>4 DEF LossInv
<1>c. ASSUME NEW c \in {"received", "duplicate", "rejected"}, NEW st \in [Counters -> Nat]
      PROVE  Inc(st, c, 1) \in [Counters -> Nat] /\ Excused(Inc(st, c, 1)) = Excused(st)
  <2>. DEFINE s1 == Inc(st, c, 1)
  <2>1. s1 \in [Counters -> Nat] /\ \A d \in Counters : d # c => s1[d] = st[d]
    <3>1. c \in Counters
      BY DEF Counters
    <3>. QED  BY <3>1, IncOne
  <2>. HIDE DEF s1
  <2>2. /\ s1["bad_row"] = st["bad_row"] /\ s1["spilled"] = st["spilled"]
        /\ s1["dropped_queue"] = st["dropped_queue"]
    BY <2>1 DEF Counters
  <2>. QED  BY <2>1, <2>2 DEF Excused, s1
<1>1. CASE ReceivePost
  <2>1. Excused(stats') = Excused(stats)
    <3>1. \/ stats' = Inc(Inc(stats, "received", 1), "rejected", 1)
          \/ stats' = Inc(stats, "received", 1)
      BY <1>1 DEF ReceivePost
    <3>. QED  BY <1>a, <1>c, <3>1
  <2>. QED  BY <1>1, <1>b, <2>1 DEF ReceivePost, disk
<1>2. CASE RejectBody
  <2>1. Excused(stats') = Excused(stats)
    BY <1>2, <1>a, <1>c DEF RejectBody
  <2>. QED  BY <1>2, <1>b, <2>1 DEF RejectBody, disk
<1>3. ASSUME NEW k \in Keys, AnswerDuplicate(k) PROVE LossInv'
  <2>1. Excused(stats') = Excused(stats)
    BY <1>3, <1>a, <1>c DEF AnswerDuplicate
  <2>. QED  BY <1>3, <1>b, <2>1 DEF AnswerDuplicate, disk
<1>4. ASSUME NEW k \in Keys \cup {NoKey}, NEW size \in Sizes, Accept(k, size) PROVE LossInv'
  BY <1>4, AcceptLoss
<1>5. CASE RunImmediate
  <2>1. CASE ~durable
    BY <1>5, <2>1, ImmediateLoss
  <2>2. CASE durable
    <3>1. /\ Alive /\ pend' = Tail(pend) /\ pend # << >>
          /\ UNCHANGED <<proc, db, durable, q, stats, disk, acked, mark>>
      BY <1>5, <2>2 DEF RunImmediate, disk
    <3>2. Unstored' = Unstored /\ Mine' = Mine /\ OnDisk' = OnDisk /\ Elems(q)' = Elems(q)
      BY <2>2, <3>1 DEF Unstored, Mine, OnDisk, disk, Elems
    <3>3. \A r : Kept(r)' <=> Kept(r)
      BY <3>2 DEF Kept, Elems
    <3>4. Lost' = Lost /\ (spillFile \cap Mine)' = spillFile \cap Mine /\ Excused(stats)' = Excused(stats)
      BY <3>1, <3>2, <3>3 DEF Lost, disk, Excused
    <3>5. Elems(pend)' \subseteq Elems(pend)
      <4>1. \A i \in DOMAIN Tail(pend) : i + 1 \in DOMAIN pend /\ Tail(pend)[i] = pend[i + 1]
        BY <1>a, <3>1
      <4>. QED  BY <3>1, <4>1 DEF Elems
    <3>. QED  BY <3>1, <3>2, <3>4, <3>5 DEF LossInv
  <2>. QED  BY <2>1, <2>2
<1>6. CASE TimerFlush
  <2>1. /\ Alive /\ Flush(q, qBytes, stats, events')
        /\ UNCHANGED <<acked, mark, db, durable, pend, archive>>
    BY <1>6 DEF TimerFlush
  <2>. QED  BY <2>1, FlushLoss
<1>7. CASE TtlPasses
  BY <1>7, <1>b DEF TtlPasses, disk
<1>8. CASE RunRetention
  <2>1. PICK table : /\ Flush(q, qBytes, stats, table)
                     /\ \E old \in SUBSET table : \E gone \in SUBSET old :
                          archive' = archive \cup old /\ events' = table \ gone
    BY <1>8 DEF RunRetention
  <2>2. events' \cup archive' = table \cup archive
    BY <2>1
  <2>3. Alive /\ UNCHANGED <<acked, mark, db, durable, pend>>
    BY <1>8 DEF RunRetention
  <2>. QED  BY <2>1, <2>2, <2>3, FlushLoss
<1>9. CASE Boot
  <2>1. /\ q' = << >> /\ pend' = << >> /\ mark' = Len(acked) /\ acked' = acked /\ UNCHANGED disk
        /\ stats' = [c \in Counters |-> 0]
    BY <1>9 DEF Boot, EmptyMemory
  <2>2. Elems(q)' = {} /\ Elems(pend)' = {} /\ OnDisk' = OnDisk
    BY <2>1 DEF Elems, OnDisk, disk
  <2>3. Mine' = {}
    <3>1. mark' + 1 .. Len(acked') = {}
      BY <1>a, <2>1
    <3>. QED  BY <3>1 DEF Mine
  <2>4. Lost' = {} /\ (spillFile \cap Mine)' = {} /\ Excused(stats)' = 0
    BY <2>1, <2>3 DEF Lost, Excused, Counters
  <2>5. Cardinality(Lost') = 0 /\ Cardinality((spillFile \cap Mine)') = 0
    BY <2>4, FS_EmptySet
  <2>. QED  BY <1>a, <2>1, <2>2, <2>4, <2>5 DEF LossInv
<1>10. CASE Signal
  BY <1>10, <1>b DEF Signal, memory, disk
<1>11. CASE ServerClosed
  <2>1. /\ Alive /\ Flush(q, qBytes, stats, events')
        /\ UNCHANGED <<acked, mark, db, durable, pend, archive>>
    BY <1>11 DEF ServerClosed, Alive
  <2>. QED  BY <2>1, FlushLoss
<1>12. CASE MemoryLost
  <2>1. /\ proc' = "crashed" /\ q' = << >> /\ pend' = << >> /\ UNCHANGED <<acked, mark, disk>>
    BY <1>12 DEF MemoryLost, EmptyMemory
  <2>2. Elems(q)' = {} /\ Elems(pend)' = {} /\ OnDisk' = OnDisk
    BY <2>1 DEF Elems, OnDisk, disk
  <2>. QED  BY <2>1, <2>2 DEF LossInv
<1>13. CASE UNCHANGED vars
  BY <1>13, <1>b DEF vars, memory, disk
<1>. QED
  BY <1>1, <1>2, <1>3, <1>4, <1>5, <1>6, <1>7, <1>8, <1>9, <1>10, <1>11, <1>12, <1>13
  DEF Next, ForceExit, Crash

(* No event that was answered 202 goes missing without GET /health saying  *)
(* so, through drops over budget, rows SQLite refuses, commits that fail   *)
(* and spill files that cannot be written, however they follow one another *)
(* in the life of a process; only a crash, and a durable process without a *)
(* database, are excepted.                                                 *)
THEOREM NeverLostUncounted == Spec => []NothingLostUncounted
<1>1. Init => LossInv
  <2>. SUFFICES ASSUME Init PROVE LossInv
    OBVIOUS
  <2>1. /\ acked = << >> /\ mark = 0 /\ q = << >> /\ pend = << >> /\ events = {} /\ spillFile = {}
        /\ archive = {} /\ stats = [c \in Counters |-> 0]
    BY DEF Init
  <2>2. Mine = {}
    <3>1. mark + 1 .. Len(acked) = {}
      BY <2>1
    <3>. QED  BY <3>1 DEF Mine
  <2>3. Lost = {} /\ spillFile \cap Mine = {} /\ Excused(stats) = 0 /\ Cardinality({}) = 0
    BY <2>1, <2>2, FS_EmptySet DEF Lost, Excused, Counters
  <2>4. Elems(q) = {} /\ Elems(pend) = {} /\ OnDisk = {} /\ mark <= Len(acked)
    BY <2>1 DEF Elems, OnDisk
  <2>5. Cardinality(Lost) + Cardinality(spillFile \cap Mine) <= Excused(stats)
    <3>1. Cardinality(Lost) = 0 /\ Cardinality(spillFile \cap Mine) = 0 /\ Excused(stats) = 0
      BY <2>3
    <3>. QED  BY <3>1
  <2>. QED  BY <2>4, <2>5 DEF LossInv
<1>2. TypeOK /\ OrderInv /\ LossInv /\ [Next]_vars => LossInv'
  BY LossStep
<1>3. TypeOK /\ LossInv => NothingLostUncounted
  <2>. SUFFICES ASSUME TypeOK, LossInv, proc # "crashed", db \/ ~durable
                PROVE  Cardinality(Lost)
                         <= stats["dropped_queue"] + stats["bad_row"] + SpillFailed
    BY DEF NothingLostUncounted, Lost
  <2>1. Cardinality(Lost) + Cardinality(spillFile \cap Mine) <= Excused(stats)
    BY DEF LossInv
  <2>2. Cardinality(Lost) \in Nat /\ Cardinality(spillFile \cap Mine) \in Nat
    BY MineFinite
  <2>3. stats["dropped_queue"] \in Nat /\ stats["bad_row"] \in Nat /\ stats["spilled"] \in Nat
    BY DEF TypeOK, Counters
  <2>. QED  BY <2>1, <2>2, <2>3 DEF SpillFailed, Excused
<1>. QED  BY <1>1, <1>2, <1>3, TypeCorrect, OrderAlways, PTL DEF Spec
=============================================================================
