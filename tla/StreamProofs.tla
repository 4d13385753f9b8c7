------------------------------ MODULE StreamProofs ------------------------------
(***************************************************************************)
(* Proofs about Stream, for any connections, budgets and sequence of       *)
(* events, and wherever the pump of a connection has to stop.              *)
(***************************************************************************)
EXTENDS Stream, FiniteSetTheorems, SequenceTheorems, TLAPS

(* The folds of Stream: bytes, the counts of markers, and a replay.        *)
AddSize(total, x) == total + x.size
AddCount(total, f) == total + (IF f.type = "_dropped" THEN f.n ELSE 0)
ByteSum == INSTANCE SequenceFolds WITH op <- AddSize
CountSum == INSTANCE SequenceFolds WITH op <- AddCount
Resume == INSTANCE SequenceFolds WITH op <- Replay

(* Bytes is the fold of AddSize.                                           *)
LEMMA BytesIs ==
  ASSUME NEW s
  PROVE  Bytes(s) = ByteSum!Value(0, s)
  BY ByteSum!ValueUnfolded DEF Bytes, ByteSum!Unfolded, FoldLeft, MapThenFoldSet, Max, AddSize

(* CountOf is the fold of AddCount.                                        *)
LEMMA CountIs ==
  ASSUME NEW s
  PROVE  CountOf(s) = CountSum!Value(0, s)
  BY CountSum!ValueUnfolded DEF CountOf, CountSum!Unfolded, FoldLeft, MapThenFoldSet, Max, AddCount

(* A sequence cut in two.                                                  *)
LEMMA Cut ==
  ASSUME NEW S, NEW s \in Seq(S), NEW k \in 0 .. Len(s)
  PROVE  /\ SubSeq(s, 1, k) \in Seq(S) /\ Len(SubSeq(s, 1, k)) = k
         /\ From(s, k + 1) \in Seq(S) /\ Len(From(s, k + 1)) = Len(s) - k
         /\ SubSeq(s, 1, k) \o From(s, k + 1) = s
         /\ \A i \in 1 .. k : SubSeq(s, 1, k)[i] = s[i]
         /\ \A i \in 1 .. Len(s) - k : From(s, k + 1)[i] = s[k + i]
<1>1. k \in Nat /\ k <= Len(s) /\ Len(s) \in Nat
  OBVIOUS
<1>2. \A i \in 1 .. Len(s) : s[i] \in S
  OBVIOUS
<1>3. /\ SubSeq(s, 1, k) \in Seq(S) /\ Len(SubSeq(s, 1, k)) = k
      /\ \A i \in 1 .. k : SubSeq(s, 1, k)[i] = s[i]
  BY <1>1, <1>2
<1>4. /\ From(s, k + 1) \in Seq(S) /\ Len(From(s, k + 1)) = Len(s) - k
      /\ \A i \in 1 .. Len(s) - k : From(s, k + 1)[i] = s[k + i]
  <2>1. \A i \in k + 1 .. Len(s) : s[i] \in S
    BY <1>1, <1>2
  <2>. QED  BY <1>1, <2>1, SubSeqProperties DEF From
<1>5. SubSeq(s, 1, k) \o From(s, k + 1) = s
  <2>1. 1 \in 1 .. Len(s) + 1 /\ k \in 1 - 1 .. Len(s) /\ Len(s) \in k .. Len(s)
    BY <1>1
  <2>. QED  BY <2>1, ConcatAdjacentSubSeq, SubSeqFull DEF From
<1>. QED  BY <1>3, <1>4, <1>5

Parts(S, s, k, a, b) ==
  /\ a \in Seq(S) /\ Len(a) = k /\ b \in Seq(S) /\ Len(b) = Len(s) - k
  /\ \A i \in 1 .. k : a[i] = s[i]
  /\ \A i \in 1 .. Len(s) - k : b[i] = s[k + i]

(* The same of two parts that have names.                                  *)
LEMMA CutParts ==
  ASSUME NEW S, NEW s \in Seq(S), NEW k \in 0 .. Len(s)
  PROVE  Parts(S, s, k, SubSeq(s, 1, k), From(s, k + 1))
  BY Cut DEF Parts

(* Bytes are added up.                                                     *)
LEMMA BytesLaws ==
  ASSUME NEW S, \A x \in S : x.size \in Nat, NEW s \in Seq(S)
  PROVE  /\ Bytes(<<>>) = 0 /\ Bytes(s) \in Nat
         /\ \A t \in Seq(S) : Bytes(s \o t) = Bytes(s) + Bytes(t)
         /\ \A x \in S : Bytes(Append(s, x)) = Bytes(s) + x.size
<1>1. \A v \in Nat, x \in S : AddSize(0, x) \in Nat /\ AddSize(v, x) = v + AddSize(0, x)
  BY DEF AddSize
<1>2. Bytes(<<>>) = 0
  BY BytesIs, ByteSum!ValueEmpty
<1>3. \A t \in Seq(S) : Bytes(t) \in Nat
  BY <1>1, BytesIs, ByteSum!ValueAdds
<1>4. ASSUME NEW t \in Seq(S) PROVE Bytes(s \o t) = Bytes(s) + Bytes(t)
  <2>1. ByteSum!Value(0, s \o t) = ByteSum!Value(ByteSum!Value(0, s), t)
    BY ByteSum!ValueConcat
  <2>2. ByteSum!Value(Bytes(s), t) = Bytes(s) + ByteSum!Value(0, t)
    BY <1>1, <1>3, ByteSum!ValueAdds
  <2>. QED  BY <2>1, <2>2, BytesIs
<1>5. ASSUME NEW x \in S PROVE Bytes(Append(s, x)) = Bytes(s) + x.size
  BY BytesIs, ByteSum!ValueAppend DEF AddSize
<1>. QED  BY <1>2, <1>3, <1>4, <1>5

(* Of a sequence cut in two, each part has its bytes.                      *)
LEMMA BytesCut ==
  ASSUME NEW S, \A x \in S : x.size \in Nat, NEW s \in Seq(S), NEW k \in 0 .. Len(s)
  PROVE  /\ Bytes(SubSeq(s, 1, k)) \in Nat /\ Bytes(From(s, k + 1)) \in Nat
         /\ Bytes(From(s, k + 1)) = Bytes(s) - Bytes(SubSeq(s, 1, k))
<1>. DEFINE a == SubSeq(s, 1, k)
            b == From(s, k + 1)
<1>1. a \in Seq(S) /\ b \in Seq(S) /\ a \o b = s
  BY Cut
<1>. HIDE DEF a, b
<1>2. Bytes(a) \in Nat /\ Bytes(b) \in Nat /\ Bytes(s) = Bytes(a) + Bytes(b)
  BY <1>1, BytesLaws
<1>. QED  BY <1>2 DEF a, b

(* And so are the counts of the markers.                                   *)
LEMMA CountLaws ==
  ASSUME NEW s \in Seq(Frame)
  PROVE  /\ CountOf(<<>>) = 0 /\ CountOf(s) \in Nat
         /\ \A t \in Seq(Frame) : CountOf(s \o t) = CountOf(s) + CountOf(t)
         /\ \A f \in Frame :
              CountOf(Append(s, f)) = CountOf(s) + IF f.type = "_dropped" THEN f.n ELSE 0
<1>0. \A f \in Frame : f.n \in Nat
  BY DEF Frame
<1>. DEFINE S == Frame
<1>. HIDE DEF S
<1>1. \A v \in Nat, x \in S : AddCount(0, x) \in Nat /\ AddCount(v, x) = v + AddCount(0, x)
  BY <1>0 DEF AddCount, S
<1>2. CountOf(<<>>) = 0
  BY CountIs, CountSum!ValueEmpty
<1>3. \A t \in Seq(S) : CountOf(t) \in Nat
  BY <1>1, CountIs, CountSum!ValueAdds
<1>4. ASSUME NEW t \in Seq(S) PROVE CountOf(s \o t) = CountOf(s) + CountOf(t)
  <2>1. CountSum!Value(0, s \o t) = CountSum!Value(CountSum!Value(0, s), t)
    BY CountSum!ValueConcat DEF S
  <2>2. CountSum!Value(CountOf(s), t) = CountOf(s) + CountSum!Value(0, t)
    BY <1>1, <1>3, CountSum!ValueAdds DEF S
  <2>. QED  BY <2>1, <2>2, CountIs
<1>5. ASSUME NEW x \in S
      PROVE  CountOf(Append(s, x)) = CountOf(s) + IF x.type = "_dropped" THEN x.n ELSE 0
  BY CountIs, CountSum!ValueAppend DEF AddCount, S
<1>. QED  BY <1>2, <1>3, <1>4, <1>5 DEF S

(* Sequences without markers count nothing.                                *)
Plain(frames) == \A i \in DOMAIN frames : frames[i].type \in {"data", "_ready"}

(* By induction over the frames.                                           *)
LEMMA PlainCount ==
  ASSUME NEW s \in Seq(Frame), Plain(s)
  PROVE  CountOf(s) = 0
<1>. DEFINE T == {u \in Seq(Frame) : Plain(u) => CountOf(u) = 0}
<1>1. << >> \in T
  <2>1. << >> \in Seq(Frame)
    OBVIOUS
  <2>. QED  BY <2>1, CountLaws
<1>2. ASSUME NEW u \in T, NEW x \in Frame PROVE Append(u, x) \in T
  <2>. SUFFICES ASSUME Plain(Append(u, x)) PROVE CountOf(Append(u, x)) = 0
    <3>. HIDE DEF Frame
    <3>. QED  OBVIOUS
  <2>. DEFINE n == Len(u) + 1
              a == Append(u, x)
  <2>1. /\ u \in Seq(Frame) /\ a[n] = x /\ n \in DOMAIN a
        /\ \A i \in DOMAIN u : i \in DOMAIN a /\ a[i] = u[i]
    <3>. HIDE DEF Frame
    <3>. QED  OBVIOUS
  <2>. HIDE DEF n
  <2>2. Plain(u) /\ x.type \in {"data", "_ready"}
    <3>. HIDE DEF a
    <3>1. Plain(a)
      BY DEF a
    <3>. QED  BY <2>1, <3>1 DEF Plain
  <2>3. CountOf(u) = 0
    BY <2>2
  <2>. HIDE DEF T
  <2>4. CountOf(Append(u, x)) = CountOf(u) + IF x.type = "_dropped" THEN x.n ELSE 0
    BY <2>1, CountLaws
  <2>. QED  BY <2>2, <2>3, <2>4
<1>. HIDE DEF T
<1>3. s \in T
  BY <1>1, <1>2, ByteSum!SequenceInduction
<1>. QED  BY <1>3 DEF T

-----------------------------------------------------------------------------
(***************************************************************************)
(* What is said of the frames of two sequences is said of them end to end, *)
(* and back.                                                               *)
(***************************************************************************)
Rising(a) ==
  \A i, j \in DOMAIN a :
    i < j /\ a[i].type = "data" /\ a[j].type = "data" => a[i].seq < a[j].seq
Apart(a, b) == \A x \in Seqs(a), y \in Seqs(b) : x < y
OneReady(a) == \A i, j \in DOMAIN a : a[i].type = "_ready" /\ a[j].type = "_ready" => i = j

(* Where the elements of two sequences are, end to end.                    *)
EndToEnd(S, a, b, c, n) ==
  /\ c \in Seq(S) /\ n \in Nat
  /\ \A i \in DOMAIN a : i \in DOMAIN c /\ c[i] = a[i] /\ i \in Nat
  /\ \A j \in DOMAIN b : n + j \in DOMAIN c /\ c[n + j] = b[j] /\ j \in Nat
  /\ \A k \in DOMAIN c : k \in DOMAIN a \/ \E j \in DOMAIN b : k = n + j
  /\ \A i \in DOMAIN a, j \in DOMAIN b : i < n + j

LEMMA Places ==
  ASSUME NEW S, NEW a \in Seq(S), NEW b \in Seq(S)
  PROVE  EndToEnd(S, a, b, a \o b, Len(a))
<1>. DEFINE c == a \o b
            n == Len(a)
<1>1. /\ c \in Seq(S) /\ n \in Nat /\ Len(b) \in Nat /\ Len(c) = n + Len(b)
      /\ \A i \in 1 .. n + Len(b) : c[i] = IF i <= n THEN a[i] ELSE b[i - n]
  BY ConcatProperties
<1>2. DOMAIN a = 1 .. n /\ DOMAIN b = 1 .. Len(b) /\ DOMAIN c = 1 .. n + Len(b)
  BY <1>1
<1>. HIDE DEF c, n
<1>3. \A i \in DOMAIN a : i \in DOMAIN c /\ c[i] = a[i] /\ i \in Nat
  BY <1>1, <1>2
<1>4. \A j \in DOMAIN b : n + j \in DOMAIN c /\ c[n + j] = b[j] /\ j \in Nat
  <2>. SUFFICES ASSUME NEW j \in DOMAIN b PROVE n + j \in DOMAIN c /\ c[n + j] = b[j] /\ j \in Nat
    OBVIOUS
  <2>1. n + j \in 1 .. n + Len(b) /\ ~(n + j <= n) /\ (n + j) - n = j
    BY <1>1, <1>2
  <2>. QED  BY <1>1, <1>2, <2>1
<1>5. \A k \in DOMAIN c : k \in DOMAIN a \/ \E j \in DOMAIN b : k = n + j
  <2>. SUFFICES ASSUME NEW k \in DOMAIN c, k \notin DOMAIN a PROVE k - n \in DOMAIN b /\ k = n + (k - n)
    OBVIOUS
  <2>. QED  BY <1>1, <1>2
<1>6. \A i \in DOMAIN a, j \in DOMAIN b : i < n + j
  BY <1>1, <1>2
<1>. QED  BY <1>1, <1>3, <1>4, <1>5, <1>6 DEF EndToEnd, c, n

(* Their seqs, and what each of them holds.                                *)
LEMMA JoinSeqs ==
  ASSUME NEW a \in Seq(Frame), NEW b \in Seq(Frame)
  PROVE  /\ a \o b \in Seq(Frame) /\ Seqs(a \o b) = Seqs(a) \cup Seqs(b)
         /\ \A t : Holds(a \o b, t) <=> Holds(a, t) \/ Holds(b, t)
         /\ Plain(a \o b) <=> Plain(a) /\ Plain(b)
<1>. DEFINE S == Frame
            c == a \o b
            n == Len(a)
<1>1. /\ c \in Seq(S)
      /\ \A i \in DOMAIN a : i \in DOMAIN c /\ c[i] = a[i]
      /\ \A j \in DOMAIN b : n + j \in DOMAIN c /\ c[n + j] = b[j]
      /\ \A k \in DOMAIN c : k \in DOMAIN a \/ \E j \in DOMAIN b : k = n + j
  <2>1. a \in Seq(S) /\ b \in Seq(S) /\ c = a \o b /\ n = Len(a)
    OBVIOUS
  <2>. HIDE DEF S, c, n
  <2>2. EndToEnd(S, a, b, c, n)
    BY <2>1, Places
  <2>. QED  BY <2>2 DEF EndToEnd
<1>. HIDE DEF c, n, S
<1>2. Seqs(c) \subseteq Seqs(a) \cup Seqs(b)
  BY <1>1 DEF Seqs
<1>3. Seqs(a) \subseteq Seqs(c) /\ Seqs(b) \subseteq Seqs(c)
  BY <1>1 DEF Seqs
<1>4. \A t : Holds(c, t) <=> Holds(a, t) \/ Holds(b, t)
  BY <1>1 DEF Holds
<1>5. Plain(c) <=> Plain(a) /\ Plain(b)
  BY <1>1 DEF Plain
<1>. QED  BY <1>1, <1>2, <1>3, <1>4, <1>5 DEF c, S

(* Their order, and their one _ready.                                      *)
LEMMA JoinOrder ==
  ASSUME NEW a \in Seq(Frame), NEW b \in Seq(Frame)
  PROVE  /\ Rising(a \o b) <=> Rising(a) /\ Rising(b) /\ Apart(a, b)
         /\ OneReady(a \o b) <=> /\ OneReady(a) /\ OneReady(b)
                                 /\ ~(Holds(a, "_ready") /\ Holds(b, "_ready"))
<1>. DEFINE S == Frame
            c == a \o b
            n == Len(a)
<1>1. /\ n \in Nat
      /\ \A i \in DOMAIN a : i \in DOMAIN c /\ c[i] = a[i]
      /\ \A j \in DOMAIN b : n + j \in DOMAIN c /\ c[n + j] = b[j]
      /\ \A k \in DOMAIN c : k \in DOMAIN a \/ \E j \in DOMAIN b : k = n + j
      /\ \A i \in DOMAIN a, j \in DOMAIN b : i \in Nat /\ j \in Nat /\ i < n + j
      /\ \A j \in DOMAIN b : j \in Nat
      /\ \A i \in DOMAIN a : i \in Nat
  <2>1. a \in Seq(S) /\ b \in Seq(S) /\ c = a \o b /\ n = Len(a)
    OBVIOUS
  <2>. HIDE DEF S, c, n
  <2>2. EndToEnd(S, a, b, c, n)
    BY <2>1, Places
  <2>. QED  BY <2>2 DEF EndToEnd
<1>. HIDE DEF c, n, S
<1>2. ASSUME Rising(c) PROVE Rising(a) /\ Rising(b) /\ Apart(a, b)
  <2>1. Rising(a)
    BY <1>1, <1>2 DEF Rising
  <2>2. \A i, j \in DOMAIN b : i < j => n + i < n + j
    BY <1>1
  <2>3. Rising(b)
    <3>. SUFFICES ASSUME NEW i \in DOMAIN b, NEW j \in DOMAIN b, i < j,
                         b[i].type = "data", b[j].type = "data"
                  PROVE  b[i].seq < b[j].seq
      BY DEF Rising
    <3>. DEFINE x == n + i
                y == n + j
    <3>1. x \in DOMAIN c /\ y \in DOMAIN c /\ c[x] = b[i] /\ c[y] = b[j] /\ x < y
      BY <1>1, <2>2
    <3>. HIDE DEF x, y
    <3>. QED  BY <1>2, <3>1 DEF Rising
  <2>4. Apart(a, b)
    <3>. SUFFICES ASSUME NEW i \in DOMAIN a, NEW j \in DOMAIN b,
                         a[i].type = "data", b[j].type = "data"
                  PROVE  a[i].seq < b[j].seq
      BY DEF Apart, Seqs
    <3>. DEFINE y == n + j
    <3>1. i \in DOMAIN c /\ y \in DOMAIN c /\ c[i] = a[i] /\ c[y] = b[j] /\ i < y
      BY <1>1
    <3>. HIDE DEF y
    <3>. QED  BY <1>2, <3>1 DEF Rising
  <2>. QED  BY <2>1, <2>3, <2>4
<1>3. ASSUME Rising(a), Rising(b), Apart(a, b) PROVE Rising(c)
  <2>. SUFFICES ASSUME NEW k \in DOMAIN c, NEW m \in DOMAIN c, k < m,
                       c[k].type = "data", c[m].type = "data"
                PROVE  c[k].seq < c[m].seq
    BY DEF Rising
  <2>1. CASE k \in DOMAIN a /\ m \in DOMAIN a
    BY <1>1, <1>3, <2>1 DEF Rising
  <2>2. CASE k \in DOMAIN a /\ m \notin DOMAIN a
    <3>1. PICK j \in DOMAIN b : m = n + j
      BY <1>1, <2>2
    <3>2. c[k] = a[k] /\ c[m] = b[j]
      BY <1>1, <2>2, <3>1
    <3>. QED  BY <1>3, <2>2, <3>2 DEF Apart, Seqs
  <2>3. CASE k \notin DOMAIN a
    <3>1. PICK i \in DOMAIN b : k = n + i
      BY <1>1, <2>3
    <3>2. m \notin DOMAIN a
      BY <1>1, <3>1
    <3>3. PICK j \in DOMAIN b : m = n + j
      BY <1>1, <3>2
    <3>4. i < j /\ c[k] = b[i] /\ c[m] = b[j]
      BY <1>1, <3>1, <3>3
    <3>. QED  BY <1>3, <3>4 DEF Rising
  <2>. QED  BY <2>1, <2>2, <2>3
<1>4. ASSUME OneReady(c)
      PROVE  OneReady(a) /\ OneReady(b) /\ ~(Holds(a, "_ready") /\ Holds(b, "_ready"))
  <2>1. OneReady(a)
    BY <1>1, <1>4 DEF OneReady
  <2>2. OneReady(b)
    <3>1. \A i, j \in DOMAIN b : n + i = n + j => i = j
      BY <1>1
    <3>. QED  BY <1>1, <1>4, <3>1 DEF OneReady
  <2>3. ~(Holds(a, "_ready") /\ Holds(b, "_ready"))
    <3>. SUFFICES ASSUME NEW i \in DOMAIN a, NEW j \in DOMAIN b,
                         a[i].type = "_ready", b[j].type = "_ready"
                  PROVE  FALSE
      BY DEF Holds
    <3>1. i \in Nat /\ j \in Nat /\ i < n + j /\ i = n + j
      BY <1>1, <1>4 DEF OneReady
    <3>. QED  BY <1>1, <3>1
  <2>. QED  BY <2>1, <2>2, <2>3
<1>5. ASSUME OneReady(a), OneReady(b), ~(Holds(a, "_ready") /\ Holds(b, "_ready"))
      PROVE  OneReady(c)
  <2>. SUFFICES ASSUME NEW k \in DOMAIN c, NEW m \in DOMAIN c,
                       c[k].type = "_ready", c[m].type = "_ready"
                PROVE  k = m
    BY DEF OneReady
  <2>1. CASE k \in DOMAIN a
    <3>1. m \in DOMAIN a
      BY <1>1, <1>5, <2>1 DEF Holds
    <3>. QED  BY <1>1, <1>5, <2>1, <3>1 DEF OneReady
  <2>2. CASE k \notin DOMAIN a
    <3>1. m \notin DOMAIN a
      BY <1>1, <1>5, <2>2 DEF Holds
    <3>2. PICK i \in DOMAIN b : k = n + i
      BY <1>1, <2>2
    <3>3. PICK j \in DOMAIN b : m = n + j
      BY <1>1, <3>1
    <3>4. c[k] = b[i] /\ c[m] = b[j]
      BY <1>1, <3>2, <3>3
    <3>5. i = j
      BY <1>5, <3>4 DEF OneReady
    <3>. QED  BY <3>2, <3>3, <3>5
  <2>. QED  BY <2>1, <2>2
<1>. QED  BY <1>2, <1>3, <1>4, <1>5 DEF c

(* One frame.                                                              *)
LEMMA OneFrame ==
  ASSUME NEW f \in Frame
  PROVE  /\ <<f>> \in Seq(Frame) /\ Rising(<<f>>) /\ OneReady(<<f>>)
         /\ Seqs(<<f>>) = IF f.type = "data" THEN {f.seq} ELSE {}
         /\ \A t : Holds(<<f>>, t) <=> f.type = t
         /\ Plain(<<f>>) <=> f.type \in {"data", "_ready"}
<1>1. DOMAIN <<f>> = {1} /\ <<f>>[1] = f
  OBVIOUS
<1>2. <<f>> \in Seq(Frame)
  <2>. HIDE DEF Frame
  <2>. QED  OBVIOUS
<1>3. Rising(<<f>>) /\ OneReady(<<f>>)
  BY <1>1 DEF Rising, OneReady
<1>. DEFINE a == <<f>>
<1>. HIDE DEF a
<1>4. DOMAIN a = {1} /\ a[1] = f
  BY <1>1 DEF a
<1>5. Seqs(a) = IF f.type = "data" THEN {f.seq} ELSE {}
  BY <1>4 DEF Seqs
<1>6. /\ \A t : Holds(a, t) <=> f.type = t
      /\ Plain(a) <=> f.type \in {"data", "_ready"}
  BY <1>4 DEF Holds, Plain
<1>. QED  BY <1>2, <1>3, <1>5, <1>6 DEF a

-----------------------------------------------------------------------------
One(b) == IF b THEN 1 ELSE 0

(* Frames in order are as many as their seqs, and _ready if it is there.   *)
LEMMA FramesCount ==
  ASSUME NEW a \in Seq(Frame), Plain(a), Rising(a), OneReady(a)
  PROVE  /\ IsFiniteSet(Seqs(a)) /\ Cardinality(Seqs(a)) \in Nat
         /\ Len(a) = Cardinality(Seqs(a)) + One(Holds(a, "_ready"))
<1>. DEFINE Ok(u) == /\ IsFiniteSet(Seqs(u)) /\ Cardinality(Seqs(u)) \in Nat
                     /\ Len(u) = Cardinality(Seqs(u)) + One(Holds(u, "_ready"))
            S == Frame
            T == {u \in Seq(S) : Plain(u) /\ Rising(u) /\ OneReady(u) => Ok(u)}
<1>1. << >> \in T
  <2>1. << >> \in Seq(S) /\ Seqs(<< >>) = {} /\ ~Holds(<< >>, "_ready") /\ Len(<< >>) = 0
    BY DEF Seqs, Holds
  <2>2. IsFiniteSet({}) /\ Cardinality({}) = 0
    BY FS_EmptySet
  <2>. DEFINE e == << >>
  <2>. HIDE DEF e
  <2>3. Seqs(e) = {} /\ Len(e) = 0 /\ One(Holds(e, "_ready")) = 0
    BY <2>1 DEF e, One
  <2>4. Ok(e)
    BY <2>2, <2>3
  <2>. HIDE DEF Ok
  <2>. QED  BY <2>1, <2>4 DEF e
<1>2. ASSUME NEW u \in T, NEW f \in S PROVE Append(u, f) \in T
  <2>. DEFINE one == <<f>>
              c   == Append(u, f)
  <2>1. /\ u \in Seq(S) /\ one \in Seq(S) /\ c \in Seq(S) /\ c = u \o one
        /\ Len(c) = Len(u) + 1 /\ Len(u) \in Nat
    <3>. HIDE DEF S
    <3>. QED  BY AppendIsConcat
  <2>2. /\ Rising(one) /\ Seqs(one) = IF f.type = "data" THEN {f.seq} ELSE {}
        /\ \A t : Holds(one, t) <=> f.type = t
        /\ Plain(one) <=> f.type \in {"data", "_ready"}
    BY OneFrame
  <2>. HIDE DEF one, c
  <2>3. /\ Seqs(c) = Seqs(u) \cup Seqs(one)
        /\ \A t : Holds(c, t) <=> Holds(u, t) \/ Holds(one, t)
        /\ Plain(c) <=> Plain(u) /\ Plain(one)
        /\ Rising(c) <=> Rising(u) /\ Rising(one) /\ Apart(u, one)
        /\ OneReady(c) <=> /\ OneReady(u) /\ OneReady(one)
                           /\ ~(Holds(u, "_ready") /\ Holds(one, "_ready"))
    BY <2>1, JoinSeqs, JoinOrder
  <2>. SUFFICES ASSUME Plain(c), Rising(c), OneReady(c) PROVE Ok(c)
    BY <2>1 DEF c
  <2>4. Ok(u)
    BY <2>3
  <2>5. CASE f.type = "data"
    <3>1. Seqs(c) = Seqs(u) \cup {f.seq} /\ (Holds(c, "_ready") <=> Holds(u, "_ready"))
      BY <2>2, <2>3, <2>5
    <3>2. f.seq \notin Seqs(u)
      <4>1. f.seq \in Nat
        BY DEF Frame
      <4>2. \A x \in Seqs(u) : x < f.seq
        BY <2>2, <2>3, <2>5 DEF Apart
      <4>. QED  BY <4>1, <4>2
    <3>3. /\ IsFiniteSet(Seqs(u) \cup {f.seq})
          /\ Cardinality(Seqs(u) \cup {f.seq}) = Cardinality(Seqs(u)) + 1
      BY <2>4, <3>2, FS_AddElement
    <3>. QED  BY <2>1, <2>4, <3>1, <3>3 DEF One
  <2>6. CASE f.type = "_ready"
    <3>1. Seqs(c) = Seqs(u) /\ Holds(c, "_ready") /\ ~Holds(u, "_ready")
      BY <2>2, <2>3, <2>6
    <3>. QED  BY <2>1, <2>4, <3>1 DEF One
  <2>. QED  BY <2>2, <2>3, <2>5, <2>6
<1>. HIDE DEF T
<1>3. a \in T
  BY <1>1, <1>2, ByteSum!SequenceInduction
<1>. QED  BY <1>3 DEF T

(* What a connection is owed of a log.                                     *)
Asked(filter, base, e) == e.seq > base /\ filter \in {All, e.kind}
Owed(filter, base, log) ==
  {log[i].seq : i \in {i \in DOMAIN log : Asked(filter, base, log[i])}}

(* A log, and the seq the next event has at least.                         *)
Log(log, next) ==
  log \in Seq(Event) /\ next \in Nat /\ \A i \in DOMAIN log : log[i].seq \in Nat /\ log[i].seq < next

(* What is owed is finite, and below what the log goes on with.            *)
LEMMA OwedIs ==
  ASSUME NEW log, NEW next, Log(log, next), NEW filter, NEW base
  PROVE  /\ IsFiniteSet(Owed(filter, base, log)) /\ Owed(filter, base, log) \in SUBSET Nat
         /\ \A q \in Owed(filter, base, log) : q < next
<1>. DEFINE O == Owed(filter, base, log)
<1>1. O \in SUBSET Nat /\ \A q \in O : q < next
  BY DEF Log, Owed
<1>. HIDE DEF O
<1>2. O \in SUBSET (0 .. next) /\ next \in Nat
  BY <1>1 DEF Log
<1>3. IsFiniteSet(O)
  <2>1. 0 \in Int /\ next \in Int
    BY <1>2
  <2>2. IsFiniteSet(0 .. next)
    BY <2>1, FS_Interval
  <2>. QED  BY <1>2, <2>2, FS_Subset
<1>. QED  BY <1>1, <1>3 DEF O

(* One event more is one more owed, if it was asked for.                   *)
LEMMA OwedMore ==
  ASSUME NEW log, NEW next, Log(log, next), NEW filter, NEW base, NEW e \in Event, e.seq = next
  PROVE  /\ Log(Append(log, e), next + 1)
         /\ Owed(filter, base, Append(log, e)) =
              Owed(filter, base, log) \cup IF Asked(filter, base, e) THEN {e.seq} ELSE {}
<1>. DEFINE S == Event
            more == Append(log, e)
            n == Len(log) + 1
<1>1. /\ more \in Seq(S) /\ more[n] = e /\ n \in DOMAIN more
      /\ \A i \in DOMAIN log : i \in DOMAIN more /\ more[i] = log[i]
      /\ \A i \in DOMAIN more : i \in DOMAIN log \/ i = n
  <2>. HIDE DEF S
  <2>. QED  BY DEF Log, S
<1>. HIDE DEF more, n, S
<1>2. Log(more, next + 1)
  BY <1>1 DEF Log, S
<1>3. Owed(filter, base, more) \subseteq Owed(filter, base, log) \cup IF Asked(filter, base, e) THEN {e.seq} ELSE {}
  BY <1>1 DEF Owed
<1>4. Owed(filter, base, log) \subseteq Owed(filter, base, more)
  BY <1>1 DEF Owed
<1>5. Asked(filter, base, e) => e.seq \in Owed(filter, base, more)
  BY <1>1 DEF Owed
<1>. QED  BY <1>2, <1>3, <1>4, <1>5 DEF more

-----------------------------------------------------------------------------
(***************************************************************************)
(* The account of a connection: what was written to it, what is queued and *)
(* how many were dropped in between are all it is owed of the log.         *)
(***************************************************************************)
Covered(w) ==
  {q \in Nat : \E i \in DOMAIN w : w[i].type = "_gap" /\ w[i].n < q /\ q < w[i].seq}
Around(w, i, q) ==
  \A j \in DOMAIN w : w[j].type = "data" => (j < i => w[j].seq < q) /\ (i < j => q < w[j].seq)

(* A missing seq is in a gap; or where a marker was written, ahead of all  *)
(* that is queued; or where the next one will be.                          *)
Noticed(w, queue, n, q) ==
  \/ q \in Covered(w)
  \/ (\A y \in Seqs(queue) : q < y) /\ \E i \in DOMAIN w : w[i].type = "_dropped" /\ Around(w, i, q)
  \/ n > 0 /\ (\A x \in Seqs(w) : x < q) /\ (\A y \in Seqs(queue) : q < y)

(* A gap precedes all data, and ends below the first of them.              *)
GapsFirst(w, queue, next) ==
  \A i \in DOMAIN w : w[i].type = "_gap" =>
    /\ w[i].seq <= next
    /\ \A j \in DOMAIN w : w[j].type = "data" => i < j
    /\ \A x \in Seqs(w) \cup Seqs(queue) : w[i].seq <= x

InOrder(w, queue) ==
  /\ Rising(w) /\ Rising(queue) /\ Apart(w, queue) /\ Plain(queue)
  /\ OneReady(w) /\ OneReady(queue) /\ ~(Holds(w, "_ready") /\ Holds(queue, "_ready"))

IsReady(w, queue) == Holds(w, "_ready") \/ Holds(queue, "_ready")

(* Markers and frames add up to what was owed, and the greeting.           *)
Tally(w, queue, n, owed, greeted) ==
  CountOf(w) + n + Cardinality(Seqs(w) \cup Seqs(queue)) + One(IsReady(w, queue))
    = Cardinality(owed \ Covered(w)) + One(greeted)

Account(w, queue, n, owed, next, greeted) ==
  /\ w \in Seq(Frame) /\ queue \in Seq(Frame) /\ n \in Nat
  /\ InOrder(w, queue) /\ GapsFirst(w, queue, next)
  /\ Seqs(w) \cup Seqs(queue) \subseteq owed
  /\ \A q \in owed \ (Seqs(w) \cup Seqs(queue)) : Noticed(w, queue, n, q)
  /\ IsReady(w, queue) => greeted
  /\ Tally(w, queue, n, owed, greeted)

Owing(owed, next) == IsFiniteSet(owed) /\ owed \in SUBSET Nat /\ next \in Nat /\ \A q \in owed : q < next

(* Every frame of a sequence has a seq.                                    *)
LEMMA FrameSeqs ==
  ASSUME NEW w \in Seq(Frame)
  PROVE  \A i \in DOMAIN w : w[i] \in Frame /\ w[i].seq \in Nat
<1>1. \A i \in DOMAIN w : w[i] \in Frame
  <2>. HIDE DEF Frame
  <2>. QED  OBVIOUS
<1>. QED  BY <1>1 DEF Frame

(* The next event is queued: it is owed, and there.                        *)
LEMMA AccountData ==
  ASSUME NEW w, NEW queue, NEW n, NEW owed, NEW next, NEW greeted \in BOOLEAN, Owing(owed, next),
         Account(w, queue, n, owed, next, greeted),
         NEW f \in Frame, f.type = "data", f.seq = next
  PROVE  Account(w, Append(queue, f), n, owed \cup {next}, next + 1, greeted)
<1>. DEFINE one   == <<f>>
            more  == Append(queue, f)
            owed2 == owed \cup {next}
<1>1. /\ w \in Seq(Frame) /\ queue \in Seq(Frame) /\ n \in Nat /\ next \in Nat
      /\ InOrder(w, queue) /\ GapsFirst(w, queue, next)
      /\ Seqs(w) \cup Seqs(queue) \subseteq owed /\ \A q \in owed : q \in Nat /\ q < next
  BY DEF Account, Owing
<1>2. more = queue \o one /\ one \in Seq(Frame)
  <2>. HIDE DEF Frame
  <2>. QED  BY <1>1, AppendIsConcat
<1>3. /\ Rising(one) /\ OneReady(one) /\ Seqs(one) = {next} /\ Plain(one)
      /\ ~Holds(one, "_ready")
  BY OneFrame
<1>. HIDE DEF one, more
<1>4. /\ more \in Seq(Frame) /\ Seqs(more) = Seqs(queue) \cup {next}
      /\ Plain(more) <=> Plain(queue) /\ Plain(one)
      /\ Holds(more, "_ready") <=> Holds(queue, "_ready")
      /\ Rising(more) <=> Rising(queue) /\ Rising(one) /\ Apart(queue, one)
      /\ OneReady(more) <=> /\ OneReady(queue) /\ OneReady(one)
                            /\ ~(Holds(queue, "_ready") /\ Holds(one, "_ready"))
  BY <1>1, <1>2, <1>3, JoinSeqs, JoinOrder
<1>5. Apart(queue, one) /\ Apart(w, more)
  BY <1>1, <1>3, <1>4 DEF Apart, InOrder
<1>6. InOrder(w, more)
  BY <1>1, <1>3, <1>4, <1>5 DEF InOrder
<1>7. GapsFirst(w, more, next + 1)
  <2>1. \A i \in DOMAIN w : w[i].seq \in Nat
    BY <1>1, FrameSeqs
  <2>. QED  BY <1>1, <1>4, <2>1 DEF GapsFirst
<1>8. \A q \in owed2 \ (Seqs(w) \cup Seqs(more)) : Noticed(w, more, n, q)
  BY <1>1, <1>4 DEF Account, Noticed
<1>9. IsReady(w, more) <=> IsReady(w, queue)
  BY <1>4 DEF IsReady
<1>10. Tally(w, more, n, owed2, greeted)
  <2>1. next \notin Covered(w)
    <3>1. \A i \in DOMAIN w : w[i].type = "_gap" => ~(next < w[i].seq)
      <4>1. \A i \in DOMAIN w : w[i].seq \in Nat
        BY <1>1, FrameSeqs
      <4>. QED  BY <1>1, <4>1 DEF GapsFirst
    <3>. QED  BY <3>1 DEF Covered
  <2>. DEFINE A == Seqs(w) \cup Seqs(queue)
              B == owed \ Covered(w)
  <2>2. IsFiniteSet(A) /\ IsFiniteSet(B) /\ next \notin A /\ next \notin B
    <3>1. next \notin owed
      BY <1>1
    <3>. QED  BY <1>1, <3>1, FS_Subset DEF Owing
  <2>3. Seqs(w) \cup Seqs(more) = A \cup {next} /\ owed2 \ Covered(w) = B \cup {next}
    BY <1>4, <2>1
  <2>. HIDE DEF A, B
  <2>4. /\ Cardinality(A \cup {next}) = Cardinality(A) + 1
        /\ Cardinality(B \cup {next}) = Cardinality(B) + 1
        /\ Cardinality(A) \in Nat /\ Cardinality(B) \in Nat
    BY <2>2, FS_AddElement, FS_CardinalityType
  <2>5. CountOf(w) + n + Cardinality(A) + One(IsReady(w, queue)) = Cardinality(B) + One(greeted)
    BY DEF Account, Tally, A, B
  <2>6. CountOf(w) \in Nat /\ One(IsReady(w, queue)) \in Nat /\ One(greeted) \in Nat
    BY <1>1, CountLaws DEF One
  <2>7. One(IsReady(w, more)) = One(IsReady(w, queue))
    BY <1>9 DEF One
  <2>8. CountOf(w) + n + (Cardinality(A) + 1) + One(IsReady(w, queue)) = (Cardinality(B) + 1) + One(greeted)
    <3>. DEFINE c == CountOf(w)
                a == Cardinality(A)
                b == Cardinality(B)
                r == One(IsReady(w, queue))
                g == One(greeted)
    <3>1. c \in Nat /\ n \in Nat /\ a \in Nat /\ r \in Nat /\ b \in Nat /\ g \in Nat /\ c + n + a + r = b + g
      BY <1>1, <2>4, <2>5, <2>6
    <3>. HIDE DEF c, a, b, r, g
    <3>2. c + n + (a + 1) + r = (b + 1) + g
      BY <3>1
    <3>. QED  BY <3>2 DEF c, a, b, r, g
  <2>. QED  BY <2>3, <2>4, <2>7, <2>8 DEF Tally
<1>11. Seqs(w) \cup Seqs(more) \subseteq owed2
  BY <1>1, <1>4
<1>12. IsReady(w, more) => greeted
  BY <1>9 DEF Account
<1>. QED  BY <1>1, <1>4, <1>6, <1>7, <1>8, <1>10, <1>11, <1>12 DEF Account, more

(* An event that is not asked for changes nothing.                         *)
LEMMA AccountOther ==
  ASSUME NEW w, NEW queue, NEW n, NEW owed, NEW next \in Nat, NEW greeted,
         Account(w, queue, n, owed, next, greeted)
  PROVE  Account(w, queue, n, owed, next + 1, greeted)
<1>1. GapsFirst(w, queue, next + 1)
  <2>1. w \in Seq(Frame) /\ \A i \in DOMAIN w : w[i].seq \in Nat
    BY FrameSeqs DEF Account
  <2>. QED  BY <2>1 DEF Account, GapsFirst
<1>. QED  BY <1>1 DEF Account

(* The greeting is queued.                                                 *)
LEMMA AccountReady ==
  ASSUME NEW w, NEW queue, NEW n, NEW owed, NEW next, Owing(owed, next),
         Account(w, queue, n, owed, next, FALSE), NEW f \in Frame, f.type = "_ready"
  PROVE  Account(w, Append(queue, f), n, owed, next, TRUE)
<1>. DEFINE one   == <<f>>
            more  == Append(queue, f)
<1>1. /\ w \in Seq(Frame) /\ queue \in Seq(Frame) /\ n \in Nat
      /\ InOrder(w, queue) /\ GapsFirst(w, queue, next) /\ ~IsReady(w, queue)
  BY DEF Account
<1>2. more = queue \o one /\ one \in Seq(Frame)
  <2>. HIDE DEF Frame
  <2>. QED  BY <1>1, AppendIsConcat
<1>3. Rising(one) /\ OneReady(one) /\ Seqs(one) = {} /\ Plain(one) /\ Holds(one, "_ready")
  BY OneFrame
<1>. HIDE DEF one, more
<1>4. /\ more \in Seq(Frame) /\ Seqs(more) = Seqs(queue)
      /\ Plain(more) <=> Plain(queue) /\ Plain(one)
      /\ Holds(more, "_ready")
      /\ Rising(more) <=> Rising(queue) /\ Rising(one) /\ Apart(queue, one)
      /\ OneReady(more) <=> /\ OneReady(queue) /\ OneReady(one)
                            /\ ~(Holds(queue, "_ready") /\ Holds(one, "_ready"))
  <2>1. more \in Seq(Frame) /\ Seqs(more) = Seqs(queue) /\ Holds(more, "_ready")
    <3>1. more \in Seq(Frame) /\ Seqs(more) = Seqs(queue) \cup Seqs(one)
      BY <1>1, <1>2, JoinSeqs
    <3>2. Holds(more, "_ready") <=> Holds(queue, "_ready") \/ Holds(one, "_ready")
      BY <1>1, <1>2, JoinSeqs
    <3>. QED  BY <1>3, <3>1, <3>2
  <2>. QED  BY <1>1, <1>2, <2>1, JoinSeqs, JoinOrder
<1>5. InOrder(w, more)
  BY <1>1, <1>3, <1>4 DEF InOrder, IsReady, Apart
<1>6. GapsFirst(w, more, next)
  BY <1>1, <1>4 DEF GapsFirst
<1>7. \A q \in owed \ (Seqs(w) \cup Seqs(more)) : Noticed(w, more, n, q)
  BY <1>4 DEF Account, Noticed
<1>8. Tally(w, more, n, owed, TRUE)
  <2>1. One(IsReady(w, more)) = 1 /\ One(IsReady(w, queue)) = 0 /\ One(TRUE) = 1 /\ One(FALSE) = 0
    BY <1>1, <1>4 DEF One, IsReady
  <2>. DEFINE A == Cardinality(Seqs(w) \cup Seqs(queue))
              B == Cardinality(owed \ Covered(w))
  <2>2. CountOf(w) + n + A + 0 = B + 0
    BY <2>1 DEF Account, Tally
  <2>3. A \in Nat /\ B \in Nat /\ CountOf(w) \in Nat /\ n \in Nat
    <3>1. IsFiniteSet(Seqs(w) \cup Seqs(queue)) /\ IsFiniteSet(owed \ Covered(w))
      BY FS_Subset DEF Account, Owing
    <3>. QED  BY <1>1, <3>1, FS_CardinalityType, CountLaws
  <2>4. A = Cardinality(Seqs(w) \cup Seqs(more))
    BY <1>4
  <2>. HIDE DEF A, B
  <2>5. CountOf(w) + n + A + 1 = B + 1
    BY <2>2, <2>3
  <2>. QED  BY <2>1, <2>4, <2>5 DEF Tally, B
<1>. QED  BY <1>1, <1>4, <1>5, <1>6, <1>7, <1>8 DEF Account, more

-----------------------------------------------------------------------------
(* The oldest k queued are dropped: their count stands where they did.     *)
LEMMA AccountDrop ==
  ASSUME NEW w, NEW queue, NEW n, NEW owed, NEW next, NEW greeted \in BOOLEAN, Owing(owed, next),
         Account(w, queue, n, owed, next, greeted), NEW k \in 0 .. Len(queue)
  PROVE  Account(w, From(queue, k + 1), n + k, owed, next, greeted)
<1>. DEFINE a == SubSeq(queue, 1, k)
            b == From(queue, k + 1)
<1>1. /\ w \in Seq(Frame) /\ queue \in Seq(Frame) /\ n \in Nat /\ k \in Nat
      /\ InOrder(w, queue) /\ GapsFirst(w, queue, next)
      /\ Seqs(w) \cup Seqs(queue) \subseteq owed /\ \A q \in owed : q \in Nat
  BY DEF Account, Owing
<1>2. a \in Seq(Frame) /\ b \in Seq(Frame) /\ Len(a) = k /\ a \o b = queue
  <2>. HIDE DEF Frame
  <2>. QED  BY <1>1, Cut
<1>. HIDE DEF a, b
<1>3. /\ Seqs(queue) = Seqs(a) \cup Seqs(b)
      /\ Holds(queue, "_ready") <=> Holds(a, "_ready") \/ Holds(b, "_ready")
      /\ Plain(a) /\ Plain(b)
  BY <1>1, <1>2, JoinSeqs DEF InOrder
<1>4. /\ Rising(a) /\ Rising(b) /\ Apart(a, b) /\ OneReady(a) /\ OneReady(b)
      /\ ~(Holds(a, "_ready") /\ Holds(b, "_ready"))
  BY <1>1, <1>2, JoinOrder DEF InOrder
<1>5. InOrder(w, b)
  BY <1>1, <1>3, <1>4 DEF InOrder, Apart
<1>6. GapsFirst(w, b, next)
  BY <1>1, <1>3 DEF GapsFirst
<1>7. k = Cardinality(Seqs(a)) + One(Holds(a, "_ready")) /\ IsFiniteSet(Seqs(a))
  BY <1>2, <1>3, <1>4, FramesCount
<1>8. \A q \in owed \ (Seqs(w) \cup Seqs(b)) : Noticed(w, b, n + k, q)
  <2>. SUFFICES ASSUME NEW q \in owed \ (Seqs(w) \cup Seqs(b)) PROVE Noticed(w, b, n + k, q)
    OBVIOUS
  <2>1. CASE q \in Seqs(a)
    <3>1. n + k > 0
      <4>1. Cardinality(Seqs(a)) \in Nat /\ Cardinality(Seqs(a)) # 0
        BY <1>7, <2>1, FS_CardinalityType, FS_EmptySet
      <4>2. One(Holds(a, "_ready")) \in Nat
        BY DEF One
      <4>. QED  BY <1>1, <1>7, <4>1, <4>2
    <3>2. \A x \in Seqs(w) : x < q
      BY <1>1, <1>3, <2>1 DEF InOrder, Apart
    <3>3. \A y \in Seqs(b) : q < y
      BY <1>4, <2>1 DEF Apart
    <3>. QED  BY <3>1, <3>2, <3>3 DEF Noticed
  <2>2. CASE q \notin Seqs(a)
    <3>1. Noticed(w, queue, n, q)
      BY <1>3, <2>2 DEF Account
    <3>2. n > 0 => n + k > 0
      BY <1>1
    <3>. QED  BY <1>3, <3>1, <3>2 DEF Noticed
  <2>. QED  BY <2>1, <2>2
<1>9. Tally(w, b, n + k, owed, greeted)
  <2>. DEFINE A == Seqs(w) \cup Seqs(b)
              c == CountOf(w)
              d == Cardinality(A)
              e == Cardinality(Seqs(a))
              r == One(IsReady(w, b))
              s == One(Holds(a, "_ready"))
              t == Cardinality(owed \ Covered(w)) + One(greeted)
  <2>1. IsFiniteSet(A)
    BY <1>1, <1>3, FS_Subset DEF Owing
  <2>2. A \cap Seqs(a) = {}
    BY <1>1, <1>3, <1>4 DEF InOrder, Apart
  <2>3. Cardinality(A \cup Seqs(a)) = d + e
    <3>1. Cardinality({}) = 0
      BY FS_EmptySet
    <3>2. d \in Nat /\ e \in Nat
      BY <1>7, <2>1, FS_CardinalityType
    <3>3. Cardinality(A \cup Seqs(a)) = d + e - Cardinality(A \cap Seqs(a))
      <4>. HIDE DEF A
      <4>. QED  BY <1>7, <2>1, FS_Union
    <3>4. Cardinality(A \cap Seqs(a)) = 0
      BY <2>2, <3>1
    <3>. HIDE DEF A, d, e
    <3>. QED  BY <3>2, <3>3, <3>4
  <2>4. Seqs(w) \cup Seqs(queue) = A \cup Seqs(a)
    BY <1>3
  <2>5. One(IsReady(w, queue)) = r + s
    <3>1. IsReady(w, queue) <=> IsReady(w, b) \/ Holds(a, "_ready")
      BY <1>3 DEF IsReady
    <3>2. ~(IsReady(w, b) /\ Holds(a, "_ready"))
      BY <1>1, <1>3, <1>4 DEF IsReady, InOrder
    <3>. QED  BY <3>1, <3>2 DEF One
  <2>6. c + n + (d + e) + (r + s) = t
    <3>1. CountOf(w) + n + Cardinality(Seqs(w) \cup Seqs(queue)) + One(IsReady(w, queue)) = t
      BY DEF Account, Tally
    <3>. HIDE DEF t
    <3>. QED  BY <2>3, <2>4, <2>5, <3>1
  <2>7. /\ c \in Nat /\ d \in Nat /\ e \in Nat /\ r \in Nat /\ s \in Nat /\ k = e + s
    <3>1. r \in Nat /\ s \in Nat
      BY DEF One
    <3>. QED  BY <1>1, <1>7, <2>1, <3>1, CountLaws, FS_CardinalityType
  <2>. HIDE DEF c, d, e, r, s, t, A
  <2>8. c + (n + k) + d + r = t
    BY <1>1, <2>6, <2>7
  <2>. QED  BY <2>8 DEF Tally, c, d, r, t, A
<1>10. IsReady(w, b) => greeted
  BY <1>3 DEF Account, IsReady
<1>11. n + k \in Nat /\ Seqs(w) \cup Seqs(b) \subseteq owed
  BY <1>1, <1>3
<1>. QED  BY <1>1, <1>2, <1>5, <1>6, <1>8, <1>9, <1>10, <1>11 DEF Account, b

(* What is written, a marker for what was dropped or else frames from the  *)
(* head of the queue, goes on where what was written ended.                *)
LEMMA AccountMark ==
  ASSUME NEW w, NEW queue, NEW n, NEW owed, NEW next, NEW greeted \in BOOLEAN, Owing(owed, next),
         Account(w, queue, n, owed, next, greeted), n > 0
  PROVE  Account(w \o <<Dropped(n)>>, queue, 0, owed, next, greeted)
<1>. DEFINE f   == Dropped(n)
            one == <<f>>
            x   == w \o one
<1>1. /\ w \in Seq(Frame) /\ queue \in Seq(Frame) /\ n \in Nat
      /\ InOrder(w, queue) /\ GapsFirst(w, queue, next)
      /\ Seqs(w) \cup Seqs(queue) \subseteq owed
  BY DEF Account
<1>2. f \in Frame /\ f.type = "_dropped" /\ f.n = n
  BY <1>1 DEF Dropped, Frame
<1>3. /\ one \in Seq(Frame) /\ Rising(one) /\ OneReady(one) /\ Seqs(one) = {}
      /\ ~Holds(one, "_ready") /\ one[1] = f /\ DOMAIN one = {1}
  <2>1. one[1] = f /\ DOMAIN one = {1}
    OBVIOUS
  <2>. HIDE DEF f
  <2>2. /\ one \in Seq(Frame) /\ Rising(one) /\ OneReady(one)
        /\ Seqs(one) = IF f.type = "data" THEN {f.seq} ELSE {}
        /\ \A t : Holds(one, t) <=> f.type = t
    BY <1>2, OneFrame
  <2>3. Seqs(one) = {} /\ ~Holds(one, "_ready")
    BY <1>2, <2>2
  <2>. QED  BY <2>1, <2>2, <2>3
<1>. HIDE DEF f, one, x
<1>4. /\ x \in Seq(Frame) /\ Seqs(x) = Seqs(w) /\ (Holds(x, "_ready") <=> Holds(w, "_ready"))
      /\ Rising(x) <=> Rising(w) /\ Rising(one) /\ Apart(w, one)
      /\ OneReady(x) <=> OneReady(w)
  <2>1. /\ x \in Seq(Frame) /\ Seqs(x) = Seqs(w) \cup Seqs(one)
        /\ Holds(x, "_ready") <=> Holds(w, "_ready") \/ Holds(one, "_ready")
    BY <1>1, <1>3, JoinSeqs DEF x
  <2>2. /\ Rising(x) <=> Rising(w) /\ Rising(one) /\ Apart(w, one)
        /\ OneReady(x) <=> /\ OneReady(w) /\ OneReady(one)
                           /\ ~(Holds(w, "_ready") /\ Holds(one, "_ready"))
    BY <1>1, <1>3, JoinOrder DEF x
  <2>. QED  BY <1>3, <2>1, <2>2
<1>5. /\ Len(w) \in Nat
      /\ \A i \in DOMAIN w : i \in Nat /\ i < Len(w) + 1 /\ i \in DOMAIN x /\ x[i] = w[i]
      /\ Len(w) + 1 \in DOMAIN x /\ x[Len(w) + 1] = f
      /\ \A i \in DOMAIN x : i \in DOMAIN w \/ i = Len(w) + 1
  <2>. DEFINE m == Len(w)
              S == Frame
  <2>1. w \in Seq(S) /\ one \in Seq(S) /\ x = w \o one /\ m = Len(w)
    BY <1>1, <1>3 DEF x
  <2>. HIDE DEF m, S
  <2>2. EndToEnd(S, w, one, x, m)
    BY <2>1, Places
  <2>3. 1 \in DOMAIN one /\ one[1] = f /\ \A j \in DOMAIN one : j = 1
    BY <1>3
  <2>. QED  BY <2>2, <2>3 DEF EndToEnd, m
<1>6. InOrder(x, queue)
  BY <1>1, <1>3, <1>4 DEF InOrder, Apart
<1>7. GapsFirst(x, queue, next)
  BY <1>1, <1>2, <1>4, <1>5 DEF GapsFirst
<1>8. Covered(x) = Covered(w)
  BY <1>2, <1>5 DEF Covered
<1>9. \A q \in owed \ (Seqs(x) \cup Seqs(queue)) : Noticed(x, queue, 0, q)
  <2>. SUFFICES ASSUME NEW q \in owed \ (Seqs(w) \cup Seqs(queue)) PROVE Noticed(x, queue, 0, q)
    BY <1>4
  <2>0. Noticed(w, queue, n, q)
    BY DEF Account
  <2>1. CASE q \in Covered(w)
    BY <1>8, <2>1 DEF Noticed
  <2>2. ASSUME \A y \in Seqs(queue) : q < y,
               NEW i \in DOMAIN w, w[i].type = "_dropped", Around(w, i, q)
        PROVE  Noticed(x, queue, 0, q)
    <3>1. Around(x, i, q)
      BY <1>2, <1>5, <2>2 DEF Around
    <3>2. i \in DOMAIN x /\ x[i].type = "_dropped"
      BY <1>5, <2>2
    <3>. QED  BY <2>2, <3>1, <3>2 DEF Noticed
  <2>3. ASSUME \A y \in Seqs(w) : y < q, \A y \in Seqs(queue) : q < y
        PROVE  Noticed(x, queue, 0, q)
    <3>1. Around(x, Len(w) + 1, q)
      <4>1. \A j \in DOMAIN x : x[j].type = "data" => j \in DOMAIN w /\ x[j].seq \in Seqs(w)
        BY <1>2, <1>5 DEF Seqs
      <4>2. \A j \in DOMAIN w : ~(Len(w) + 1 < j)
        BY <1>5
      <4>. QED  BY <2>3, <4>1, <4>2 DEF Around
    <3>. QED  BY <1>2, <1>5, <2>3, <3>1 DEF Noticed
  <2>. QED  BY <2>0, <2>1, <2>2, <2>3 DEF Noticed
<1>10. Tally(x, queue, 0, owed, greeted)
  <2>1. CountOf(x) = CountOf(w) + CountOf(one) /\ CountOf(w) \in Nat
    BY <1>1, <1>3, CountLaws DEF x
  <2>2. CountOf(one) = n
    <3>1. one = Append(<< >>, f) /\ << >> \in Seq(Frame)
      BY DEF one
    <3>2. CountOf(Append(<< >>, f)) = CountOf(<< >>) + IF f.type = "_dropped" THEN f.n ELSE 0
      BY <1>2, <3>1, CountLaws
    <3>3. CountOf(<< >>) = 0
      BY <3>1, CountLaws
    <3>. QED  BY <1>1, <1>2, <3>1, <3>2, <3>3
  <2>3. CountOf(x) + 0 = CountOf(w) + n
    BY <1>1, <2>1, <2>2
  <2>4. IsReady(x, queue) <=> IsReady(w, queue)
    BY <1>4 DEF IsReady
  <2>5. One(IsReady(x, queue)) = One(IsReady(w, queue))
    BY <2>4 DEF One
  <2>. QED  BY <1>4, <1>8, <2>3, <2>5 DEF Account, Tally
<1>11. IsReady(x, queue) => greeted
  BY <1>4 DEF Account, IsReady
<1>. QED  BY <1>1, <1>4, <1>6, <1>7, <1>9, <1>10, <1>11 DEF Account, x, one, f

(* Frames that leave the queue for the wire, in their order.               *)
LEMMA AccountWrite ==
  ASSUME NEW w, NEW queue, NEW owed, NEW next, NEW greeted \in BOOLEAN, Owing(owed, next),
         Account(w, queue, 0, owed, next, greeted), NEW k \in 0 .. Len(queue)
  PROVE  Account(w \o SubSeq(queue, 1, k), From(queue, k + 1), 0, owed, next, greeted)
<1>. DEFINE a == SubSeq(queue, 1, k)
            b == From(queue, k + 1)
            x == w \o a
<1>1. /\ w \in Seq(Frame) /\ queue \in Seq(Frame)
      /\ InOrder(w, queue) /\ GapsFirst(w, queue, next)
      /\ Seqs(w) \cup Seqs(queue) \subseteq owed
  BY DEF Account
<1>2. a \in Seq(Frame) /\ b \in Seq(Frame) /\ a \o b = queue
  <2>. HIDE DEF Frame
  <2>. QED  BY <1>1, Cut
<1>. HIDE DEF a, b, x
<1>3. /\ Seqs(queue) = Seqs(a) \cup Seqs(b)
      /\ Holds(queue, "_ready") <=> Holds(a, "_ready") \/ Holds(b, "_ready")
      /\ Plain(a) /\ Plain(b)
  BY <1>1, <1>2, JoinSeqs DEF InOrder
<1>4. /\ Rising(a) /\ Rising(b) /\ Apart(a, b) /\ OneReady(a) /\ OneReady(b)
      /\ ~(Holds(a, "_ready") /\ Holds(b, "_ready"))
  BY <1>1, <1>2, JoinOrder DEF InOrder
<1>5. Apart(w, a) /\ Apart(w, b)
  BY <1>1, <1>3 DEF InOrder, Apart
<1>6. /\ x \in Seq(Frame) /\ Seqs(x) = Seqs(w) \cup Seqs(a)
      /\ Holds(x, "_ready") <=> Holds(w, "_ready") \/ Holds(a, "_ready")
  BY <1>1, <1>2, JoinSeqs DEF x
<1>7. Rising(x) /\ OneReady(x)
  BY <1>1, <1>2, <1>3, <1>4, <1>5, JoinOrder DEF x, InOrder
<1>8. InOrder(x, b)
  BY <1>1, <1>3, <1>4, <1>5, <1>6, <1>7 DEF InOrder, Apart
<1>9. Seqs(x) \cup Seqs(b) = Seqs(w) \cup Seqs(queue)
  BY <1>3, <1>6
<1>10. /\ \A i \in DOMAIN w : i \in DOMAIN x /\ x[i] = w[i]
       /\ \A i \in DOMAIN x : i \in DOMAIN w \/ \E j \in DOMAIN a : i = Len(w) + j /\ x[i] = a[j]
       /\ \A i \in DOMAIN w, j \in DOMAIN a : i \in Nat /\ j \in Nat /\ i < Len(w) + j
       /\ Len(w) \in Nat
  <2>. DEFINE n == Len(w)
              S == Frame
  <2>1. w \in Seq(S) /\ a \in Seq(S) /\ x = w \o a /\ n = Len(w)
    BY <1>1, <1>2 DEF x
  <2>. HIDE DEF n, S
  <2>2. EndToEnd(S, w, a, x, n)
    BY <2>1, Places
  <2>. QED  BY <2>2 DEF EndToEnd, n
<1>11. \A j \in DOMAIN a : /\ a[j].type # "_gap"
                           /\ a[j].type = "data" => a[j].seq \in Seqs(queue)
  BY <1>3 DEF Plain, Seqs
<1>12. GapsFirst(x, b, next)
  <2>. SUFFICES ASSUME NEW i \in DOMAIN x, x[i].type = "_gap"
                PROVE  /\ x[i].seq <= next
                       /\ \A j \in DOMAIN x : x[j].type = "data" => i < j
                       /\ \A y \in Seqs(x) \cup Seqs(b) : x[i].seq <= y
    BY DEF GapsFirst
  <2>1. i \in DOMAIN w /\ x[i] = w[i]
    BY <1>10, <1>11
  <2>. QED  BY <1>1, <1>9, <1>10, <2>1 DEF GapsFirst
<1>13. Covered(x) = Covered(w)
  <2>1. Covered(x) \subseteq Covered(w)
    BY <1>10, <1>11 DEF Covered
  <2>2. Covered(w) \subseteq Covered(x)
    BY <1>10 DEF Covered
  <2>. QED  BY <2>1, <2>2
<1>14. \A q \in owed \ (Seqs(x) \cup Seqs(b)) : Noticed(x, b, 0, q)
  <2>. SUFFICES ASSUME NEW q \in owed \ (Seqs(w) \cup Seqs(queue)) PROVE Noticed(x, b, 0, q)
    BY <1>9
  <2>0. Noticed(w, queue, 0, q)
    BY DEF Account
  <2>1. CASE q \in Covered(w)
    BY <1>13, <2>1 DEF Noticed
  <2>2. ASSUME \A y \in Seqs(queue) : q < y,
               NEW i \in DOMAIN w, w[i].type = "_dropped", Around(w, i, q)
        PROVE  Noticed(x, b, 0, q)
    <3>1. Around(x, i, q)
      <4>. SUFFICES ASSUME NEW j \in DOMAIN x, x[j].type = "data"
                    PROVE  (j < i => x[j].seq < q) /\ (i < j => q < x[j].seq)
        BY DEF Around
      <4>1. CASE j \in DOMAIN w
        BY <1>10, <2>2, <4>1 DEF Around
      <4>2. CASE j \notin DOMAIN w
        <5>1. PICK m \in DOMAIN a : j = Len(w) + m /\ x[j] = a[m]
          BY <1>10, <4>2
        <5>2. i < j /\ i \in Nat /\ j \in Nat
          BY <1>10, <5>1
        <5>3. q < x[j].seq
          BY <1>11, <2>2, <5>1
        <5>. QED  BY <5>2, <5>3
      <4>. QED  BY <4>1, <4>2
    <3>2. i \in DOMAIN x /\ x[i].type = "_dropped"
      BY <1>10, <2>2
    <3>. QED  BY <1>3, <2>2, <3>1, <3>2 DEF Noticed
  <2>. QED  BY <2>0, <2>1, <2>2 DEF Noticed
<1>15. Tally(x, b, 0, owed, greeted)
  <2>1. CountOf(x) = CountOf(w)
    <3>1. CountOf(x) = CountOf(w) + CountOf(a) /\ CountOf(w) \in Nat
      BY <1>1, <1>2, CountLaws DEF x
    <3>2. CountOf(a) = 0
      BY <1>2, <1>3, PlainCount
    <3>. QED  BY <3>1, <3>2
  <2>2. IsReady(x, b) <=> IsReady(w, queue)
    BY <1>3, <1>6 DEF IsReady
  <2>3. One(IsReady(x, b)) = One(IsReady(w, queue))
    BY <2>2 DEF One
  <2>. QED  BY <1>9, <1>13, <2>1, <2>3 DEF Account, Tally
<1>16. IsReady(x, b) => greeted
  BY <1>3, <1>6 DEF Account, IsReady
<1>. QED  BY <1>1, <1>2, <1>6, <1>8, <1>9, <1>12, <1>14, <1>15, <1>16 DEF Account, x, a, b

-----------------------------------------------------------------------------
(***************************************************************************)
(* A subscriber keeps its account and its bounds through every call.       *)
(***************************************************************************)
Line == [open : BOOLEAN, filter : Kinds \cup {All},
         queue : Seq(Frame), bytes : Int, dropped : Nat,
         writing : BOOLEAN, wrote : Seq(Frame), base : Nat]

Held(s, owed, next, greeted) ==
  /\ s \in Line /\ s.open
  /\ Account(s.wrote, s.queue, s.dropped, owed, next, greeted)
  /\ s.bytes = Bytes(s.queue) /\ s.bytes <= SubMaxBytes /\ Len(s.queue) <= SubMaxItems

Served(s, owed, next, greeted) ==
  Held(s, owed, next, greeted) /\ (s.queue # <<>> \/ s.dropped > 0 => s.writing)

GoesOn(s, s2) ==
  s2.filter = s.filter /\ s2.base = s.base /\ \E t \in Seq(Frame) : s2.wrote = s.wrote \o t

(* Sizes and budgets are numbers, and any one frame fits.                  *)
LEMMA FrameSizes ==
  /\ \A f \in Frame : f.size \in Nat /\ 1 <= f.size /\ f.size <= SubMaxBytes
  /\ \A e \in Event : e.size \in Nat /\ e.size <= RingMaxBytes /\ e.seq \in Nat
  /\ SubMaxItems \in Nat /\ SubMaxItems > 0 /\ SubMaxBytes \in Nat /\ SubMaxBytes > 0
  /\ RingMaxBytes \in Nat
<1>1. /\ SubMaxItems \in Nat /\ SubMaxItems > 0 /\ SubMaxBytes \in Nat /\ SubMaxBytes > 0
      /\ RingMaxBytes \in Nat
  BY StreamAssumption
<1>2. \A x \in Sizes : x \in Nat /\ 1 <= x /\ x <= SubMaxBytes /\ x <= RingMaxBytes
  BY <1>1, StreamAssumption
<1>. QED  BY <1>1, <1>2 DEF Frame, Event

(* A closed connection is one.                                             *)
LEMMA OffIs == Off \in Line /\ ~Off.open
<1>1. <<>> \in Seq(Frame)
  OBVIOUS
<1>. HIDE DEF Frame
<1>. QED  BY <1>1 DEF Off, Line

(* What the loop of the pump leaves.                                       *)
LEMMA WroteIs ==
  ASSUME NEW s \in Line, s.open, NEW k \in 0 .. Len(s.queue), NEW full \in BOOLEAN,
         s.bytes = Bytes(s.queue)
  PROVE  LET t == Wrote(s, k, full) IN
         /\ t \in Line /\ t.open /\ t.filter = s.filter /\ t.base = s.base
         /\ t.dropped = s.dropped /\ t.writing = full
         /\ t.wrote = s.wrote \o SubSeq(s.queue, 1, k)
         /\ t.queue = From(s.queue, k + 1) /\ t.bytes = Bytes(t.queue)
<1>. DEFINE S == Frame
            a == SubSeq(s.queue, 1, k)
            b == From(s.queue, k + 1)
            t == Wrote(s, k, full)
<1>1. s.queue \in Seq(S) /\ s.wrote \in Seq(S) /\ \A x \in S : x.size \in Nat
  BY FrameSizes DEF Line
<1>2. a \in Seq(S) /\ b \in Seq(S) /\ Bytes(a) \in Nat /\ Bytes(b) = Bytes(s.queue) - Bytes(a)
  <2>. DEFINE q == s.queue
  <2>1. q \in Seq(S) /\ k \in 0 .. Len(q) /\ \A x \in S : x.size \in Nat
    BY <1>1
  <2>. HIDE DEF S, q
  <2>2. Parts(S, q, k, SubSeq(q, 1, k), From(q, k + 1))
    BY <2>1, CutParts
  <2>3. /\ Bytes(SubSeq(q, 1, k)) \in Nat
        /\ Bytes(From(q, k + 1)) = Bytes(q) - Bytes(SubSeq(q, 1, k))
    BY <2>1, BytesCut
  <2>. QED  BY <2>2, <2>3 DEF Parts, q
<1>3. s.wrote \o a \in Seq(S)
  <2>. DEFINE w == s.wrote
  <2>1. w \in Seq(S) /\ a \in Seq(S)
    BY <1>1, <1>2
  <2>. HIDE DEF S, a, w
  <2>2. w \o a \in Seq(S)
    BY <2>1
  <2>. QED  BY <2>2 DEF w
<1>4. t = [s EXCEPT !.wrote = s.wrote \o a, !.queue = b, !.bytes = s.bytes - Bytes(a), !.writing = full]
  BY DEF Wrote
<1>. HIDE DEF S, a, b, t
<1>5. t = [open |-> s.open, filter |-> s.filter, queue |-> b, bytes |-> s.bytes - Bytes(a),
           dropped |-> s.dropped, writing |-> full, wrote |-> s.wrote \o a, base |-> s.base]
  BY <1>4 DEF Line
<1>6. s.bytes - Bytes(a) \in Int
  BY <1>2 DEF Line
<1>7. t \in Line
  BY <1>2, <1>3, <1>5, <1>6 DEF Line, S
<1>8. t.bytes = Bytes(b)
  BY <1>2, <1>5
<1>. QED  BY <1>5, <1>7, <1>8 DEF a, b, t

(* A marker.                                                               *)
LEMMA DroppedIs ==
  ASSUME NEW n \in Nat
  PROVE  /\ Dropped(n) \in Frame /\ <<Dropped(n)>> \in Seq(Frame) /\ Bytes(<<Dropped(n)>>) = 1
<1>. DEFINE S == Frame
            d == Dropped(n)
            e == <<>>
<1>1. d \in S /\ d.size = 1 /\ \A x \in S : x.size \in Nat
  BY FrameSizes DEF Dropped, Frame
<1>. HIDE DEF S, d
<1>2. <<d>> = Append(e, d) /\ e \in Seq(S) /\ <<d>> \in Seq(S)
  BY <1>1
<1>. HIDE DEF e
<1>3. Bytes(<<>>) = 0 /\ Bytes(Append(e, d)) = Bytes(e) + d.size
  BY <1>1, <1>2, BytesLaws
<1>. QED  BY <1>1, <1>2, <1>3 DEF e, d, S

(* What the head of the pump leaves.                                       *)
LEMMA MarkedIs ==
  ASSUME NEW s \in Line, s.open, s.bytes = Bytes(s.queue), s.dropped > 0
  PROVE  LET t == Marked(s) IN
         /\ t \in Line /\ t.open /\ t.filter = s.filter /\ t.base = s.base
         /\ t.dropped = 0 /\ t.wrote = s.wrote
         /\ t.queue = <<Dropped(s.dropped)>> \o s.queue /\ t.bytes = Bytes(t.queue)
<1>. DEFINE S   == Frame
            one == <<Dropped(s.dropped)>>
            all == one \o s.queue
            t   == Marked(s)
<1>1. s.queue \in Seq(S) /\ s.wrote \in Seq(S) /\ \A x \in S : x.size \in Nat
  BY FrameSizes DEF Line
<1>2. one \in Seq(S) /\ Bytes(one) = 1
  BY DroppedIs DEF Line
<1>3. all \in Seq(S) /\ Bytes(all) = 1 + Bytes(s.queue) /\ Bytes(s.queue) \in Nat
  <2>. HIDE DEF S, one
  <2>. QED  BY <1>1, <1>2, BytesLaws
<1>4. t = [s EXCEPT !.queue = all, !.bytes = s.bytes + 1, !.dropped = 0]
  BY DEF Marked, Line
<1>. HIDE DEF S, one, all, t
<1>5. t = [open |-> s.open, filter |-> s.filter, queue |-> all, bytes |-> s.bytes + 1,
           dropped |-> 0, writing |-> s.writing, wrote |-> s.wrote, base |-> s.base]
  BY <1>4 DEF Line
<1>6. s.bytes + 1 \in Int
  BY DEF Line
<1>7. t \in Line
  BY <1>3, <1>5, <1>6 DEF Line, S
<1>8. t.bytes = Bytes(all)
  BY <1>3, <1>5
<1>. QED  BY <1>5, <1>7, <1>8 DEF all, one, t

-----------------------------------------------------------------------------
(* A sequence cut behind its first element.                                *)
LEMMA CutAhead ==
  ASSUME NEW S, NEW x \in S, NEW q \in Seq(S), NEW k \in 0 .. Len(q)
  PROVE  /\ <<x>> \o q \in Seq(S) /\ Len(<<x>> \o q) = Len(q) + 1
         /\ SubSeq(<<x>> \o q, 1, k + 1) = <<x>> \o SubSeq(q, 1, k)
         /\ From(<<x>> \o q, k + 2) = From(q, k + 1)
<1>. DEFINE w == <<x>> \o q
            a == SubSeq(q, 1, k)
            b == From(q, k + 1)
            c == SubSeq(w, 1, k + 1)
            d == From(w, k + 2)
<1>1. /\ Len(q) \in Nat /\ k \in Nat /\ k <= Len(q) /\ w \in Seq(S) /\ Len(w) = Len(q) + 1
      /\ w[1] = x /\ \A i \in 1 .. Len(q) : w[i + 1] = q[i]
  OBVIOUS
<1>2. k + 1 \in 0 .. Len(w) /\ (k + 1) + 1 = k + 2
  BY <1>1
<1>. HIDE DEF w
<1>3. /\ a \in Seq(S) /\ Len(a) = k /\ \A i \in 1 .. k : a[i] = q[i]
      /\ b \in Seq(S) /\ Len(b) = Len(q) - k /\ \A i \in 1 .. Len(q) - k : b[i] = q[k + i]
  BY Cut
<1>4. /\ c \in Seq(S) /\ Len(c) = k + 1 /\ \A i \in 1 .. k + 1 : c[i] = w[i]
      /\ d \in Seq(S) /\ Len(d) = Len(w) - (k + 1)
      /\ \A i \in 1 .. Len(w) - (k + 1) : d[i] = w[(k + 1) + i]
  <2>. DEFINE n == k + 1
  <2>1. n \in 0 .. Len(w) /\ d = From(w, n + 1)
    BY <1>2
  <2>. HIDE DEF n, d
  <2>2. Parts(S, w, n, SubSeq(w, 1, n), d)
    BY <1>1, <2>1, CutParts
  <2>. QED  BY <2>2 DEF Parts, n
<1>. HIDE DEF a, b, c, d
<1>5. b = d
  <2>1. Len(d) = Len(b)
    BY <1>1, <1>3, <1>4
  <2>2. \A i \in 1 .. Len(b) : b[i] = d[i]
    <3>. SUFFICES ASSUME NEW i \in 1 .. Len(b) PROVE b[i] = d[i]
      OBVIOUS
    <3>1. i \in 1 .. Len(q) - k /\ i \in 1 .. Len(w) - (k + 1) /\ k + i \in 1 .. Len(q)
          /\ (k + 1) + i = (k + i) + 1
      BY <1>1, <1>3
    <3>2. b[i] = q[k + i] /\ d[i] = w[(k + 1) + i]
      BY <1>3, <1>4, <3>1
    <3>3. \A j \in 1 .. Len(q) : w[j + 1] = q[j]
      BY <1>1
    <3>4. w[(k + i) + 1] = q[k + i]
      BY <3>1, <3>3
    <3>5. w[(k + 1) + i] = w[(k + i) + 1]
      BY <3>1
    <3>. QED  BY <3>2, <3>4, <3>5
  <2>. QED  BY <1>3, <1>4, <2>1, <2>2, SeqEqual
<1>6. c = <<x>> \o a
  <2>. DEFINE e == <<x>> \o a
  <2>1. e \in Seq(S) /\ Len(e) = k + 1 /\ e[1] = x /\ \A i \in 1 .. k : e[i + 1] = a[i]
    BY <1>1, <1>3
  <2>. HIDE DEF e
  <2>2. \A i \in 1 .. k + 1 : c[i] = e[i]
    <3>. SUFFICES ASSUME NEW i \in 1 .. k + 1 PROVE c[i] = e[i]
      OBVIOUS
    <3>1. CASE i = 1
      BY <1>1, <1>4, <2>1, <3>1
    <3>2. CASE i # 1
      <4>. DEFINE j == i - 1
      <4>1. j \in 1 .. k /\ j \in 1 .. Len(q) /\ j + 1 = i
        BY <1>1, <3>2
      <4>. HIDE DEF j
      <4>2. c[i] = w[j + 1] /\ e[i] = a[j] /\ a[j] = q[j] /\ w[j + 1] = q[j]
        BY <1>1, <1>3, <1>4, <2>1, <4>1
      <4>. QED  BY <4>2
    <3>. QED  BY <3>1, <3>2
  <2>3. c = e
    BY <1>4, <2>1, <2>2, SeqEqual
  <2>. QED  BY <2>3 DEF e
<1>. QED  BY <1>1, <1>5, <1>6 DEF w, a, b, c, d

(* Writing spelled out.                                                    *)
LEMMA WroteRecord ==
  ASSUME NEW s \in Line, NEW k, NEW full
  PROVE  Wrote(s, k, full) =
           [open |-> s.open, filter |-> s.filter, queue |-> From(s.queue, k + 1),
            bytes |-> s.bytes - Bytes(SubSeq(s.queue, 1, k)), dropped |-> s.dropped,
            writing |-> full, wrote |-> s.wrote \o SubSeq(s.queue, 1, k), base |-> s.base]
<1>. DEFINE a == SubSeq(s.queue, 1, k)
            b == From(s.queue, k + 1)
            x == s.wrote \o a
            y == s.bytes - Bytes(a)
<1>1. Wrote(s, k, full) = [s EXCEPT !.wrote = x, !.queue = b, !.bytes = y, !.writing = full]
  BY DEF Wrote
<1>. HIDE DEF a, b, x, y
<1>2. Wrote(s, k, full) = [open |-> s.open, filter |-> s.filter, queue |-> b, bytes |-> y,
        dropped |-> s.dropped, writing |-> full, wrote |-> x, base |-> s.base]
  BY <1>1 DEF Line
<1>. QED  BY <1>2 DEF a, b, x, y

(* Written, marker and rest of the queue, end to end.                      *)
LEMMA JoinThree ==
  ASSUME NEW S, NEW a \in Seq(S), NEW b \in Seq(S), NEW c \in Seq(S)
  PROVE  (a \o b) \o c = a \o (b \o c) /\ b \o c \in Seq(S)
  BY ConcatAssociative

(* The pump keeps the account: it announces what was dropped, then writes. *)
LEMMA PumpKeeps ==
  ASSUME NEW owed, NEW next, NEW greeted \in BOOLEAN, Owing(owed, next),
         NEW s, Held(s, owed, next, greeted), NEW s2 \in Pump(s)
  PROVE  s2 = Off \/ (Held(s2, owed, next, greeted) /\ GoesOn(s, s2)
                      /\ (s.writing \/ Served(s2, owed, next, greeted)))
<1>1. /\ s \in Line /\ s.open /\ s.queue \in Seq(Frame) /\ s.wrote \in Seq(Frame)
      /\ s.dropped \in Nat /\ s.writing \in BOOLEAN /\ s.bytes = Bytes(s.queue)
      /\ Account(s.wrote, s.queue, s.dropped, owed, next, greeted)
      /\ Len(s.queue) <= SubMaxItems /\ Bytes(s.queue) <= SubMaxBytes
  BY DEF Held, Line
<1>2. \A x \in Frame : x.size \in Nat
  BY FrameSizes
(* k frames of the queue are written, from a line with nothing to mark.    *)
<1>3. ASSUME NEW t, Held(t, owed, next, greeted), t.dropped = 0, NEW k \in 0 .. Len(t.queue),
             NEW full \in BOOLEAN, full \/ k = Len(t.queue)
      PROVE  Served(Wrote(t, k, full), owed, next, greeted) /\ GoesOn(t, Wrote(t, k, full))
  <2>. DEFINE u == Wrote(t, k, full)
  <2>1. t \in Line /\ t.open /\ t.bytes = Bytes(t.queue) /\ t.queue \in Seq(Frame)
    BY <1>3 DEF Held, Line
  <2>2. /\ u \in Line /\ u.open /\ u.filter = t.filter /\ u.base = t.base
        /\ u.dropped = 0 /\ u.writing = full
        /\ u.wrote = t.wrote \o SubSeq(t.queue, 1, k)
        /\ u.queue = From(t.queue, k + 1) /\ u.bytes = Bytes(u.queue)
    <3>. SUFFICES LET z == Wrote(t, k, full) IN
                  /\ z \in Line /\ z.open /\ z.filter = t.filter /\ z.base = t.base
                  /\ z.dropped = t.dropped /\ z.writing = full
                  /\ z.wrote = t.wrote \o SubSeq(t.queue, 1, k)
                  /\ z.queue = From(t.queue, k + 1) /\ z.bytes = Bytes(z.queue)
      BY <1>3
    <3>. QED  BY <1>3, <2>1, WroteIs
  <2>. HIDE DEF u
  <2>3. Account(t.wrote, t.queue, 0, owed, next, greeted)
    BY <1>3 DEF Held
  <2>4. Account(u.wrote, u.queue, u.dropped, owed, next, greeted)
    BY <1>3, <2>2, <2>3, AccountWrite
  <2>. DEFINE S == Frame
              q == t.queue
  <2>5. /\ SubSeq(q, 1, k) \in Seq(S) /\ From(q, k + 1) \in Seq(S)
        /\ Len(From(q, k + 1)) = Len(q) - k /\ Len(q) \in Nat /\ k \in Nat
    <3>1. q \in Seq(S)
      BY <2>1
    <3>. HIDE DEF S, q
    <3>2. Len(q) \in Nat /\ k \in Nat
      BY <3>1, <1>3 DEF q
    <3>3. k \in 0 .. Len(q)
      BY <1>3 DEF q
    <3>. QED  BY <3>1, <3>2, <3>3, Cut
  <2>6. Len(u.queue) <= SubMaxItems /\ u.bytes <= SubMaxBytes
    <3>1. Len(q) <= SubMaxItems /\ Bytes(q) <= SubMaxBytes
      BY <1>3 DEF Held
    <3>2. /\ Bytes(SubSeq(q, 1, k)) \in Nat /\ Bytes(From(q, k + 1)) \in Nat
          /\ Bytes(From(q, k + 1)) = Bytes(q) - Bytes(SubSeq(q, 1, k))
      <4>1. q \in Seq(S) /\ k \in 0 .. Len(q) /\ \A x \in S : x.size \in Nat
        BY <1>2, <1>3, <2>1
      <4>. HIDE DEF S, q
      <4>. QED  BY <4>1, BytesCut
    <3>3. Bytes(q) \in Nat
      <4>1. q \in Seq(S) /\ \A x \in S : x.size \in Nat
        BY <1>2, <2>1
      <4>. HIDE DEF S, q
      <4>. QED  BY <4>1, BytesLaws
    <3>4. u.queue = From(q, k + 1)
      BY <2>2
    <3>5. SubMaxItems \in Nat /\ SubMaxBytes \in Nat
      BY FrameSizes
    <3>. HIDE DEF q, S
    <3>6. Len(u.queue) = Len(q) - k
      BY <2>5, <3>4
    <3>7. Len(u.queue) <= SubMaxItems
      BY <2>5, <3>1, <3>5, <3>6
    <3>8. u.bytes = Bytes(q) - Bytes(SubSeq(q, 1, k))
      BY <2>2, <3>2, <3>4
    <3>. QED  BY <3>1, <3>2, <3>3, <3>5, <3>7, <3>8
  <2>7. u.queue # <<>> => u.writing
    <3>1. k = Len(q) => Len(u.queue) = 0
      BY <2>2, <2>5
    <3>2. Len(u.queue) = 0 => u.queue = <<>>
      <4>1. u.queue \in Seq(S)
        BY <2>2, <2>5
      <4>. HIDE DEF S
      <4>. QED  BY <4>1
    <3>. QED  BY <1>3, <2>2, <3>1, <3>2
  <2>8. GoesOn(t, u)
    BY <2>2, <2>5 DEF GoesOn
  <2>9. u.dropped = 0 /\ ~(0 > 0)
    BY <2>2
  <2>10. Served(u, owed, next, greeted)
    BY <2>2, <2>4, <2>6, <2>7, <2>9 DEF Served, Held
  <2>. QED  BY <2>8, <2>10 DEF u
<1>4. CASE s.writing
  <2>1. s2 = s
    BY <1>1, <1>4 DEF Pump
  <2>2. s.wrote = s.wrote \o <<>> /\ <<>> \in Seq(Frame)
    <3>. HIDE DEF Frame
    <3>. QED  BY <1>1
  <2>. QED  BY <1>4, <2>1, <2>2 DEF GoesOn
<1>5. CASE ~s.writing
  <2>. DEFINE m == Marked(s)
  <2>0. Len(m.queue) \in Nat /\ \A k \in 1 .. Len(m.queue) : k \in 0 .. Len(m.queue)
    <3>1. m.queue \in Seq(Frame)
      <4>1. CASE s.dropped = 0
        BY <1>1, <4>1 DEF Marked
      <4>2. CASE s.dropped > 0
        BY <1>1, <4>2, MarkedIs DEF Line
      <4>. QED  BY <1>1, <4>1, <4>2
    <3>. HIDE DEF m, Frame
    <3>. QED  BY <3>1
  <2>1. SUFFICES ASSUME NEW k \in 0 .. Len(m.queue), NEW full \in BOOLEAN,
                        full => k > 0, full \/ k = Len(m.queue), s2 = Wrote(m, k, full)
                 PROVE  Served(s2, owed, next, greeted) /\ GoesOn(s, s2)
    <3>1. \/ s2 = Off
          \/ s2 = Wrote(m, Len(m.queue), FALSE)
          \/ \E k \in 1 .. Len(m.queue) : s2 = Wrote(m, k, TRUE)
      BY <1>1, <1>5 DEF Pump
    <3>2. Len(m.queue) \in 0 .. Len(m.queue)
      BY <2>0
    <3>3. \A k \in 1 .. Len(m.queue) : k \in 0 .. Len(m.queue) /\ k > 0
      BY <2>0
    <3>. HIDE DEF m
    <3>. QED  BY <2>1, <3>1, <3>2, <3>3 DEF Served
  <2>2. CASE s.dropped = 0
    <3>1. m = s
      BY <2>2 DEF Marked
    <3>. QED  BY <1>3, <2>1, <2>2, <3>1
  <2>3. CASE s.dropped > 0
    <3>. DEFINE n     == s.dropped
                one   == <<Dropped(n)>>
                whole == one \o s.queue
                x     == s.wrote \o one
                v     == [s EXCEPT !.wrote = x, !.dropped = 0]
    <3>1. one \in Seq(Frame) /\ Dropped(n) \in Frame /\ Bytes(one) = 1
      BY <1>1, DroppedIs
    <3>2. /\ s.wrote \o one \in Seq(Frame)
          /\ Account(s.wrote \o one, s.queue, 0, owed, next, greeted)
      <4>1. Account(s.wrote \o <<Dropped(n)>>, s.queue, 0, owed, next, greeted)
        BY <1>1, <2>3, AccountMark
      <4>. HIDE DEF Frame
      <4>. QED  BY <1>1, <3>1, <4>1
    <3>3. v = [open |-> s.open, filter |-> s.filter, queue |-> s.queue, bytes |-> s.bytes,
               dropped |-> 0, writing |-> s.writing, wrote |-> x, base |-> s.base]
      <4>1. s \in Line
        BY <1>1
      <4>2. v = [s EXCEPT !.wrote = x, !.dropped = 0]
        OBVIOUS
      <4>. HIDE DEF v, x, m, whole, n, one
      <4>. QED  BY <4>1, <4>2 DEF Line
    <3>. HIDE DEF one, v, Frame
    <3>4. v \in Line /\ Held(v, owed, next, greeted)
      <4>1. v \in Line
        BY <1>1, <3>2, <3>3 DEF Line
      <4>. QED  BY <1>1, <3>2, <3>3, <4>1 DEF Held
    <3>. DEFINE q == s.queue
                j == k - 1
    <3>5. /\ m.queue = whole /\ m.bytes = s.bytes + 1 /\ Len(whole) = Len(q) + 1
          /\ Len(q) \in Nat /\ q \in Seq(Frame)
      <4>1. m.bytes = s.bytes + 1
        BY <1>1, <2>3 DEF Marked, Line
      <4>2. m.queue = whole
        BY <1>1, <2>3, MarkedIs DEF one
      <4>3. q \in Seq(Frame) /\ Len(q) \in Nat
        BY <1>1
      <4>4. Len(q) \in 0 .. Len(q)
        BY <4>3
      <4>. HIDE DEF q
      <4>5. Len(<<Dropped(n)>> \o q) = Len(q) + 1
        BY <3>1, <4>3, <4>4, CutAhead
      <4>. QED  BY <4>1, <4>2, <4>3, <4>5 DEF one, q
    <3>6. j \in 0 .. Len(q) /\ j + 1 = k /\ j + 2 = k + 1 /\ (full \/ j = Len(q))
      BY <2>1, <3>5
    <3>7. /\ SubSeq(m.queue, 1, k) = one \o SubSeq(q, 1, j)
          /\ From(m.queue, k + 1) = From(q, j + 1)
      <4>. HIDE DEF q, j, m
      <4>1. /\ SubSeq(<<Dropped(n)>> \o q, 1, j + 1) = <<Dropped(n)>> \o SubSeq(q, 1, j)
            /\ From(<<Dropped(n)>> \o q, j + 2) = From(q, j + 1)
        BY <3>1, <3>5, <3>6, CutAhead
      <4>. QED  BY <3>5, <3>6, <4>1 DEF one, q
    <3>8. Wrote(m, k, full) = Wrote(v, j, full)
      <4>. DEFINE S == Frame
                  a == SubSeq(q, 1, j)
                  b == From(q, j + 1)
                  y == Bytes(a)
                  w == s.wrote
      <4>1. /\ a \in Seq(S) /\ Bytes(a) \in Nat /\ Bytes(one \o a) = 1 + Bytes(a)
        <5>1. a \in Seq(S)
          <6>. HIDE DEF S, q, j
          <6>1. q \in Seq(S)
            BY <3>5 DEF S
          <6>. QED  BY <3>6, <6>1, Cut
        <5>. HIDE DEF a
        <5>2. one \in Seq(S) /\ \A u \in S : u.size \in Nat
          BY <1>2, <3>1
        <5>. HIDE DEF S
        <5>. QED  BY <3>1, <5>1, <5>2, BytesLaws
      <4>2. x \o a = w \o (one \o a)
        <5>1. w \in Seq(S) /\ one \in Seq(S)
          BY <1>1, <3>1
        <5>. HIDE DEF S, a, w
        <5>2. a \in Seq(S)
          BY <4>1
        <5>3. (w \o one) \o a = w \o (one \o a)
          BY <5>1, <5>2, JoinThree
        <5>. QED  BY <5>3 DEF x, w
      <4>3. m = [open |-> s.open, filter |-> s.filter, queue |-> whole, bytes |-> s.bytes + 1,
                 dropped |-> 0, writing |-> s.writing, wrote |-> s.wrote, base |-> s.base]
        <5>1. m = [s EXCEPT !.queue = whole, !.bytes = @ + 1, !.dropped = 0]
          BY <2>3, <1>1 DEF Marked, one
        <5>2. s \in Line
          BY <1>1
        <5>. HIDE DEF m, whole, n
        <5>. QED  BY <5>1, <5>2 DEF Line
      <4>4. SubSeq(m.queue, 1, k) = one \o a /\ From(m.queue, k + 1) = b
        BY <3>7
      <4>5. (s.bytes + 1) - Bytes(one \o a) = s.bytes - y
        <5>1. s.bytes \in Int
          BY <1>1 DEF Line
        <5>. HIDE DEF a, q
        <5>. QED  BY <4>1, <5>1
      <4>6. v.queue = q
        BY <3>3
      <4>. HIDE DEF a, b, m, x, q, j, whole
      <4>7. m \in Line
        BY <1>1, <2>3, MarkedIs DEF m
      <4>8. Wrote(m, k, full) = [open |-> m.open, filter |-> m.filter, queue |-> b,
              bytes |-> m.bytes - Bytes(one \o a), dropped |-> m.dropped, writing |-> full,
              wrote |-> m.wrote \o (one \o a), base |-> m.base]
        BY <4>4, <4>7, WroteRecord
      <4>9. Wrote(v, j, full) = [open |-> v.open, filter |-> v.filter, queue |-> b,
              bytes |-> v.bytes - y, dropped |-> v.dropped, writing |-> full,
              wrote |-> v.wrote \o a, base |-> v.base]
        BY <3>4, <4>6, WroteRecord DEF a, b
      <4>10. /\ m.open = v.open /\ m.filter = v.filter /\ m.dropped = v.dropped /\ m.base = v.base
             /\ m.bytes - Bytes(one \o a) = v.bytes - y
             /\ m.wrote \o (one \o a) = v.wrote \o a
        BY <3>3, <4>2, <4>3, <4>5 DEF w
      <4>. QED  BY <4>8, <4>9, <4>10
    <3>9. Served(s2, owed, next, greeted) /\ GoesOn(v, s2)
      <4>1. v.queue = q /\ v.dropped = 0
        BY <3>3
      <4>. HIDE DEF q, j
      <4>2. Served(Wrote(v, j, full), owed, next, greeted) /\ GoesOn(v, Wrote(v, j, full))
        BY <1>3, <3>4, <3>6, <4>1
      <4>. QED  BY <2>1, <3>8, <4>2
    <3>10. GoesOn(s, s2)
      <4>. DEFINE S == Frame
                  w == s.wrote
      <4>1. PICK t \in Seq(S) : s2.wrote = v.wrote \o t
        BY <3>9 DEF GoesOn
      <4>2. v.wrote = w \o one /\ v.filter = s.filter /\ v.base = s.base /\ w \in Seq(S) /\ one \in Seq(S)
        BY <1>1, <3>1, <3>3
      <4>3. s2.wrote = w \o (one \o t) /\ one \o t \in Seq(S)
        <5>. HIDE DEF S, w
        <5>1. (w \o one) \o t = w \o (one \o t) /\ one \o t \in Seq(S)
          BY <4>2, JoinThree, SMTT(30)
        <5>2. s2.wrote = v.wrote \o t /\ v.wrote = w \o one
          BY <4>1, <4>2
        <5>. QED  BY <5>1, <5>2
      <4>. QED  BY <3>9, <4>2, <4>3 DEF GoesOn
    <3>. QED  BY <3>9, <3>10
  <2>. QED  BY <1>1, <2>2, <2>3
<1>. QED  BY <1>1, <1>4, <1>5

-----------------------------------------------------------------------------
(* What dropping the oldest frames leaves.                                 *)
LEMMA DropIs ==
  ASSUME NEW s \in Line, s.open, s.bytes = Bytes(s.queue), NEW k \in 0 .. Len(s.queue)
  PROVE  LET t == DropOldest(s, k) IN
         /\ t \in Line /\ t.open /\ t.filter = s.filter /\ t.base = s.base
         /\ t.dropped = s.dropped + k /\ t.writing = s.writing /\ t.wrote = s.wrote
         /\ t.queue = From(s.queue, k + 1) /\ t.bytes = Bytes(t.queue)
         /\ Len(t.queue) = Len(s.queue) - k
<1>. DEFINE S == Frame
            a == SubSeq(s.queue, 1, k)
            b == From(s.queue, k + 1)
            y == s.bytes - Bytes(a)
            n == s.dropped + k
            t == DropOldest(s, k)
<1>1. s.queue \in Seq(S) /\ s.wrote \in Seq(S) /\ (\A x \in S : x.size \in Nat) /\ s.dropped \in Nat
  BY FrameSizes DEF Line
<1>2. /\ b \in Seq(S) /\ Bytes(a) \in Nat /\ Bytes(b) = Bytes(s.queue) - Bytes(a)
      /\ Len(b) = Len(s.queue) - k
  <2>. DEFINE q == s.queue
  <2>1. q \in Seq(S) /\ k \in 0 .. Len(q) /\ \A x \in S : x.size \in Nat
    BY <1>1
  <2>. HIDE DEF S, q
  <2>2. Parts(S, q, k, SubSeq(q, 1, k), From(q, k + 1))
    BY <2>1, CutParts
  <2>3. /\ Bytes(SubSeq(q, 1, k)) \in Nat
        /\ Bytes(From(q, k + 1)) = Bytes(q) - Bytes(SubSeq(q, 1, k))
    BY <2>1, BytesCut
  <2>. QED  BY <2>2, <2>3 DEF Parts, q
<1>3. t = [s EXCEPT !.queue = b, !.bytes = y, !.dropped = n]
  BY DEF DropOldest
<1>4. k \in Nat /\ n \in Nat /\ y \in Int
  <2>1. k \in Nat /\ s.bytes \in Int
    BY DEF Line
  <2>. HIDE DEF a
  <2>. QED  BY <1>1, <1>2, <2>1
<1>5. y = Bytes(b)
  BY <1>2
<1>. HIDE DEF S, a, b, y, n, t
<1>6. t = [open |-> s.open, filter |-> s.filter, queue |-> b, bytes |-> y,
           dropped |-> n, writing |-> s.writing, wrote |-> s.wrote, base |-> s.base]
  BY <1>3 DEF Line
<1>7. t \in Line
  BY <1>2, <1>4, <1>6 DEF Line, S
<1>8. t.bytes = Bytes(b)
  BY <1>5, <1>6
<1>. QED  BY <1>2, <1>6, <1>7, <1>8 DEF b, n, t

(* What the call queues, before anything is dropped.                       *)
Joined(s, f) == [s EXCEPT !.queue = Append(@, f), !.bytes = @ + f.size]

(* It is the same connection, with one frame more.                         *)
LEMMA JoinedIs ==
  ASSUME NEW s \in Line, s.open, s.bytes = Bytes(s.queue), NEW f \in Frame
  PROVE  LET t == Joined(s, f) IN
         /\ t \in Line /\ t.open /\ t.filter = s.filter /\ t.base = s.base
         /\ t.dropped = s.dropped /\ t.writing = s.writing /\ t.wrote = s.wrote
         /\ t.queue = Append(s.queue, f) /\ t.bytes = Bytes(t.queue)
         /\ Len(t.queue) = Len(s.queue) + 1
<1>. DEFINE S == Frame
            b == Append(s.queue, f)
            y == s.bytes + f.size
            t == Joined(s, f)
<1>1. s.queue \in Seq(S) /\ s.wrote \in Seq(S) /\ \A x \in S : x.size \in Nat
  BY FrameSizes DEF Line
<1>2. b \in Seq(S) /\ Bytes(b) = Bytes(s.queue) + f.size /\ Len(b) = Len(s.queue) + 1
  <2>1. f \in S
    OBVIOUS
  <2>. HIDE DEF S
  <2>. QED  BY <1>1, <2>1, BytesLaws
<1>3. t = [s EXCEPT !.queue = b, !.bytes = y]
  BY DEF Joined
<1>4. y \in Int /\ y = Bytes(b)
  BY <1>1, <1>2 DEF Line
<1>. HIDE DEF S, b, y, t
<1>6. t = [open |-> s.open, filter |-> s.filter, queue |-> b, bytes |-> y,
           dropped |-> s.dropped, writing |-> s.writing, wrote |-> s.wrote, base |-> s.base]
  BY <1>3 DEF Line
<1>7. t \in Line
  BY <1>2, <1>4, <1>6 DEF Line, S
<1>8. t.bytes = Bytes(b)
  BY <1>4, <1>6
<1>. QED  BY <1>2, <1>6, <1>7, <1>8 DEF b, t

(* How many are dropped: the fewest that bring the queue in its bounds.    *)
Drops(t) ==
  CHOOSE d \in 0 .. Len(t.queue) :
    ~Overflow(DropOldest(t, d)) /\ \A e \in 0 .. d - 1 : Overflow(DropOldest(t, e))

(* Dropping all of the queue helps, so some least number does.             *)
LEMMA DropsIs ==
  ASSUME NEW t \in Line, t.open, t.bytes = Bytes(t.queue)
  PROVE  /\ Drops(t) \in 0 .. Len(t.queue) /\ ~Overflow(DropOldest(t, Drops(t)))
         /\ ~Overflow(DropOldest(t, 0)) => Drops(t) = 0
<1>. DEFINE n == Len(t.queue)
            D == {d \in 0 .. n : ~Overflow(DropOldest(t, d))}
<1>1. n \in Nat
  <2>1. t.queue \in Seq(Frame)
    BY DEF Line
  <2>. HIDE DEF Frame
  <2>. QED  BY <2>1
<1>2. n \in D
  <2>. DEFINE u == DropOldest(t, n)
  <2>1. n \in 0 .. n
    BY <1>1
  <2>2. u \in Line /\ Len(u.queue) = n - n /\ u.bytes = Bytes(u.queue)
    BY <2>1, DropIs
  <2>. HIDE DEF u
  <2>3. u.queue = <<>>
    <3>1. u.queue \in Seq(Frame) /\ Len(u.queue) = 0
      BY <1>1, <2>2 DEF Line
    <3>. HIDE DEF Frame
    <3>. QED  BY <3>1
  <2>4. Bytes(<<>>) = 0
    BY BytesIs, ByteSum!ValueEmpty
  <2>5. Len(u.queue) = 0 /\ u.bytes = 0
    BY <1>1, <2>2, <2>3, <2>4
  <2>6. ~Overflow(u)
    BY <2>5, FrameSizes DEF Overflow
  <2>. QED  BY <2>1, <2>6 DEF u
<1>. HIDE DEF D
<1>3. D \subseteq Nat /\ D # {}
  BY <1>1, <1>2 DEF D
<1>4. PICK d \in D : \A y \in D : d <= y
  BY <1>3, ByteSum!LeastNumber
<1>5. d \in 0 .. n /\ ~Overflow(DropOldest(t, d))
  BY DEF D
<1>6. \A e \in 0 .. d - 1 : Overflow(DropOldest(t, e))
  <2>. SUFFICES ASSUME NEW e \in 0 .. d - 1, ~Overflow(DropOldest(t, e)) PROVE FALSE
    OBVIOUS
  <2>1. e \in 0 .. n /\ ~(d <= e)
    BY <1>1, <1>5
  <2>. QED  BY <1>4, <2>1 DEF D
<1>7. /\ Drops(t) \in 0 .. n /\ ~Overflow(DropOldest(t, Drops(t)))
      /\ \A e \in 0 .. Drops(t) - 1 : Overflow(DropOldest(t, e))
  <2>. HIDE DEF n
  <2>1. \E x \in 0 .. n : ~Overflow(DropOldest(t, x)) /\ \A e \in 0 .. x - 1 : Overflow(DropOldest(t, e))
    BY <1>5, <1>6
  <2>2. Drops(t) = CHOOSE x \in 0 .. n :
          ~Overflow(DropOldest(t, x)) /\ \A e \in 0 .. x - 1 : Overflow(DropOldest(t, e))
    BY DEF Drops, n
  <2>. QED  BY <2>1, <2>2
<1>8. ~Overflow(DropOldest(t, 0)) => Drops(t) = 0
  <2>. SUFFICES ASSUME ~Overflow(DropOldest(t, 0)), Drops(t) # 0 PROVE FALSE
    OBVIOUS
  <2>1. 0 \in 0 .. Drops(t) - 1
    BY <1>1, <1>7
  <2>. QED  BY <1>7, <2>1
<1>. QED  BY <1>7, <1>8

(* The call in these terms.                                                *)
LEMMA EnqueueIs ==
  ASSUME NEW s, s.open, NEW f
  PROVE  Enqueue(s, f) = Pump(DropOldest(Joined(s, f), Drops(Joined(s, f))))
  BY DEF Enqueue, Joined, Drops

(* A frame that the account has room for is queued: the oldest make way.   *)
LEMMA EnqueueKeeps ==
  ASSUME NEW owed, NEW next, NEW greeted \in BOOLEAN, Owing(owed, next),
         NEW s \in Line, s.open, s.bytes = Bytes(s.queue), NEW f \in Frame,
         Account(s.wrote, Append(s.queue, f), s.dropped, owed, next, greeted),
         NEW s2 \in Enqueue(s, f)
  PROVE  s2 = Off \/ (Served(s2, owed, next, greeted) /\ GoesOn(s, s2))
<1>. DEFINE t == Joined(s, f)
            d == Drops(t)
            u == DropOldest(t, d)
<1>1. /\ t \in Line /\ t.open /\ t.filter = s.filter /\ t.base = s.base
      /\ t.dropped = s.dropped /\ t.writing = s.writing /\ t.wrote = s.wrote
      /\ t.queue = Append(s.queue, f) /\ t.bytes = Bytes(t.queue)
      /\ Len(t.queue) = Len(s.queue) + 1
  BY JoinedIs
<1>2. s2 \in Pump(u)
  BY EnqueueIs
<1>. HIDE DEF t
<1>3. d \in 0 .. Len(t.queue) /\ ~Overflow(u)
  BY <1>1, DropsIs
<1>. HIDE DEF d
<1>4. /\ u \in Line /\ u.open /\ u.filter = t.filter /\ u.base = t.base
      /\ u.dropped = t.dropped + d /\ u.writing = t.writing /\ u.wrote = t.wrote
      /\ u.queue = From(t.queue, d + 1) /\ u.bytes = Bytes(u.queue)
      /\ Len(u.queue) = Len(t.queue) - d
  BY <1>1, <1>3, DropIs
<1>. HIDE DEF u
<1>5. Account(u.wrote, u.queue, u.dropped, owed, next, greeted)
  <2>1. Account(t.wrote, t.queue, t.dropped, owed, next, greeted)
    BY <1>1
  <2>. QED  BY <1>3, <1>4, <2>1, AccountDrop
<1>6. Len(u.queue) <= SubMaxItems /\ u.bytes <= SubMaxBytes
  <2>1. Len(u.queue) \in Nat /\ u.bytes \in Int
    <3>1. u.queue \in Seq(Frame) /\ u.bytes \in Int
      BY <1>4 DEF Line
    <3>. HIDE DEF Frame
    <3>. QED  BY <3>1
  <2>. QED  BY <1>3, <2>1, FrameSizes DEF Overflow
<1>7. Held(u, owed, next, greeted)
  BY <1>4, <1>5, <1>6 DEF Held
<1>8. s2 = Off \/ (Held(s2, owed, next, greeted) /\ GoesOn(u, s2)
                   /\ (u.writing \/ Served(s2, owed, next, greeted)))
  BY <1>2, <1>7, PumpKeeps
<1>9. GoesOn(u, s2) => GoesOn(s, s2)
  BY <1>1, <1>4 DEF GoesOn
<1>10. CASE u.writing
  <2>1. s2 = u
    BY <1>2, <1>10 DEF Pump
  <2>2. u.queue # <<>> \/ u.dropped > 0 => u.writing
    BY <1>10
  <2>3. s2 = Off \/ GoesOn(s, s2)
    BY <1>8, <1>9
  <2>. QED  BY <1>7, <2>1, <2>2, <2>3 DEF Served
<1>. QED  BY <1>8, <1>9, <1>10

(* What one event does to a subscriber that was served all before it.      *)
LEMMA HeardKeeps ==
  ASSUME NEW log, NEW next, Log(log, next), NEW greeted \in BOOLEAN,
         NEW s, Served(s, Owed(s.filter, s.base, log), next, greeted),
         NEW e \in Event, e.seq = next, e.seq > s.base, NEW s2 \in Heard(s, e)
  PROVE  s2 = Off \/ (/\ Served(s2, Owed(s.filter, s.base, Append(log, e)), next + 1, greeted)
                      /\ GoesOn(s, s2))
<1>. DEFINE owed == Owed(s.filter, s.base, log)
            more == Owed(s.filter, s.base, Append(log, e))
<1>1. /\ IsFiniteSet(owed) /\ owed \in SUBSET Nat /\ \A q \in owed : q < next
      /\ Log(Append(log, e), next + 1)
      /\ more = owed \cup IF Asked(s.filter, s.base, e) THEN {e.seq} ELSE {}
  BY OwedIs, OwedMore
<1>2. next \in Nat
  BY DEF Log
<1>3. Asked(s.filter, s.base, e) <=> Matches(s, e)
  BY DEF Asked, Matches
<1>4. IsFiniteSet(more) /\ more \in SUBSET Nat /\ \A q \in more : q < next + 1
  BY <1>1, OwedIs
<1>5. /\ s \in Line /\ s.open /\ s.bytes = Bytes(s.queue)
      /\ Account(s.wrote, s.queue, s.dropped, owed, next, greeted)
  BY DEF Served, Held
<1>. HIDE DEF owed, more
<1>6. CASE Matches(s, e)
  <2>. DEFINE f == Data(e)
  <2>1. f \in Frame /\ f.type = "data" /\ f.seq = next
    BY DEF Data, Frame, Event
  <2>2. s2 \in Enqueue(s, f)
    BY <1>6 DEF Heard
  <2>3. more = owed \cup {next}
    BY <1>1, <1>3, <1>6
  <2>. HIDE DEF f
  <2>4. Account(s.wrote, Append(s.queue, f), s.dropped, more, next + 1, greeted)
    <3>1. Owing(owed, next)
      BY <1>1, <1>2 DEF Owing
    <3>. QED  BY <1>5, <2>1, <2>3, <3>1, AccountData
  <2>5. Owing(more, next + 1)
    BY <1>2, <1>4 DEF Owing
  <2>6. s2 = Off \/ (Served(s2, more, next + 1, greeted) /\ GoesOn(s, s2))
    BY <1>5, <2>1, <2>2, <2>4, <2>5, EnqueueKeeps
  <2>. QED  BY <2>6 DEF more
<1>7. CASE ~Matches(s, e)
  <2>1. s2 = s /\ more = owed
    BY <1>1, <1>3, <1>7 DEF Heard
  <2>2. Account(s.wrote, s.queue, s.dropped, owed, next + 1, greeted)
    BY <1>2, <1>5, AccountOther
  <2>3. Served(s, owed, next + 1, greeted)
    BY <2>2 DEF Served, Held, owed
  <2>4. GoesOn(s, s)
    <3>1. s.wrote \in Seq(Frame)
      BY <1>5 DEF Line
    <3>2. s.wrote = s.wrote \o <<>> /\ <<>> \in Seq(Frame)
      <4>. HIDE DEF Frame
      <4>. QED  BY <3>1
    <3>. QED  BY <3>2 DEF GoesOn
  <2>. QED  BY <2>1, <2>3, <2>4 DEF more
<1>. QED  BY <1>6, <1>7

-----------------------------------------------------------------------------
(***************************************************************************)
(* A connection that begins: _gap if some of what it asks for is gone, the *)
(* replay of the ring, and the greeting.                                   *)
(***************************************************************************)
Fresh(filter, base) == [Off EXCEPT !.open = TRUE, !.filter = filter, !.base = base]

(* The empty sequence has no seqs, no bytes and no count.                  *)
LEMMA EmptyIs ==
  LET e == <<>> IN
  /\ e \in Seq(Frame) /\ Len(e) = 0 /\ Bytes(e) = 0 /\ CountOf(e) = 0 /\ Seqs(e) = {}
  /\ Rising(e) /\ OneReady(e) /\ Plain(e) /\ Covered(e) = {} /\ \A t : ~Holds(e, t)
<1>. DEFINE e == <<>>
<1>1. e \in Seq(Frame) /\ Len(e) = 0 /\ DOMAIN e = {}
  <2>. HIDE DEF Frame
  <2>. QED  OBVIOUS
<1>2. Bytes(e) = 0 /\ CountOf(e) = 0
  BY BytesIs, CountIs, ByteSum!ValueEmpty, CountSum!ValueEmpty
<1>. HIDE DEF e
<1>3. Seqs(e) = {} /\ Covered(e) = {}
  BY <1>1 DEF Seqs, Covered
<1>4. Rising(e) /\ OneReady(e) /\ Plain(e) /\ \A t : ~Holds(e, t)
  BY <1>1 DEF Rising, OneReady, Plain, Holds
<1>. QED  BY <1>1, <1>2, <1>3, <1>4 DEF e

(* It has sent and queued nothing.                                         *)
Begun(s, filter, base, none) ==
  /\ s \in Line /\ s.open /\ s.filter = filter /\ s.base = base /\ s.queue = none
  /\ s.bytes = 0 /\ s.dropped = 0 /\ s.writing = FALSE /\ s.wrote = none
  /\ s.bytes = Bytes(s.queue)

LEMMA FreshIs ==
  ASSUME NEW filter \in Kinds \cup {All}, NEW base \in Nat
  PROVE  Begun(Fresh(filter, base), filter, base, <<>>)
<1>1. Fresh(filter, base) =
        [open |-> TRUE, filter |-> filter, queue |-> <<>>, bytes |-> 0, dropped |-> 0,
         writing |-> FALSE, wrote |-> <<>>, base |-> base]
  <2>. DEFINE e == <<>>
              o == [open |-> FALSE, filter |-> All, queue |-> e, bytes |-> 0, dropped |-> 0,
                    writing |-> FALSE, wrote |-> e, base |-> 0]
  <2>1. Fresh(filter, base) = [o EXCEPT !.open = TRUE, !.filter = filter, !.base = base]
    BY DEF Fresh, Off
  <2>. HIDE DEF e
  <2>2. Fresh(filter, base) =
          [open |-> TRUE, filter |-> filter, queue |-> e, bytes |-> 0, dropped |-> 0,
           writing |-> FALSE, wrote |-> e, base |-> base]
    BY <2>1
  <2>. QED  BY <2>2 DEF e
<1>2. Fresh(filter, base) \in Line
  BY <1>1, EmptyIs DEF Line
<1>. DEFINE s == Fresh(filter, base)
            e == <<>>
<1>3. s = [open |-> TRUE, filter |-> filter, queue |-> e, bytes |-> 0, dropped |-> 0,
           writing |-> FALSE, wrote |-> e, base |-> base]
  BY <1>1
<1>4. s \in Line /\ Bytes(e) = 0
  BY <1>2, EmptyIs
<1>. HIDE DEF s, e
<1>5. /\ s.open /\ s.filter = filter /\ s.base = base /\ s.queue = e
      /\ s.bytes = 0 /\ s.dropped = 0 /\ s.writing = FALSE /\ s.wrote = e
  BY <1>3
<1>6. s.bytes = Bytes(s.queue)
  BY <1>4, <1>5
<1>7. Begun(s, filter, base, e)
  BY <1>4, <1>5, <1>6 DEF Begun
<1>. QED  BY <1>7 DEF s, e

(* Nothing sent, of nothing owed.                                          *)
LEMMA NothingTallied ==
  ASSUME NEW w, NEW queue, NEW owed, NEW greeted, CountOf(w) = 0, Seqs(w) \cup Seqs(queue) = {},
         owed \ Covered(w) = {}, One(IsReady(w, queue)) = 0, One(greeted) = 0
  PROVE  Tally(w, queue, 0, owed, greeted)
<1>. DEFINE a == Cardinality(Seqs(w) \cup Seqs(queue))
            b == Cardinality(owed \ Covered(w))
            c == CountOf(w)
            r == One(IsReady(w, queue))
            g == One(greeted)
<1>1. a = 0 /\ b = 0
  BY FS_EmptySet
<1>2. c = 0 /\ r = 0 /\ g = 0
  OBVIOUS
<1>. HIDE DEF a, b, c, r, g
<1>3. c + 0 + a + r = b + g
  BY <1>1, <1>2
<1>. QED  BY <1>3 DEF Tally, a, b, c, r, g

(* A new connection that is owed nothing yet.                              *)
LEMMA FreshServed ==
  ASSUME NEW filter \in Kinds \cup {All}, NEW base \in Nat, NEW next \in Nat
  PROVE  Served(Fresh(filter, base), {}, next, FALSE)
<1>. DEFINE s == Fresh(filter, base)
            e == <<>>
<1>1. /\ s \in Line /\ s.open /\ s.queue = e /\ s.wrote = e /\ s.dropped = 0 /\ s.bytes = 0
      /\ s.bytes = Bytes(s.queue)
  <2>1. Begun(s, filter, base, e)
    BY FreshIs
  <2>. HIDE DEF s, e
  <2>. QED  BY <2>1 DEF Begun
<1>2. /\ e \in Seq(Frame) /\ Len(e) = 0 /\ CountOf(e) = 0 /\ Seqs(e) = {} /\ DOMAIN e = {}
      /\ Rising(e) /\ OneReady(e) /\ Plain(e) /\ Covered(e) = {} /\ \A t : ~Holds(e, t)
  BY EmptyIs
<1>. HIDE DEF e, s
<1>3. InOrder(e, e) /\ ~IsReady(e, e) /\ GapsFirst(e, e, next)
  BY <1>2 DEF InOrder, IsReady, GapsFirst, Apart
<1>4. Tally(e, e, 0, {}, FALSE)
  <2>1. Seqs(e) \cup Seqs(e) = {} /\ {} \ Covered(e) = {}
    BY <1>2
  <2>2. One(IsReady(e, e)) = 0 /\ One(FALSE) = 0
    BY <1>3 DEF One
  <2>. QED  BY <1>2, <2>1, <2>2, NothingTallied
<1>5. Account(e, e, 0, {}, next, FALSE)
  BY <1>2, <1>3, <1>4 DEF Account
<1>6. Len(e) <= SubMaxItems /\ 0 <= SubMaxBytes
  BY <1>2, FrameSizes
<1>7. Held(s, {}, next, FALSE)
  BY <1>1, <1>5, <1>6 DEF Held
<1>8. s.queue = <<>> /\ ~(s.dropped > 0)
  BY <1>1 DEF e
<1>. QED  BY <1>7, <1>8 DEF Served, s

Above(owed, from) == \A q \in owed : from < q
Asks(s, filter, base) == s.filter = filter /\ s.base = base

(* The _gap is the first thing written, and covers all that is gone.       *)
LEMMA GapAccount ==
  ASSUME NEW owed, NEW from \in Nat, NEW oldest \in Nat, Owing(owed, oldest), Above(owed, from)
  PROVE  /\ Gap(from, oldest) \in Frame
         /\ Account(<<Gap(from, oldest)>>, <<>>, 0, owed, oldest, FALSE)
<1>. DEFINE g == Gap(from, oldest)
            w == <<g>>
            e == <<>>
<1>1. g \in Frame /\ g.type = "_gap" /\ g.seq = oldest /\ g.n = from
  BY DEF Gap, Frame
<1>2. w[1] = g /\ DOMAIN w = {1} /\ w = Append(e, g)
  OBVIOUS
<1>3. /\ e \in Seq(Frame) /\ Len(e) = 0 /\ CountOf(e) = 0 /\ Seqs(e) = {}
      /\ Rising(e) /\ OneReady(e) /\ Plain(e) /\ \A t : ~Holds(e, t)
  BY EmptyIs
<1>. HIDE DEF g
<1>4. /\ w \in Seq(Frame) /\ Rising(w) /\ OneReady(w)
      /\ Seqs(w) = IF g.type = "data" THEN {g.seq} ELSE {}
      /\ \A t : Holds(w, t) <=> g.type = t
  BY <1>1, OneFrame
<1>5. CountOf(w) = 0
  <2>. HIDE DEF w, e
  <2>1. CountOf(Append(e, g)) = CountOf(e) + IF g.type = "_dropped" THEN g.n ELSE 0
    BY <1>1, <1>3, CountLaws
  <2>. QED  BY <1>1, <1>2, <1>3, <2>1
<1>. HIDE DEF w, e
<1>6. Seqs(w) = {} /\ ~Holds(w, "_ready")
  BY <1>1, <1>4
<1>7. InOrder(w, e) /\ ~IsReady(w, e)
  BY <1>3, <1>4, <1>6 DEF InOrder, IsReady, Apart
<1>8. GapsFirst(w, e, oldest)
  BY <1>1, <1>2, <1>3, <1>6 DEF GapsFirst
<1>9. owed \subseteq Covered(w)
  <2>. SUFFICES ASSUME NEW q \in owed PROVE q \in Nat /\ w[1].n < q /\ q < w[1].seq
    BY <1>1, <1>2 DEF Covered
  <2>. QED  BY <1>1, <1>2 DEF Owing, Above
<1>10. Tally(w, e, 0, owed, FALSE)
  <2>1. Seqs(w) \cup Seqs(e) = {} /\ owed \ Covered(w) = {}
    BY <1>3, <1>6, <1>9
  <2>2. One(IsReady(w, e)) = 0 /\ One(FALSE) = 0
    BY <1>7 DEF One
  <2>. QED  BY <1>5, <2>1, <2>2, NothingTallied
<1>11. \A q \in owed : Noticed(w, e, 0, q)
  BY <1>9 DEF Noticed
<1>12. Account(w, e, 0, owed, oldest, FALSE)
  BY <1>3, <1>4, <1>6, <1>7, <1>8, <1>10, <1>11 DEF Account
<1>. QED  BY <1>1, <1>12 DEF w, e, g

(* The pump of a new connection writes the _gap, or closes it.             *)
LEMMA GapServed ==
  ASSUME NEW filter \in Kinds \cup {All}, NEW base \in Nat,
         NEW owed, NEW from \in Nat, NEW oldest \in Nat, Owing(owed, oldest),
         Above(owed, from), NEW s2 \in Enqueue(Fresh(filter, base), Gap(from, oldest))
  PROVE  s2 = Off \/ (Served(s2, owed, oldest, FALSE) /\ Asks(s2, filter, base))
<1>. DEFINE s == Fresh(filter, base)
            g == Gap(from, oldest)
            w == <<g>>
            t == Joined(s, g)
            u == DropOldest(t, 0)
<1>1. g \in Frame /\ g.size = 1 /\ Account(w, <<>>, 0, owed, oldest, FALSE)
  BY GapAccount DEF Gap
<1>2. /\ s \in Line /\ s.open /\ s.filter = filter /\ s.base = base /\ s.queue = <<>>
      /\ s.bytes = 0 /\ s.dropped = 0 /\ s.writing = FALSE /\ s.wrote = <<>>
      /\ s.bytes = Bytes(s.queue)
  BY FreshIs DEF Begun
<1>. HIDE DEF s, g
<1>3. /\ t \in Line /\ t.open /\ t.filter = filter /\ t.base = base
      /\ t.dropped = 0 /\ t.writing = FALSE /\ t.wrote = <<>>
      /\ t.queue = Append(s.queue, g) /\ t.bytes = Bytes(t.queue)
  BY <1>1, <1>2, JoinedIs
<1>4. t.bytes = 1
  BY <1>1, <1>2 DEF Joined, Line
<1>5. t.queue = w /\ Len(w) = 1 /\ SubSeq(w, 1, 1) = w /\ From(w, 0 + 1) = w /\ From(w, 1 + 1) = <<>>
  <2>1. t.queue = w
    BY <1>2, <1>3
  <2>. DEFINE S == Frame
  <2>2. w \in Seq(S) /\ Len(w) = 1 /\ <<>> \in Seq(S)
    <3>1. g \in S
      BY <1>1
    <3>. HIDE DEF S
    <3>. QED  BY <3>1
  <2>. HIDE DEF w, S
  <2>3. SubSeq(w, 1, 1) = w /\ From(w, 0 + 1) = w
    BY <2>2, SubSeqFull DEF From
  <2>4. From(w, 1 + 1) = <<>>
    <3>1. 1 \in 0 .. Len(w)
      BY <2>2
    <3>2. Parts(S, w, 1, SubSeq(w, 1, 1), From(w, 1 + 1))
      BY <2>2, <3>1, CutParts
    <3>. DEFINE b == From(w, 1 + 1)
    <3>. HIDE DEF b
    <3>3. b \in Seq(S) /\ Len(b) = 0
      BY <2>2, <3>2 DEF Parts, b
    <3>4. b = <<>>
      BY <3>3
    <3>. QED  BY <3>4 DEF b
  <2>. QED  BY <2>1, <2>2, <2>3, <2>4
<1>. HIDE DEF t, w
<1>6. /\ u \in Line /\ u.open /\ u.filter = filter /\ u.base = base
      /\ u.dropped = 0 /\ u.writing = FALSE /\ u.wrote = <<>>
      /\ u.queue = w /\ u.bytes = Bytes(u.queue)
  <2>1. 0 \in 0 .. Len(t.queue)
    BY <1>5
  <2>. QED  BY <1>3, <1>5, <2>1, DropIs
<1>. HIDE DEF u
<1>7. ~Overflow(u)
  <2>1. u.bytes = 1 /\ Len(u.queue) = 1
    <3>1. u.bytes = Bytes(w) /\ t.bytes = Bytes(w)
      BY <1>3, <1>5, <1>6
    <3>2. Len(u.queue) = Len(w) /\ Len(w) = 1
      BY <1>5, <1>6
    <3>. QED  BY <1>4, <3>1, <3>2
  <2>. QED  BY <2>1, FrameSizes DEF Overflow
<1>8. s2 \in Pump(u)
  <2>1. Drops(t) = 0
    BY <1>3, <1>7, DropsIs DEF u
  <2>2. Enqueue(s, g) = Pump(DropOldest(t, Drops(t)))
    BY <1>2, EnqueueIs DEF t
  <2>. QED  BY <2>1, <2>2 DEF s, g, u
<1>9. s2 = Off \/ \E full \in BOOLEAN : s2 = Wrote(u, 1, full)
  <2>1. Marked(u) = u
    BY <1>6 DEF Marked
  <2>2. Len(u.queue) = 1 /\ 1 .. Len(u.queue) = {1}
    <3>1. Len(u.queue) = Len(w) /\ Len(w) = 1
      BY <1>5, <1>6
    <3>. QED  BY <3>1
  <2>. QED  BY <1>6, <1>8, <2>1, <2>2 DEF Pump
<1>. SUFFICES ASSUME NEW full \in BOOLEAN, s2 = Wrote(u, 1, full)
              PROVE  Served(s2, owed, oldest, FALSE) /\ Asks(s2, filter, base)
  BY <1>9
<1>10. /\ s2 \in Line /\ s2.open /\ s2.filter = filter /\ s2.base = base
       /\ s2.dropped = 0 /\ s2.writing = full
       /\ s2.wrote = <<>> \o SubSeq(w, 1, 1)
       /\ s2.queue = From(w, 1 + 1) /\ s2.bytes = Bytes(s2.queue)
  <2>1. 1 \in 0 .. Len(u.queue)
    <3>1. Len(u.queue) = Len(w) /\ Len(w) = 1
      BY <1>5, <1>6
    <3>. QED  BY <3>1
  <2>2. u \in Line /\ u.open /\ u.bytes = Bytes(u.queue)
    BY <1>6
  <2>3. LET r == Wrote(u, 1, full) IN
        /\ r \in Line /\ r.open /\ r.filter = u.filter /\ r.base = u.base
        /\ r.dropped = u.dropped /\ r.writing = full
        /\ r.wrote = u.wrote \o SubSeq(u.queue, 1, 1)
        /\ r.queue = From(u.queue, 1 + 1) /\ r.bytes = Bytes(r.queue)
    BY <2>1, <2>2, WroteIs
  <2>. QED  BY <1>6, <2>3
<1>11. s2.wrote = w /\ s2.queue = <<>>
  <2>1. <<>> \o w = w
    BY DEF w
  <2>. QED  BY <1>5, <1>10, <2>1
<1>12. Len(s2.queue) = 0 /\ s2.bytes = 0
  BY <1>10, <1>11, EmptyIs
<1>13. Held(s2, owed, oldest, FALSE)
  <2>1. 0 <= SubMaxItems /\ 0 <= SubMaxBytes
    BY FrameSizes
  <2>2. Account(s2.wrote, s2.queue, s2.dropped, owed, oldest, FALSE)
    BY <1>1, <1>10, <1>11
  <2>. QED  BY <1>10, <1>12, <2>1, <2>2 DEF Held
<1>14. ~(s2.dropped > 0)
  BY <1>10
<1>. QED  BY <1>10, <1>11, <1>13, <1>14 DEF Served, Asks

-----------------------------------------------------------------------------
(* A log without holes, that ends with the seq last.                       *)
Contiguous(log, last) ==
  /\ log \in Seq(Event) /\ last \in Nat /\ Len(log) <= last
  /\ \A i \in DOMAIN log : log[i].seq = last - Len(log) + i

(* The seq that follows its first m events.                                *)
After(log, last, m) == last - Len(log) + m + 1

(* The first events of a log are one, and go on with the next.             *)
LEMMA LogPrefix ==
  ASSUME NEW log, NEW last, Contiguous(log, last), NEW m \in 0 .. Len(log)
  PROVE  /\ Log(SubSeq(log, 1, m), After(log, last, m)) /\ After(log, last, m) \in Nat
         /\ m < Len(log) => /\ m + 1 \in DOMAIN log /\ log[m + 1] \in Event
                            /\ SubSeq(log, 1, m + 1) = Append(SubSeq(log, 1, m), log[m + 1])
                            /\ log[m + 1].seq = After(log, last, m)
                            /\ After(log, last, m + 1) = After(log, last, m) + 1
<1>. DEFINE S == Event
            a == SubSeq(log, 1, m)
            n == After(log, last, m)
<1>1. /\ log \in Seq(S) /\ last \in Nat /\ Len(log) <= last /\ m \in Nat /\ m <= Len(log)
      /\ Len(log) \in Nat /\ DOMAIN log = 1 .. Len(log)
      /\ \A i \in DOMAIN log : log[i].seq = last - Len(log) + i
  <2>1. log \in Seq(S)
    BY DEF Contiguous
  <2>. HIDE DEF S
  <2>2. Len(log) \in Nat /\ DOMAIN log = 1 .. Len(log)
    BY <2>1
  <2>. QED  BY <2>1, <2>2 DEF Contiguous
<1>2. a \in Seq(S) /\ Len(a) = m /\ \A i \in 1 .. m : a[i] = log[i]
  <2>. HIDE DEF S
  <2>. QED  BY <1>1, Cut
<1>3. DOMAIN a = 1 .. m
  <2>. HIDE DEF S, a
  <2>. QED  BY <1>2
<1>4. n \in Nat
  BY <1>1 DEF After
<1>5. Log(a, n)
  <2>. SUFFICES ASSUME NEW i \in 1 .. m PROVE a[i].seq \in Nat /\ a[i].seq < n
    BY <1>2, <1>3, <1>4 DEF Log
  <2>. HIDE DEF S, a, n
  <2>. DEFINE c == Len(log)
  <2>1. a[i].seq = last - c + i
    BY <1>1, <1>2
  <2>2. last \in Nat /\ c \in Nat /\ c <= last /\ m \in Nat /\ n = last - c + m + 1
    BY <1>1 DEF n, After
  <2>3. i \in Nat /\ i <= m
    BY <2>2
  <2>. HIDE DEF c
  <2>. QED  BY <2>1, <2>2, <2>3
<1>6. ASSUME m < Len(log)
      PROVE  /\ m + 1 \in DOMAIN log /\ log[m + 1] \in S
             /\ SubSeq(log, 1, m + 1) = Append(a, log[m + 1])
             /\ log[m + 1].seq = n /\ After(log, last, m + 1) = n + 1
  <2>1. m + 1 \in DOMAIN log
    BY <1>1, <1>6
  <2>2. log[m + 1].seq = n /\ After(log, last, m + 1) = n + 1
    <3>. DEFINE c == Len(log)
    <3>1. log[m + 1].seq = last - c + (m + 1)
      BY <1>1, <2>1
    <3>2. n = last - c + m + 1 /\ After(log, last, m + 1) = last - c + (m + 1) + 1
      BY DEF After
    <3>3. last \in Nat /\ c \in Nat /\ m \in Nat
      BY <1>1
    <3>. HIDE DEF c, n
    <3>. QED  BY <3>1, <3>2, <3>3
  <2>3. log[m + 1] \in S /\ SubSeq(log, 1, m + 1) = Append(a, log[m + 1])
    <3>. HIDE DEF S
    <3>. QED  BY <1>1, <1>6
  <2>. QED  BY <2>1, <2>2, <2>3
<1>. QED  BY <1>4, <1>5, <1>6 DEF a, n, S

(* One event replayed, or left out as before the cursor.                   *)
LEMMA ReplayIs ==
  ASSUME NEW r, NEW s
  PROVE  FoldLeft(Replay, r, s) = Resume!Value(r, s)
  BY Resume!ValueUnfolded DEF Resume!Unfolded, FoldLeft, MapThenFoldSet, Max

(* What a connection that asks for the events of a log above base is, once *)
(* it has been served the first m of them.                                 *)
Upto(log, last, filter, base, m, s) ==
  s = Off \/ (/\ Served(s, Owed(filter, base, SubSeq(log, 1, m)), After(log, last, m), FALSE)
              /\ s.filter = filter /\ s.base = base)

(* One event that follows the cursor, or does not.                         *)
LEMMA HeardUpto ==
  ASSUME NEW log, NEW last, Contiguous(log, last), NEW m \in 0 .. Len(log), m < Len(log),
         NEW filter, NEW base \in Nat, NEW s, Upto(log, last, filter, base, m, s)
  PROVE  /\ log[m + 1].seq > base =>
              \A s2 \in Heard(s, log[m + 1]) : Upto(log, last, filter, base, m + 1, s2)
         /\ log[m + 1].seq <= base => Upto(log, last, filter, base, m + 1, s)
<1>. DEFINE e    == log[m + 1]
            a    == SubSeq(log, 1, m)
            next == After(log, last, m)
<1>1. /\ Log(a, next) /\ next \in Nat /\ e \in Event /\ SubSeq(log, 1, m + 1) = Append(a, e)
      /\ e.seq = next /\ After(log, last, m + 1) = next + 1
  BY LogPrefix
<1>. HIDE DEF e, a, next
<1>2. CASE s = Off
  <2>1. ~Off.open
    BY OffIs
  <2>2. Heard(s, e) = {Off}
    BY <1>2, <2>1 DEF Heard, Enqueue
  <2>. QED  BY <1>2, <2>2 DEF Upto, e
<1>3. CASE s # Off
  <2>1. Served(s, Owed(filter, base, a), next, FALSE) /\ s.filter = filter /\ s.base = base
    BY <1>3 DEF Upto, a, next
  <2>2. ASSUME e.seq > base, NEW s2 \in Heard(s, e) PROVE Upto(log, last, filter, base, m + 1, s2)
    <3>1. s2 = Off \/ (/\ Served(s2, Owed(filter, base, Append(a, e)), next + 1, FALSE)
                       /\ GoesOn(s, s2))
      BY <1>1, <2>1, <2>2, HeardKeeps
    <3>. QED  BY <1>1, <2>1, <3>1 DEF Upto, GoesOn
  <2>3. ASSUME e.seq <= base PROVE Upto(log, last, filter, base, m + 1, s)
    <3>1. ~Asked(filter, base, e)
      BY <1>1, <2>3 DEF Asked
    <3>2. Owed(filter, base, Append(a, e)) = Owed(filter, base, a)
      <4>1. Owed(filter, base, Append(a, e)) =
              Owed(filter, base, a) \cup IF Asked(filter, base, e) THEN {e.seq} ELSE {}
        BY <1>1, OwedMore
      <4>. QED  BY <3>1, <4>1
    <3>3. Account(s.wrote, s.queue, s.dropped, Owed(filter, base, a), next + 1, FALSE)
      BY <1>1, <2>1, AccountOther DEF Served, Held
    <3>4. Served(s, Owed(filter, base, a), next + 1, FALSE)
      BY <2>1, <3>3 DEF Served, Held
    <3>. QED  BY <1>1, <2>1, <3>2, <3>4 DEF Upto
  <2>. QED  BY <2>2, <2>3 DEF e
<1>. QED  BY <1>2, <1>3

(* The replay of what is kept of a log serves the rest of it.              *)
LEMMA ReplayServes ==
  ASSUME NEW log, NEW last, Contiguous(log, last), NEW k \in 0 .. Len(log),
         NEW from \in Nat, NEW base \in Nat, base <= from,
         \A i \in DOMAIN log : log[i].seq <= from => log[i].seq <= base,
         NEW filter, NEW states, \A s \in states : Upto(log, last, filter, base, k, s),
         NEW t \in FoldLeft(Replay, [from |-> from, states |-> states], From(log, k + 1)).states
  PROVE  Upto(log, last, filter, base, Len(log), t)
<1>. DEFINE S    == Event
            kept == From(log, k + 1)
            r0   == [from |-> from, states |-> states]
            val(j) == Resume!Value(r0, SubSeq(kept, 1, j))
            Ok(j, st) == /\ val(j) = [from |-> from, states |-> st]
                         /\ \A s \in st : Upto(log, last, filter, base, k + j, s)
            Some(j) == \E st : Ok(j, st)
            J == {j \in Nat : j <= Len(kept) => Some(j)}
<1>1. /\ log \in Seq(S) /\ Len(log) \in Nat /\ k \in Nat /\ k <= Len(log)
      /\ kept \in Seq(S) /\ Len(kept) = Len(log) - k
      /\ \A i \in 1 .. Len(log) - k : kept[i] = log[k + i]
  <2>1. log \in Seq(S)
    BY DEF Contiguous
  <2>. HIDE DEF S
  <2>. QED  BY <2>1, Cut
<1>. HIDE DEF kept, r0
<1>2. 0 \in J
  <2>1. SubSeq(kept, 1, 0) = <<>>
    BY <1>1
  <2>2. val(0) = r0
    BY <2>1, Resume!ValueEmpty
  <2>3. k + 0 = k
    BY <1>1
  <2>4. Ok(0, states)
    BY <2>2, <2>3 DEF r0
  <2>. QED  BY <2>4
<1>3. ASSUME NEW j \in J, j + 1 <= Len(kept) PROVE Some(j + 1)
  <2>1. j \in Nat /\ j <= Len(kept) /\ Len(kept) \in Nat
    BY <1>1, <1>3
  <2>2. PICK st : Ok(j, st)
    BY <2>1
  <2>. DEFINE m == k + j
              e == log[m + 1]
              front == SubSeq(kept, 1, j)
  <2>3. m \in 0 .. Len(log) /\ m < Len(log) /\ m + 1 \in DOMAIN log /\ k + (j + 1) = m + 1
    BY <1>1, <1>3, <2>1
  <2>4. e \in S /\ kept[j + 1] = e
    <3>1. e \in S
      BY <2>3, LogPrefix
    <3>2. j + 1 \in 1 .. Len(log) - k /\ k + (j + 1) = m + 1
      BY <1>1, <1>3, <2>1
    <3>. HIDE DEF m
    <3>. QED  BY <1>1, <3>1, <3>2
  <2>5. front \in Seq(S) /\ SubSeq(kept, 1, j + 1) = Append(front, e)
    <3>. HIDE DEF S, e
    <3>. QED  BY <1>1, <1>3, <2>1, <2>4
  <2>. HIDE DEF front, e, S
  <2>6. val(j + 1) = Replay([from |-> from, states |-> st], e)
    <3>1. Resume!Value(r0, Append(front, e)) = Replay(Resume!Value(r0, front), e)
      BY <2>4, <2>5, Resume!ValueAppend
    <3>. QED  BY <2>2, <2>5, <3>1 DEF front
  <2>7. e.seq \in Nat
    BY <2>4, FrameSizes DEF S
  <2>8. \A s \in st : Upto(log, last, filter, base, m, s)
    BY <2>2
  <2>9. CASE e.seq <= from
    <3>1. val(j + 1) = [from |-> from, states |-> st]
      BY <2>6, <2>9 DEF Replay
    <3>2. e.seq <= base
      BY <2>3, <2>9 DEF e
    <3>3. \A s \in st : Upto(log, last, filter, base, m + 1, s)
      BY <2>3, <2>8, <3>2, HeardUpto DEF e
    <3>. QED  BY <2>3, <3>1, <3>3
  <2>10. CASE e.seq > from
    <3>. DEFINE st2 == UNION {Heard(s, e) : s \in st}
    <3>1. val(j + 1) = [from |-> from, states |-> st2]
      <4>1. ~(e.seq <= from)
        BY <2>7, <2>10
      <4>. QED  BY <2>6, <4>1 DEF Replay
    <3>2. e.seq > base
      BY <2>7, <2>10
    <3>3. \A s \in st2 : Upto(log, last, filter, base, m + 1, s)
      <4>. SUFFICES ASSUME NEW s \in st, NEW s2 \in Heard(s, e)
                    PROVE  Upto(log, last, filter, base, m + 1, s2)
        OBVIOUS
      <4>. HIDE DEF m
      <4>. QED  BY <2>3, <2>8, <3>2, HeardUpto DEF e
    <3>. HIDE DEF st2
    <3>. QED  BY <2>3, <3>1, <3>3
  <2>11. e.seq <= from \/ e.seq > from
    BY <2>7
  <2>. HIDE DEF Some
  <2>. QED  BY <2>9, <2>10, <2>11
<1>4. \A j \in J \cap Nat : j + 1 \in J
  <2>. HIDE DEF Some
  <2>. QED  BY <1>3
<1>. HIDE DEF J
<1>5. Len(kept) \in J
  BY <1>1, <1>2, <1>4, ByteSum!Induction
<1>6. SubSeq(kept, 1, Len(kept)) = kept /\ k + Len(kept) = Len(log) /\ Len(kept) <= Len(kept)
  BY <1>1, SubSeqFull
<1>7. PICK st : Ok(Len(kept), st)
  BY <1>5, <1>6 DEF J
<1>8. FoldLeft(Replay, r0, kept) = [from |-> from, states |-> st]
  BY <1>6, <1>7, ReplayIs
<1>9. t \in st
  BY <1>8 DEF r0, kept
<1>. QED  BY <1>6, <1>7, <1>9

-----------------------------------------------------------------------------
(***************************************************************************)
(* The inductive invariant: the ring is the end of a log without holes,    *)
(* and every connection has been served all of that log.                   *)
(***************************************************************************)
RingInv ==
  /\ Contiguous(said, cast)
  /\ Len(ring) <= Len(said) /\ ring = From(said, Len(said) - Len(ring) + 1)
  /\ ringBytes = Bytes(ring) /\ ringBytes <= RingMaxBytes
  /\ said # <<>> => ring # <<>>

AllServed(s, log, last) ==
  IF s.open THEN s.base <= last /\ Served(s, Owed(s.filter, s.base, log), last + 1, TRUE)
            ELSE s = Off

(* Whoever is served what it asks of all that was said.                    *)
LEMMA ServedAll ==
  ASSUME NEW s, NEW log, NEW last, NEW filter, NEW base, s.filter = filter, s.base = base,
         base <= last, Served(s, Owed(filter, base, log), last + 1, TRUE)
  PROVE  s \in Line /\ AllServed(s, log, last)
<1>1. s \in Line /\ s.open
  BY DEF Served, Held
<1>. QED  BY <1>1 DEF AllServed

SubsInv == \A c \in Clients : AllServed(sub[c], said, cast)

StreamInv == TypeOK /\ RingInv /\ SubsInv

(* The types of the variables, with a name for that of a connection.       *)
LEMMA LineType == TypeOK <=> /\ SEQ \in Nat /\ cast \in 0 .. SEQ /\ boots \in Nat /\ closing \in BOOLEAN
                             /\ ring \in Seq(Event) /\ said \in Seq(Event) /\ ringBytes \in Nat
                             /\ sub \in [Clients -> Line]
  BY DEF TypeOK, Line

(* All of a log is one of its prefixes.                                    *)
LEMMA WholeLog ==
  ASSUME NEW log, NEW last, Contiguous(log, last)
  PROVE  /\ Len(log) \in 0 .. Len(log) /\ SubSeq(log, 1, Len(log)) = log
         /\ After(log, last, Len(log)) = last + 1 /\ Log(log, last + 1)
         /\ \A i \in DOMAIN log : log[i].seq <= last
<1>. DEFINE S == Event
            n == Len(log)
<1>1. log \in Seq(S) /\ last \in Nat /\ n <= last
  BY DEF Contiguous
<1>2. n \in Nat /\ DOMAIN log = 1 .. n /\ SubSeq(log, 1, n) = log
  <2>. HIDE DEF S
  <2>. QED  BY <1>1, SubSeqFull
<1>3. \A i \in DOMAIN log : log[i].seq = last - n + i
  BY DEF Contiguous
<1>4. After(log, last, n) = last - n + n + 1
  BY DEF After
<1>. HIDE DEF n
<1>5. n \in 0 .. n /\ After(log, last, n) = last + 1 /\ \A i \in DOMAIN log : log[i].seq <= last
  BY <1>1, <1>2, <1>3, <1>4
<1>6. Log(log, last + 1)
  <2>1. Log(SubSeq(log, 1, n), After(log, last, n))
    BY <1>5, LogPrefix DEF n
  <2>. QED  BY <1>2, <1>5, <2>1
<1>. QED  BY <1>2, <1>5, <1>6 DEF n

(* What is kept of the log begins at its k-th event.                       *)
LEMMA Kept ==
  ASSUME TypeOK, RingInv
  PROVE  \E k \in 0 .. Len(said) :
           /\ ring = From(said, k + 1) /\ Len(ring) = Len(said) - k
           /\ ring # <<>> => k < Len(said) /\ Head(ring) = said[k + 1]
           /\ ring = <<>> => said = <<>>
<1>. DEFINE S == Event
            k == Len(said) - Len(ring)
<1>1. said \in Seq(S) /\ ring \in Seq(S) /\ Len(ring) <= Len(said)
  BY LineType DEF RingInv
<1>2. /\ Len(said) \in Nat /\ Len(ring) \in Nat
      /\ ring # <<>> => Len(ring) > 0 /\ Head(ring) = ring[1]
  <2>. HIDE DEF S
  <2>. QED  BY <1>1
<1>3. k \in 0 .. Len(said) /\ Len(ring) = Len(said) - k
  BY <1>1, <1>2
<1>4. ring = From(said, k + 1)
  BY DEF RingInv
<1>. HIDE DEF k, S
<1>5. ASSUME ring # <<>> PROVE k < Len(said) /\ Head(ring) = said[k + 1]
  <2>1. k < Len(said) /\ 1 \in 1 .. Len(said) - k /\ k \in Nat
    BY <1>2, <1>3, <1>5
  <2>2. From(said, k + 1)[1] = said[k + 1]
    BY <1>1, <1>3, <2>1, Cut
  <2>. QED  BY <1>2, <1>4, <1>5, <2>1, <2>2
<1>. QED  BY <1>3, <1>4, <1>5 DEF RingInv

(* Warned of the events the ring lost, it is owed the rest of the ring.    *)
LEMMA WarnedServes ==
  ASSUME NEW log, NEW last, Contiguous(log, last), NEW k \in 0 .. Len(log),
         NEW from \in Nat, NEW filter \in Kinds \cup {All}, NEW head,
         head <=> k < Len(log) /\ from < log[k + 1].seq - 1, head \in BOOLEAN,
         k < Len(log) \/ log = <<>>,
         NEW s \in IF head THEN Enqueue(Fresh(filter, Min2(from, last)), Gap(from, log[k + 1].seq))
                   ELSE {Fresh(filter, Min2(from, last))}
  PROVE  Upto(log, last, filter, Min2(from, last), k, s)
<1>. DEFINE base == Min2(from, last)
            next == After(log, last, k)
            owed == Owed(filter, base, SubSeq(log, 1, k))
<1>1. last \in Nat /\ Len(log) \in Nat /\ Len(log) <= last
  <2>1. log \in Seq(Event) /\ last \in Nat /\ Len(log) <= last
    BY DEF Contiguous
  <2>. HIDE DEF Event
  <2>. QED  BY <2>1
<1>2. base \in Nat /\ base <= from /\ base <= last /\ (base = from \/ base = last)
  BY <1>1 DEF Min2
<1>3. /\ Log(SubSeq(log, 1, k), next) /\ next \in Nat
      /\ k < Len(log) => log[k + 1].seq = next
  BY LogPrefix
<1>4. k < Len(log) => next - 1 < last
  BY <1>1 DEF After
<1>5. IsFiniteSet(owed) /\ owed \in SUBSET Nat /\ \A q \in owed : q < next
  BY <1>3, OwedIs
<1>6. \A q \in owed : q \in Nat /\ base < q
  BY <1>5 DEF Owed, Asked
<1>. HIDE DEF base, next, owed
<1>7. CASE head
  <2>1. from < next - 1 /\ log[k + 1].seq = next
    BY <1>3, <1>7
  <2>2. base = from
    BY <1>1, <1>2, <1>3, <1>4, <1>7, <2>1
  <2>3. Owing(owed, next)
    BY <1>3, <1>5 DEF Owing
  <2>4. s \in Enqueue(Fresh(filter, base), Gap(from, next))
    BY <1>7, <2>1 DEF base
  <2>5. s = Off \/ (Served(s, owed, next, FALSE) /\ Asks(s, filter, base))
    <3>1. Above(owed, from)
      BY <1>6, <2>2 DEF Above
    <3>2. base \in Nat /\ next \in Nat
      BY <1>2, <1>3
    <3>. QED  BY <2>3, <2>4, <3>1, <3>2, GapServed
  <2>. QED  BY <2>5 DEF Upto, Asks, base, next, owed
<1>8. CASE ~head
  <2>1. s = Fresh(filter, base)
    BY <1>8 DEF base
  <2>2. owed = {}
    <3>1. CASE k < Len(log)
      <4>1. ~(from < next - 1)
        BY <1>3, <1>8, <3>1
      <4>2. next - 1 <= base
        BY <1>1, <1>2, <1>3, <1>4, <3>1, <4>1
      <4>3. \A q \in owed : FALSE
        BY <1>2, <1>3, <1>5, <1>6, <4>2
      <4>. QED  BY <4>3
    <3>2. CASE log = <<>>
      <4>1. SubSeq(log, 1, k) = <<>>
        <5>1. k = 0
          BY <3>2
        <5>. QED  BY <3>2, <5>1
      <4>. QED  BY <4>1 DEF owed, Owed
    <3>. QED  BY <3>1, <3>2
  <2>3. Served(s, {}, next, FALSE) /\ s.filter = filter /\ s.base = base
    BY <1>2, <1>3, <2>1, FreshServed, FreshIs DEF Begun
  <2>. QED  BY <2>2, <2>3 DEF Upto, base, next, owed
<1>. QED  BY <1>7, <1>8

(* A connection that has just been greeted.                                *)
LEMMA ConnectServes ==
  ASSUME StreamInv, NEW c \in Clients, NEW cursor \in 0 .. MaxSeq + 1 \cup {NoCursor},
         NEW filter \in Kinds \cup {All}, Connect(c, cursor, filter)
  PROVE  /\ sub' = [sub EXCEPT ![c] = sub'[c]] /\ ~sub[c].open
         /\ sub'[c] \in Line /\ AllServed(sub'[c], said, cast)
<1>. DEFINE from   == IF cursor = NoCursor THEN SEQ ELSE Min2(cursor, SEQ)
            base   == Min2(from, cast)
            s      == Fresh(filter, base)
            warned == IF EvictedSince(from) THEN Enqueue(s, Gap(from, Head(ring).seq)) ELSE {s}
            resume == FoldLeft(Replay, [from |-> from, states |-> warned], ring).states
            n      == Len(said)
<1>1. /\ SEQ \in Nat /\ cast \in Nat /\ cast <= SEQ /\ sub \in [Clients -> Line]
      /\ Contiguous(said, cast) /\ RingInv /\ TypeOK
  BY LineType DEF StreamInv, RingInv
<1>2. /\ n \in 0 .. n /\ SubSeq(said, 1, n) = said /\ After(said, cast, n) = cast + 1
      /\ Log(said, cast + 1) /\ \A i \in DOMAIN said : said[i].seq \in Nat /\ said[i].seq <= cast
  BY <1>1, WholeLog DEF Log
<1>3. from \in Nat /\ base \in Nat /\ base <= from /\ base <= cast /\ (base = from \/ base = cast)
  <2>1. cursor # NoCursor => cursor \in Nat
    BY StreamAssumption
  <2>. QED  BY <1>1, <2>1 DEF Min2
<1>4. PICK t, s2 : /\ t \in IF cursor = NoCursor THEN {s} ELSE resume
                   /\ s2 \in Enqueue(t, Ready) /\ sub' = [sub EXCEPT ![c] = s2] /\ ~sub[c].open
  BY DEF Connect, Fresh
<1>5. sub'[c] = s2
  BY <1>1, <1>4
<1>. HIDE DEF from, s, n
<1>6. Upto(said, cast, filter, base, n, t)
  <2>1. CASE cursor = NoCursor
    <3>1. t = s /\ base = cast
      <4>1. t = s /\ from = SEQ
        BY <1>4, <2>1 DEF from
      <4>. QED  BY <1>1, <4>1 DEF Min2
    <3>. HIDE DEF base, warned, resume
    <3>2. Owed(filter, base, said) = {}
      <4>1. \A i \in DOMAIN said : ~(said[i].seq > base)
        BY <1>1, <1>2, <3>1
      <4>. QED  BY <4>1 DEF Owed, Asked
    <3>3. Served(s, {}, cast + 1, FALSE) /\ s.filter = filter /\ s.base = base
      <4>1. cast + 1 \in Nat /\ base \in Nat
        BY <1>1, <1>3
      <4>2. Served(s, {}, cast + 1, FALSE)
        BY <4>1, FreshServed DEF s
      <4>3. Begun(s, filter, base, <<>>)
        BY <4>1, FreshIs DEF s
      <4>. QED  BY <4>2, <4>3 DEF Begun
    <3>. QED  BY <1>2, <3>1, <3>2, <3>3 DEF Upto
  <2>2. CASE cursor # NoCursor
    <3>1. PICK k \in 0 .. Len(said) :
            /\ ring = From(said, k + 1) /\ Len(ring) = Len(said) - k
            /\ ring # <<>> => k < Len(said) /\ Head(ring) = said[k + 1]
            /\ ring = <<>> => said = <<>>
      BY <1>1, Kept
    <3>. DEFINE head == EvictedSince(from)
    <3>2. /\ head <=> k < Len(said) /\ from < said[k + 1].seq - 1
          /\ head \in BOOLEAN /\ (k < Len(said) \/ said = <<>>)
      <4>1. said = <<>> => ~(k < Len(said))
        OBVIOUS
      <4>2. ring = <<>> <=> ~(k < Len(said))
        BY <3>1, <4>1
      <4>3. head <=> ring # <<>> /\ from < Head(ring).seq - 1
        BY DEF EvictedSince
      <4>4. head \in BOOLEAN
        BY DEF EvictedSince
      <4>. HIDE DEF head
      <4>. QED  BY <3>1, <4>2, <4>3, <4>4
    <3>3. ASSUME NEW w \in warned PROVE Upto(said, cast, filter, base, k, w)
      <4>1. w \in IF head THEN Enqueue(Fresh(filter, base), Gap(from, said[k + 1].seq))
                  ELSE {Fresh(filter, base)}
        BY <3>1, <3>2, <3>3 DEF s, EvictedSince
      <4>. HIDE DEF head
      <4>. QED  BY <1>1, <1>3, <3>2, <4>1, WarnedServes
    <3>4. \A i \in DOMAIN said : said[i].seq <= from => said[i].seq <= base
      BY <1>2, <1>3
    <3>5. t \in FoldLeft(Replay, [from |-> from, states |-> warned], From(said, k + 1)).states
      BY <1>4, <2>2, <3>1
    <3>. HIDE DEF warned, base
    <3>. QED  BY <1>1, <1>3, <3>3, <3>4, <3>5, ReplayServes DEF n
  <2>. QED  BY <2>1, <2>2
<1>. HIDE DEF base, warned, resume
<1>7. CASE t = Off
  <2>1. ~Off.open
    BY OffIs
  <2>2. s2 = Off
    BY <1>4, <1>7, <2>1 DEF Enqueue
  <2>. QED  BY <1>4, <1>5, <2>2, OffIs DEF AllServed
<1>8. CASE t # Off
  <2>. DEFINE owed == Owed(filter, base, said)
  <2>1. Served(t, owed, cast + 1, FALSE) /\ t.filter = filter /\ t.base = base
    BY <1>2, <1>6, <1>8 DEF Upto
  <2>2. Owing(owed, cast + 1)
    BY <1>1, <1>2, OwedIs DEF Owing
  <2>3. Ready \in Frame /\ Ready.type = "_ready"
    BY <1>1 DEF Ready, Frame
  <2>. HIDE DEF owed
  <2>4. /\ t \in Line /\ t.open /\ t.bytes = Bytes(t.queue)
        /\ Account(t.wrote, t.queue, t.dropped, owed, cast + 1, FALSE)
    BY <2>1 DEF Served, Held
  <2>5. Account(t.wrote, Append(t.queue, Ready), t.dropped, owed, cast + 1, TRUE)
    BY <2>2, <2>3, <2>4, AccountReady
  <2>6. s2 = Off \/ (Served(s2, owed, cast + 1, TRUE) /\ GoesOn(t, s2))
    BY <1>4, <2>2, <2>3, <2>4, <2>5, EnqueueKeeps
  <2>7. CASE s2 = Off
    BY <1>4, <1>5, <2>7, OffIs DEF AllServed
  <2>8. CASE s2 # Off
    <3>1. Served(s2, owed, cast + 1, TRUE) /\ s2.filter = filter /\ s2.base = base
      BY <2>1, <2>6, <2>8 DEF GoesOn
    <3>2. base <= cast
      BY <1>3
    <3>3. s2 \in Line /\ AllServed(s2, said, cast)
      BY <3>1, <3>2, ServedAll DEF owed
    <3>. QED  BY <1>4, <1>5, <3>3
  <2>. QED  BY <2>7, <2>8
<1>. QED  BY <1>7, <1>8

-----------------------------------------------------------------------------
(* One event more, at the end of the log and of the ring.                  *)
LEMMA BroadcastRing ==
  ASSUME TypeOK, RingInv, NEW kind \in Kinds, NEW size \in Sizes, Broadcast(kind, size)
  PROVE  /\ RingInv' /\ ring' \in Seq(Event) /\ said' \in Seq(Event) /\ ringBytes' \in Nat
         /\ cast' \in 0 .. SEQ
<1>. DEFINE S    == Event
            e    == [seq |-> cast + 1, kind |-> kind, size |-> size]
            full == Append(ring, e)
            all  == Append(said, e)
<1>1. /\ SEQ \in Nat /\ cast \in Nat /\ cast < SEQ /\ cast' = cast + 1
      /\ said \in Seq(S) /\ ring \in Seq(S) /\ ringBytes \in Nat
  BY LineType DEF Broadcast, Waiting
<1>2. e \in S /\ e.seq = cast + 1 /\ e.size = size /\ size \in Nat /\ size <= RingMaxBytes
  BY <1>1, StreamAssumption DEF Event
<1>3. said' = all
  BY DEF Broadcast
<1>4. PICK d \in 0 .. Len(full) :
        /\ Evicts(full, d) /\ ring' = From(full, d + 1)
        /\ ringBytes' = ringBytes + size - Bytes(SubSeq(full, 1, d))
  BY DEF Broadcast
<1>5. PICK k \in 0 .. Len(said) : ring = From(said, k + 1) /\ Len(ring) = Len(said) - k
  BY Kept
<1>. HIDE DEF S, e
<1>6. /\ all \in Seq(S) /\ Len(all) = Len(said) + 1 /\ Len(said) \in Nat
      /\ all[Len(said) + 1] = e /\ \A i \in 1 .. Len(said) : all[i] = said[i]
      /\ DOMAIN all = 1 .. Len(said) + 1 /\ DOMAIN said = 1 .. Len(said) /\ all # <<>>
  BY <1>1, <1>2
<1>7. /\ full \in Seq(S) /\ Len(full) = Len(ring) + 1 /\ Len(ring) \in Nat
      /\ full[Len(ring) + 1] = e /\ \A i \in 1 .. Len(ring) : full[i] = ring[i]
  BY <1>1, <1>2
<1>. HIDE DEF all, full
<1>8. Contiguous(all, cast + 1)
  <2>1. Len(said) <= cast /\ \A i \in DOMAIN said : said[i].seq = cast - Len(said) + i
    BY DEF RingInv, Contiguous
  <2>2. Len(all) <= cast + 1 /\ cast + 1 \in Nat
    BY <1>1, <1>6, <2>1
  <2>3. ASSUME NEW i \in DOMAIN all PROVE all[i].seq = (cast + 1) - Len(all) + i
    <3>. DEFINE n == Len(said)
    <3>1. n \in Nat /\ Len(all) = n + 1 /\ i \in 1 .. n + 1
      BY <1>6, <2>3
    <3>2. CASE i = n + 1
      <4>1. all[i].seq = cast + 1
        BY <1>2, <1>6, <3>2
      <4>. HIDE DEF n
      <4>. QED  BY <1>1, <3>1, <3>2, <4>1
    <3>3. CASE i # n + 1
      <4>1. i \in 1 .. n
        BY <3>1, <3>3
      <4>2. all[i].seq = cast - n + i
        BY <1>6, <2>1, <4>1
      <4>. HIDE DEF n
      <4>. QED  BY <1>1, <3>1, <4>1, <4>2
    <3>. QED  BY <3>2, <3>3
  <2>. QED  BY <1>6, <2>2, <2>3 DEF Contiguous, S
<1>9. /\ ring' \in Seq(S) /\ Len(ring') = Len(full) - d
      /\ \A i \in 1 .. Len(full) - d : ring'[i] = full[d + i]
  BY <1>4, <1>7, Cut
<1>10. d < Len(full)
  <2>. SUFFICES ASSUME d = Len(full) PROVE FALSE
    BY <1>4, <1>7
  <2>. DEFINE n == Len(ring)
              b == From(full, n + 1)
  <2>1. n \in 0 .. d - 1 /\ n \in 0 .. Len(full)
    BY <1>7
  <2>2. Bytes(b) > RingMaxBytes
    BY <1>4, <2>1 DEF Evicts
  <2>3. /\ b \in Seq(S) /\ Len(b) = Len(full) - n
        /\ \A i \in 1 .. Len(full) - n : b[i] = full[n + i]
    <3>. HIDE DEF n
    <3>1. Parts(S, full, n, SubSeq(full, 1, n), b)
      BY <1>7, <2>1, CutParts
    <3>. QED  BY <3>1 DEF Parts
  <2>4. b = Append(<<>>, e)
    <3>. DEFINE one == Append(<<>>, e)
    <3>1. one \in Seq(S) /\ Len(one) = 1 /\ one[1] = e
      BY <1>2
    <3>. HIDE DEF one, b
    <3>2. Len(b) = 1 /\ b[1] = e
      <4>1. Len(full) - n = 1 /\ 1 \in 1 .. Len(full) - n
        BY <1>7
      <4>. QED  BY <1>7, <2>3, <4>1
    <3>3. b = one
      BY <2>3, <3>1, <3>2, SeqEqual
    <3>. QED  BY <3>3 DEF one
  <2>. DEFINE z == <<>>
  <2>5. z \in Seq(S) /\ Bytes(z) = 0 /\ \A x \in S : x.size \in Nat
    BY BytesIs, ByteSum!ValueEmpty, FrameSizes DEF S
  <2>. HIDE DEF z
  <2>6. Bytes(Append(z, e)) = Bytes(z) + e.size
    BY <1>2, <2>5, BytesLaws
  <2>7. Bytes(b) = size
    BY <1>2, <2>4, <2>5, <2>6 DEF z
  <2>. QED  BY <1>2, <2>2, <2>7, FrameSizes
<1>11. ring' # <<>>
  <2>1. Len(ring') # 0
    BY <1>7, <1>9, <1>10
  <2>. QED  BY <2>1
<1>12. ring' = From(all, Len(all) - Len(ring') + 1) /\ Len(ring') <= Len(all)
  <2>. DEFINE m == k + d
              b == From(all, m + 1)
  <2>1. /\ k \in Nat /\ d \in Nat /\ m \in 0 .. Len(all)
        /\ Len(ring') = Len(all) - m /\ Len(full) = Len(all) - k
    BY <1>5, <1>6, <1>7, <1>9, <1>10
  <2>2. b \in Seq(S) /\ Len(b) = Len(all) - m /\ \A i \in 1 .. Len(all) - m : b[i] = all[m + i]
    <3>. HIDE DEF m
    <3>1. Parts(S, all, m, SubSeq(all, 1, m), b)
      BY <1>6, <2>1, CutParts
    <3>. QED  BY <3>1 DEF Parts
  <2>3. \A i \in 1 .. Len(full) : full[i] = all[k + i]
    <3>. SUFFICES ASSUME NEW i \in 1 .. Len(full) PROVE full[i] = all[k + i]
      OBVIOUS
    <3>1. CASE i = Len(ring) + 1
      <4>1. k + i = Len(said) + 1
        BY <1>5, <1>6, <1>7, <3>1
      <4>. QED  BY <1>6, <1>7, <3>1, <4>1
    <3>2. CASE i # Len(ring) + 1
      <4>1. i \in 1 .. Len(ring) /\ i \in 1 .. Len(said) - k /\ k + i \in 1 .. Len(said)
        BY <1>5, <1>6, <1>7, <2>1, <3>2
      <4>2. From(said, k + 1)[i] = said[k + i]
        BY <1>1, <1>5, <4>1, Cut
      <4>. QED  BY <1>5, <1>6, <1>7, <4>1, <4>2
    <3>. QED  BY <3>1, <3>2
  <2>. HIDE DEF b
  <2>4. \A i \in 1 .. Len(ring') : ring'[i] = b[i]
    <3>. SUFFICES ASSUME NEW i \in 1 .. Len(ring') PROVE ring'[i] = b[i]
      OBVIOUS
    <3>1. i \in 1 .. Len(full) - d /\ d + i \in 1 .. Len(full) /\ i \in 1 .. Len(all) - m
      BY <1>6, <1>7, <1>9, <2>1
    <3>2. k + (d + i) = m + i
      BY <2>1, <3>1
    <3>. HIDE DEF m
    <3>. QED  BY <1>9, <2>2, <2>3, <3>1, <3>2
  <2>5. ring' = b
    BY <1>9, <2>1, <2>2, <2>4, SeqEqual
  <2>6. Len(all) - Len(ring') + 1 = m + 1 /\ Len(ring') <= Len(all)
    BY <1>6, <2>1
  <2>. QED  BY <2>5, <2>6 DEF b
<1>13. ringBytes' = Bytes(ring') /\ ringBytes' <= RingMaxBytes /\ ringBytes' \in Nat
  <2>1. \A x \in S : x.size \in Nat
    BY FrameSizes DEF S
  <2>2. /\ Bytes(SubSeq(full, 1, d)) \in Nat /\ Bytes(ring') \in Nat
        /\ Bytes(ring') = Bytes(full) - Bytes(SubSeq(full, 1, d))
    BY <1>4, <1>7, <2>1, BytesCut
  <2>3. Bytes(full) = Bytes(ring) + size /\ ringBytes = Bytes(ring)
    <3>1. Bytes(Append(ring, e)) = Bytes(ring) + e.size
      BY <1>1, <1>2, <2>1, BytesLaws
    <3>. QED  BY <1>2, <3>1 DEF RingInv, full
  <2>4. Bytes(ring') <= RingMaxBytes
    BY <1>4 DEF Evicts
  <2>5. ringBytes' = Bytes(ring')
    <3>. DEFINE x == Bytes(SubSeq(full, 1, d))
    <3>1. ringBytes' = ringBytes + size - x
      BY <1>4
    <3>. HIDE DEF x
    <3>. QED  BY <1>1, <1>2, <2>2, <2>3, <3>1 DEF x
  <2>. QED  BY <2>2, <2>4, <2>5
<1>. QED
  <2>1. Contiguous(said', cast')
    BY <1>1, <1>3, <1>8
  <2>2. Len(ring') <= Len(said') /\ ring' = From(said', Len(said') - Len(ring') + 1)
    BY <1>3, <1>12
  <2>3. RingInv'
    BY <1>11, <1>13, <2>1, <2>2 DEF RingInv
  <2>4. cast' \in 0 .. SEQ
    BY <1>1
  <2>. QED  BY <1>3, <1>6, <1>9, <1>13, <2>3, <2>4 DEF S

-----------------------------------------------------------------------------
(* Nothing but Connect opens a connection, or takes back what was written. *)
Onward == \A c \in Clients : sub'[c].open => sub[c].open /\ GoesOn(sub[c], sub'[c])

(* To do nothing is to go on.                                              *)
LEMMA Stays ==
  ASSUME NEW s \in Line
  PROVE  GoesOn(s, s)
<1>1. s.wrote \in Seq(Frame)
  BY DEF Line
<1>2. s.wrote = s.wrote \o <<>> /\ <<>> \in Seq(Frame)
  <2>. HIDE DEF Frame
  <2>. QED  BY <1>1
<1>. QED  BY <1>2 DEF GoesOn

(* Whoever is served is connected.                                         *)
LEMMA ServedType ==
  ASSUME NEW s, NEW owed, NEW next, NEW greeted, Served(s, owed, next, greeted)
  PROVE  s \in Line /\ s.open
  BY DEF Served, Held

(* What a broadcast leaves of each connection.                             *)
LEMMA HeardServes ==
  ASSUME StreamInv, NEW s \in Line, AllServed(s, said, cast),
         NEW e \in Event, e.seq = cast + 1, NEW s2 \in Heard(s, e)
  PROVE  /\ s2 \in Line /\ AllServed(s2, Append(said, e), cast + 1)
         /\ s2.open => s.open /\ GoesOn(s, s2)
<1>1. cast \in Nat /\ Log(said, cast + 1)
  BY LineType, WholeLog DEF StreamInv, RingInv
<1>2. CASE s.open
  <2>1. s.base <= cast /\ Served(s, Owed(s.filter, s.base, said), cast + 1, TRUE) /\ s.base \in Nat
    BY <1>2 DEF AllServed, Line
  <2>2. e.seq > s.base
    BY <1>1, <2>1
  <2>3. s2 = Off \/ (/\ Served(s2, Owed(s.filter, s.base, Append(said, e)), cast + 1 + 1, TRUE)
                     /\ GoesOn(s, s2))
    BY <1>1, <2>1, <2>2, HeardKeeps
  <2>4. CASE s2 = Off
    BY <2>4, OffIs DEF AllServed
  <2>5. CASE s2 # Off
    <3>1. /\ Served(s2, Owed(s.filter, s.base, Append(said, e)), cast + 1 + 1, TRUE)
          /\ GoesOn(s, s2) /\ s2 \in Line
      BY <2>3, <2>5, ServedType
    <3>2. s2.filter = s.filter /\ s2.base = s.base
      BY <3>1 DEF GoesOn
    <3>3. s.base <= cast + 1
      BY <1>1, <2>1
    <3>4. AllServed(s2, Append(said, e), cast + 1)
      BY <3>1, <3>2, <3>3, ServedAll
    <3>. QED  BY <1>2, <3>1, <3>4
  <2>. QED  BY <2>4, <2>5
<1>3. CASE ~s.open
  <2>1. s2 = s
    BY <1>3 DEF Heard, Enqueue
  <2>. QED  BY <1>3, <2>1 DEF AllServed
<1>. QED  BY <1>2, <1>3

(* What a drain leaves.                                                    *)
LEMMA DrainServes ==
  ASSUME StreamInv, NEW s \in Line, s.open, AllServed(s, said, cast),
         NEW s2 \in Pump([s EXCEPT !.writing = FALSE])
  PROVE  /\ s2 \in Line /\ AllServed(s2, said, cast)
         /\ s2.open => GoesOn(s, s2)
<1>. DEFINE t    == [s EXCEPT !.writing = FALSE]
            owed == Owed(s.filter, s.base, said)
            next == cast + 1
<1>0. t = [s EXCEPT !.writing = FALSE]
  OBVIOUS
<1>. HIDE DEF t
<1>1. t = [open |-> s.open, filter |-> s.filter, queue |-> s.queue, bytes |-> s.bytes,
           dropped |-> s.dropped, writing |-> FALSE, wrote |-> s.wrote, base |-> s.base]
  BY <1>0 DEF Line
<1>2. t \in Line
  BY <1>1 DEF Line
<1>3. s.base <= cast /\ Served(s, owed, next, TRUE)
  BY DEF AllServed
<1>4. Owing(owed, next)
  <2>1. cast \in Nat /\ Log(said, cast + 1)
    BY LineType, WholeLog DEF StreamInv, RingInv
  <2>. QED  BY <2>1, OwedIs DEF Owing
<1>. HIDE DEF owed, next
<1>5. Held(t, owed, next, TRUE)
  BY <1>1, <1>2, <1>3 DEF Served, Held
<1>6. s2 = Off \/ (Served(s2, owed, next, TRUE) /\ GoesOn(t, s2))
  <2>1. s2 \in Pump(t)
    BY DEF t
  <2>2. ~t.writing
    BY <1>1
  <2>. QED  BY <1>4, <1>5, <2>1, <2>2, PumpKeeps
<1>7. GoesOn(t, s2) => GoesOn(s, s2)
  BY <1>1 DEF GoesOn
<1>8. CASE s2 = Off
  BY <1>8, OffIs DEF AllServed
<1>9. CASE s2 # Off
  <2>1. Served(s2, owed, next, TRUE) /\ GoesOn(s, s2) /\ s2 \in Line
    BY <1>6, <1>7, <1>9, ServedType
  <2>2. s2.filter = s.filter /\ s2.base = s.base
    BY <2>1 DEF GoesOn
  <2>3. AllServed(s2, said, cast)
    BY <1>3, <2>1, <2>2, ServedAll DEF owed, next
  <2>. QED  BY <2>1, <2>3
<1>. QED  BY <1>8, <1>9

(* A step that changes one connection, and nothing of the log.             *)
LEMMA OneServed ==
  ASSUME StreamInv, NEW c \in Clients, NEW s2 \in Line, sub' = [sub EXCEPT ![c] = s2],
         AllServed(s2, said, cast), UNCHANGED <<SEQ, cast, ring, ringBytes, closing, said, boots>>
  PROVE  StreamInv' /\ \A x \in Clients \ {c} : sub'[x] = sub[x]
<1>1. sub \in [Clients -> Line]
  BY LineType DEF StreamInv
<1>2. sub' \in [Clients -> Line] /\ sub'[c] = s2 /\ \A x \in Clients \ {c} : sub'[x] = sub[x]
  <2>. HIDE DEF Line
  <2>. QED  BY <1>1
<1>3. TypeOK'
  BY <1>2 DEF StreamInv, TypeOK, Line
<1>4. RingInv'
  BY DEF StreamInv, RingInv
<1>5. SubsInv'
  BY <1>2 DEF StreamInv, SubsInv
<1>. QED  BY <1>2, <1>3, <1>4, <1>5 DEF StreamInv

(* The invariant holds at first.                                           *)
LEMMA StreamInit == Init => StreamInv
<1>. SUFFICES ASSUME Init PROVE StreamInv
  OBVIOUS
<1>. DEFINE e == <<>>
<1>0. /\ SEQ = 0 /\ cast = 0 /\ ring = e /\ ringBytes = 0 /\ said = e
      /\ sub = [c \in Clients |-> Off] /\ closing = FALSE /\ boots = 1
  BY DEF Init
<1>1. e \in Seq(Event) /\ Len(e) = 0 /\ DOMAIN e = {}
  <2>. HIDE DEF Event
  <2>. QED  OBVIOUS
<1>2. Bytes(e) = 0
  BY EmptyIs
<1>3. e = From(e, Len(e) - Len(e) + 1)
  BY DEF From
<1>4. sub \in [Clients -> Line] /\ \A c \in Clients : ~sub[c].open /\ sub[c] = Off
  BY <1>0, OffIs
<1>. HIDE DEF e
<1>5. TypeOK
  <2>1. cast \in 0 .. SEQ /\ SEQ \in Nat /\ boots \in Nat /\ ringBytes \in Nat /\ closing \in BOOLEAN
    <3>1. closing \in BOOLEAN
      BY <1>0
    <3>2. SEQ = 0 /\ cast = 0 /\ boots = 1 /\ ringBytes = 0
      BY <1>0
    <3>. QED  BY <3>1, <3>2
  <2>. QED  BY <1>0, <1>1, <1>4, <2>1, LineType
<1>6. RingInv
  <2>1. Contiguous(said, cast)
    BY <1>0, <1>1 DEF Contiguous
  <2>2. said = <<>>
    BY <1>0 DEF e
  <2>. QED  BY <1>0, <1>1, <1>2, <1>3, <2>1, <2>2, FrameSizes DEF RingInv
<1>7. SubsInv
  BY <1>4 DEF SubsInv, AllServed
<1>. QED  BY <1>5, <1>6, <1>7 DEF StreamInv

(* The invariant is inductive: one step per action.                        *)
LEMMA StreamStep == StreamInv /\ [Next]_vars => StreamInv'
<1>. SUFFICES ASSUME StreamInv, [Next]_vars PROVE StreamInv'
  OBVIOUS
<1>0. /\ TypeOK /\ RingInv /\ SEQ \in Nat /\ cast \in 0 .. SEQ /\ boots \in Nat /\ closing \in BOOLEAN
      /\ ring \in Seq(Event) /\ said \in Seq(Event) /\ ringBytes \in Nat
      /\ sub \in [Clients -> Line] /\ \A c \in Clients : sub[c] \in Line /\ AllServed(sub[c], said, cast)
  BY LineType DEF StreamInv, SubsInv
<1>1. CASE Accept
  <2>1. TypeOK'
    <3>1. cast \in 0 .. SEQ + 1 /\ SEQ + 1 \in Nat
      BY <1>0
    <3>. QED  BY <1>0, <1>1, <3>1 DEF Accept, TypeOK
  <2>2. RingInv' /\ SubsInv'
    BY <1>1 DEF Accept, StreamInv, RingInv, SubsInv
  <2>. QED  BY <2>1, <2>2 DEF StreamInv
<1>2. ASSUME NEW kind \in Kinds, NEW size \in Sizes, Broadcast(kind, size)
      PROVE  StreamInv'
  <2>. DEFINE e == [seq |-> cast + 1, kind |-> kind, size |-> size]
  <2>1. /\ RingInv' /\ ring' \in Seq(Event) /\ said' \in Seq(Event) /\ ringBytes' \in Nat
        /\ cast' \in 0 .. SEQ
    BY <1>0, <1>2, BroadcastRing
  <2>2. /\ cast' = cast + 1 /\ said' = Append(said, e)
        /\ UNCHANGED <<SEQ, closing, boots>>
        /\ sub' \in [Clients -> UNION {Heard(sub[c], e) : c \in Clients}]
        /\ \A c \in Clients : sub'[c] \in Heard(sub[c], e)
    BY <1>2 DEF Broadcast
  <2>3. e \in Event /\ e.seq = cast + 1
    BY <1>0 DEF Event
  <2>. HIDE DEF e
  <2>4. \A c \in Clients : sub'[c] \in Line /\ AllServed(sub'[c], said', cast')
    BY <1>0, <2>2, <2>3, HeardServes
  <2>5. sub' \in [Clients -> Line]
    BY <2>2, <2>4
  <2>6. TypeOK'
    BY <1>0, <2>1, <2>2, <2>5 DEF TypeOK, Line
  <2>7. SubsInv'
    BY <2>4 DEF SubsInv
  <2>. QED  BY <2>1, <2>6, <2>7 DEF StreamInv
<1>3. ASSUME NEW c \in Clients, NEW cursor \in 0 .. MaxSeq + 1 \cup {NoCursor},
             NEW filter \in Kinds \cup {All}, Connect(c, cursor, filter)
      PROVE  StreamInv'
  <2>1. /\ sub' = [sub EXCEPT ![c] = sub'[c]]
        /\ sub'[c] \in Line /\ AllServed(sub'[c], said, cast)
    BY <1>3, ConnectServes
  <2>2. UNCHANGED <<SEQ, cast, ring, ringBytes, closing, said, boots>>
    BY <1>3 DEF Connect
  <2>. DEFINE s2 == sub'[c]
  <2>. HIDE DEF s2
  <2>3. s2 \in Line /\ AllServed(s2, said, cast) /\ sub' = [sub EXCEPT ![c] = s2]
    BY <2>1 DEF s2
  <2>. QED  BY <2>2, <2>3, OneServed
<1>4. ASSUME NEW c \in Clients, Drain(c)
      PROVE  StreamInv'
  <2>1. PICK s2 \in Pump([sub[c] EXCEPT !.writing = FALSE]) : sub' = [sub EXCEPT ![c] = s2]
    BY <1>4 DEF Drain
  <2>2. s2 \in Line /\ AllServed(s2, said, cast)
    BY <1>0, <1>4, DrainServes DEF Drain
  <2>3. UNCHANGED <<SEQ, cast, ring, ringBytes, closing, said, boots>>
    BY <1>4 DEF Drain
  <2>. QED  BY <2>1, <2>2, <2>3, OneServed
<1>5. ASSUME NEW c \in Clients, Close(c)
      PROVE  StreamInv'
  <2>1. Off \in Line /\ AllServed(Off, said, cast)
    BY OffIs DEF AllServed
  <2>. QED  BY <1>5, <2>1, OneServed DEF Close
<1>6. CASE CloseAllSubscribers
  <2>1. sub' \in [Clients -> Line] /\ \A c \in Clients : ~sub'[c].open /\ sub'[c] = Off
    BY <1>6, OffIs DEF CloseAllSubscribers
  <2>2. TypeOK'
    BY <1>0, <1>6, <2>1 DEF CloseAllSubscribers, TypeOK, Line
  <2>3. RingInv' /\ SubsInv'
    BY <1>6, <2>1 DEF CloseAllSubscribers, StreamInv, RingInv, SubsInv, AllServed
  <2>. QED  BY <2>2, <2>3 DEF StreamInv
<1>7. CASE Restart
  <2>. DEFINE e == <<>>
  <2>1. sub' \in [Clients -> Line] /\ \A c \in Clients : ~sub'[c].open /\ sub'[c] = Off
    BY <1>7, OffIs DEF Restart
  <2>2. /\ SEQ' \in Nat /\ cast' = SEQ' /\ cast' \in 0 .. SEQ' /\ ring' = e /\ ringBytes' = 0 /\ said' = e
        /\ closing' \in BOOLEAN /\ boots' \in Nat
    <3>1. closing' \in BOOLEAN /\ ring' = e /\ said' = e
      BY <1>7 DEF Restart
    <3>2. SEQ' \in 0 .. SEQ /\ cast' = SEQ' /\ ringBytes' = 0 /\ boots' = boots + 1
      BY <1>7 DEF Restart
    <3>3. SEQ' \in Nat /\ SEQ' \in 0 .. SEQ' /\ boots' \in Nat
      BY <1>0, <3>2
    <3>. QED  BY <3>1, <3>2, <3>3
  <2>3. e \in Seq(Event) /\ Len(e) = 0 /\ DOMAIN e = {} /\ Bytes(e) = 0
    <3>1. e \in Seq(Event) /\ Len(e) = 0 /\ DOMAIN e = {}
      <4>. HIDE DEF Event
      <4>. QED  OBVIOUS
    <3>. QED  BY <3>1, EmptyIs
  <2>4. e = From(e, Len(e) - Len(e) + 1)
    BY DEF From
  <2>5. said' = <<>>
    BY <2>2
  <2>. HIDE DEF e
  <2>6. TypeOK'
    BY <2>1, <2>2, <2>3 DEF TypeOK, Line
  <2>7. Contiguous(said', cast')
    BY <2>2, <2>3 DEF Contiguous
  <2>8. RingInv'
    BY <2>2, <2>3, <2>4, <2>5, <2>7, FrameSizes DEF RingInv
  <2>9. SubsInv'
    BY <2>1 DEF SubsInv, AllServed
  <2>. QED  BY <2>6, <2>8, <2>9 DEF StreamInv
<1>8. CASE UNCHANGED vars
  BY <1>8 DEF vars, StreamInv, TypeOK, RingInv, SubsInv
<1>. QED  BY <1>1, <1>2, <1>3, <1>4, <1>5, <1>6, <1>7, <1>8 DEF Next

-----------------------------------------------------------------------------
(***************************************************************************)
(* The properties.                                                         *)
(***************************************************************************)
LEMMA StreamAlways == Spec => []StreamInv
<1>1. Init => StreamInv
  BY StreamInit
<1>2. StreamInv /\ [Next]_vars => StreamInv'
  BY StreamStep
<1>. QED  BY <1>1, <1>2, PTL DEF Spec

(* The variables of the live stream keep their types.                      *)
THEOREM AlwaysStreamTyped == Spec => []TypeOK
<1>1. StreamInv => TypeOK
  BY DEF StreamInv
<1>. QED  BY <1>1, StreamAlways, PTL

(* Both buffers keep their bound, the ring is the recent past without a    *)
(* hole, and what a subscriber has waiting has a drain to wait for,        *)
(* wherever the pump had to stop.                                          *)
THEOREM BuffersAlwaysKept == Spec => []BuffersKept
<1>1. StreamInv => BuffersKept
  <2>. SUFFICES ASSUME StreamInv PROVE BuffersKept
    OBVIOUS
  <2>1. RingIsRecentPast
    BY DEF StreamInv, RingInv, RingIsRecentPast
  <2>2. ASSUME NEW c \in Clients
        PROVE  /\ sub[c].bytes = Bytes(sub[c].queue) /\ sub[c].bytes <= SubMaxBytes
               /\ Len(sub[c].queue) <= SubMaxItems
               /\ sub[c].queue # <<>> \/ sub[c].dropped > 0 => sub[c].writing
    <3>1. CASE sub[c].open
      BY <2>2, <3>1 DEF StreamInv, SubsInv, AllServed, Served, Held
    <3>2. CASE ~sub[c].open
      <4>1. sub[c] = Off
        BY <2>2, <3>2 DEF StreamInv, SubsInv, AllServed
      <4>2. Off.queue = <<>> /\ Off.bytes = 0 /\ Off.dropped = 0
        BY DEF Off
      <4>3. Len(sub[c].queue) = 0 /\ sub[c].bytes = 0 /\ Bytes(sub[c].queue) = 0
        BY <4>1, <4>2, EmptyIs
      <4>. QED  BY <4>1, <4>2, <4>3, FrameSizes
    <3>. QED  BY <3>1, <3>2
  <2>. QED  BY <2>1, <2>2 DEF BuffersKept, SubscriberBounded
<1>. QED  BY <1>1, StreamAlways, PTL

(* What a connection is owed, and what of it is missing, in the terms of   *)
(* its account.                                                            *)
LEMMA MissingIs ==
  ASSUME StreamInv, NEW c \in Clients, sub[c].open
  PROVE  LET s == sub[c]
             owed == Owed(s.filter, s.base, said)
         IN /\ Account(s.wrote, s.queue, s.dropped, owed, cast + 1, TRUE)
            /\ Owing(owed, cast + 1) /\ s \in Line
            /\ Missing(s) = owed \ (Seqs(s.wrote) \cup Seqs(s.queue))
<1>. DEFINE s == sub[c]
            owed == Owed(s.filter, s.base, said)
<1>1. s \in Line /\ Account(s.wrote, s.queue, s.dropped, owed, cast + 1, TRUE)
  BY DEF StreamInv, SubsInv, AllServed, Served, Held
<1>2. Owing(owed, cast + 1)
  <2>1. cast \in Nat /\ Log(said, cast + 1)
    BY LineType, WholeLog DEF StreamInv, RingInv
  <2>. QED  BY <2>1, OwedIs DEF Owing
<1>3. Due(s) = owed
  BY DEF Due, Owed, Asked, Matches
<1>. QED  BY <1>1, <1>2, <1>3 DEF Missing

(* No silent hole: what a connection was owed and will not get is within   *)
(* its _gap, or where a _dropped marker stands or will stand.              *)
THEOREM LossAlwaysAnnounced == Spec => []LossAnnouncedInPlace
<1>1. StreamInv => LossAnnouncedInPlace
  <2>. SUFFICES ASSUME StreamInv, NEW c \in Clients, sub[c].open, NEW q \in Missing(sub[c])
                PROVE  LET w == sub[c].wrote IN
                       \/ \E i \in DOMAIN w : w[i].type = "_gap" /\ w[i].n < q /\ q < w[i].seq
                       \/ \E i \in DOMAIN w : w[i].type = "_dropped" /\ Around(w, i, q)
                       \/ sub[c].dropped > 0 /\ Around(w, Len(w) + 1, q)
                          /\ \A r \in Seqs(sub[c].queue) : q < r
    BY DEF LossAnnouncedInPlace, Around
  <2>. DEFINE s == sub[c]
              w == s.wrote
  <2>1. Noticed(w, s.queue, s.dropped, q) /\ w \in Seq(Frame)
    BY MissingIs DEF Account
  <2>2. Len(w) \in Nat /\ DOMAIN w = 1 .. Len(w)
    <3>1. w \in Seq(Frame)
      BY <2>1
    <3>. HIDE DEF w, Frame
    <3>. QED  BY <3>1
  <2>. HIDE DEF w
  <2>3. (\A x \in Seqs(w) : x < q) => Around(w, Len(w) + 1, q)
    <3>1. \A j \in DOMAIN w : ~(Len(w) + 1 < j)
      BY <2>2
    <3>2. \A j \in DOMAIN w : w[j].type = "data" => w[j].seq \in Seqs(w)
      BY DEF Seqs
    <3>. QED  BY <3>1, <3>2 DEF Around
  <2>. QED  BY <2>1, <2>3 DEF Noticed, Covered, w
<1>. QED  BY <1>1, StreamAlways, PTL

(* The counts of the markers are those of what was dropped.                *)
THEOREM DropCountsAlwaysExact == Spec => []DropCountsAreExact
<1>1. StreamInv => DropCountsAreExact
  <2>. SUFFICES ASSUME StreamInv, NEW c \in Clients, sub[c].open
                PROVE  CountOf(sub[c].wrote) + sub[c].dropped =
                         Cardinality(Missing(sub[c]) \ Evicted(sub[c]))
                         + IF IsReady(sub[c].wrote, sub[c].queue) THEN 0 ELSE 1
    BY DEF DropCountsAreExact, IsReady
  <2>. DEFINE s    == sub[c]
              w    == s.wrote
              owed == Owed(s.filter, s.base, said)
              A    == Seqs(w) \cup Seqs(s.queue)
              L    == Missing(s) \ Evicted(s)
              ready == IsReady(w, s.queue)
  <2>1. /\ Tally(w, s.queue, s.dropped, owed, TRUE) /\ GapsFirst(w, s.queue, cast + 1)
        /\ A \subseteq owed /\ w \in Seq(Frame) /\ s.dropped \in Nat
        /\ Owing(owed, cast + 1) /\ Missing(s) = owed \ A
    BY MissingIs DEF Account
  <2>2. \A q \in owed : q \in Nat
    BY <2>1 DEF Owing
  <2>3. Evicted(s) = Missing(s) \cap Covered(w)
    BY <2>1, <2>2 DEF Evicted, Covered
  <2>. HIDE DEF owed
  <2>4. A \cap Covered(w) = {}
    <3>. SUFFICES ASSUME NEW q \in A, NEW i \in DOMAIN w, w[i].type = "_gap", q < w[i].seq
                  PROVE  FALSE
      BY DEF Covered
    <3>1. w[i].seq <= q /\ w[i].seq \in Nat /\ q \in Nat
      BY <2>1, <2>2, FrameSeqs DEF GapsFirst
    <3>. QED  BY <3>1
  <2>. HIDE DEF A
  <2>5. owed \ Covered(w) = L \cup A /\ L \cap A = {} /\ L \subseteq owed
    BY <2>1, <2>3, <2>4
  <2>. HIDE DEF L
  <2>6. IsFiniteSet(A) /\ IsFiniteSet(L)
    BY <2>1, <2>5, FS_Subset DEF Owing
  <2>7. /\ Cardinality(L \cup A) = Cardinality(L) + Cardinality(A) - Cardinality(L \cap A)
        /\ Cardinality(L) \in Nat /\ Cardinality(A) \in Nat
    BY <2>6, FS_Union, FS_CardinalityType
  <2>. DEFINE n == CountOf(w)
              l == Cardinality(L)
              a == Cardinality(A)
              b == Cardinality(owed \ Covered(w))
              d == s.dropped
  <2>8. Cardinality(L \cap A) = 0
    BY <2>5, FS_EmptySet
  <2>9. b = l + a
    <3>1. b = l + a - 0 /\ l \in Nat /\ a \in Nat
      BY <2>5, <2>7, <2>8
    <3>. HIDE DEF b, l, a
    <3>. QED  BY <3>1
  <2>10. n + d + a + One(ready) = b + One(TRUE)
    BY <2>1 DEF Tally, A
  <2>11. n \in Nat /\ d \in Nat /\ l \in Nat /\ a \in Nat
    BY <2>1, <2>7, CountLaws
  <2>12. (ready => One(ready) = 1) /\ (~ready => One(ready) = 0) /\ One(TRUE) = 1
    BY DEF One
  <2>. DEFINE r == One(ready)
              g == One(TRUE)
              k == IF ready THEN 0 ELSE 1
  <2>13. r + k = 1 /\ r \in Nat /\ k \in Nat /\ g = 1
    <3>1. CASE ready
      <4>1. r = 1 /\ k = 0 /\ g = 1
        BY <2>12, <3>1
      <4>. HIDE DEF r, k, g
      <4>. QED  BY <4>1
    <3>2. CASE ~ready
      <4>1. r = 0 /\ k = 1 /\ g = 1
        BY <2>12, <3>2
      <4>. HIDE DEF r, k, g
      <4>. QED  BY <4>1
    <3>. HIDE DEF ready
    <3>. QED  BY <3>1, <3>2
  <2>. HIDE DEF n, l, a, b, d, ready, r, g, k
  <2>14. n + d + a + r = b + g
    BY <2>10 DEF r, g
  <2>15. n + d = l + k
    BY <2>9, <2>11, <2>13, <2>14
  <2>16. n + d = l + IF ready THEN 0 ELSE 1
    BY <2>15 DEF k
  <2>. QED  BY <2>16 DEF n, l, d, L, ready
<1>. QED  BY <1>1, StreamAlways, PTL

-----------------------------------------------------------------------------
(***************************************************************************)
(* The refinement: what a client of Feed got is what was written to it.    *)
(***************************************************************************)
View(s) == [open |-> s.open, filter |-> s.filter, base |-> s.base, got |-> Got(s)]

(* What a frame tells.                                                     *)
LEMMA GotIs ==
  ASSUME NEW s \in Line, \A x \in Seqs(s.wrote) : x \in Nat /\ x > 0
  PROVE  /\ DOMAIN Got(s) = DOMAIN s.wrote /\ DOMAIN s.wrote \subseteq Nat
         /\ \A i \in DOMAIN s.wrote :
              /\ F!IsSeq(Got(s)[i]) <=> s.wrote[i].type = "data"
              /\ F!IsSeq(Got(s)[i]) => Got(s)[i] = s.wrote[i].seq /\ Got(s)[i] \in Seqs(s.wrote)
              /\ s.wrote[i].type \in {"_gap", "_dropped"} => Got(s)[i] = F!Loss
<1>. DEFINE w == s.wrote
<1>1. w \in Seq(Frame)
  BY DEF Line
<1>2. DOMAIN Got(s) = DOMAIN w /\ \A i \in DOMAIN w : Got(s)[i] = Told(w[i])
  BY DEF Got
<1>3. DOMAIN w \subseteq Nat /\ \A i \in DOMAIN w : w[i] \in Frame
  <2>. HIDE DEF w, Frame
  <2>. QED  BY <1>1
<1>4. \A i \in DOMAIN w : w[i].type \in {"data", "_gap", "_dropped", "_ready"}
  BY <1>3 DEF Frame
<1>5. \A i \in DOMAIN w : w[i].type = "data" => w[i].seq \in Seqs(w)
  BY DEF Seqs
<1>. HIDE DEF w
<1>6. ASSUME NEW i \in DOMAIN w
      PROVE  /\ F!IsSeq(Told(w[i])) <=> w[i].type = "data"
             /\ w[i].type = "data" => Told(w[i]) = w[i].seq
             /\ w[i].type \in {"_gap", "_dropped"} => Told(w[i]) = F!Loss
  <2>1. CASE w[i].type = "data"
    <3>1. Told(w[i]) = w[i].seq /\ w[i].seq \in Nat /\ w[i].seq > 0
      BY <1>5, <2>1 DEF Told, w
    <3>. QED  BY <2>1, <3>1 DEF F!IsSeq, F!Loss
  <2>2. CASE w[i].type = "_ready"
    <3>1. Told(w[i]) = -1
      BY <2>2 DEF Told
    <3>. QED  BY <2>2, <3>1 DEF F!IsSeq, F!Loss
  <2>3. CASE w[i].type \in {"_gap", "_dropped"}
    <3>1. Told(w[i]) = 0
      BY <2>3 DEF Told
    <3>. QED  BY <2>3, <3>1 DEF F!IsSeq, F!Loss
  <2>. QED  BY <1>4, <2>1, <2>2, <2>3
<1>. QED  BY <1>2, <1>3, <1>5, <1>6 DEF w

(* A connection whose account is right has been told the truth.            *)
LEMMA AccountHonest ==
  ASSUME NEW s \in Line, NEW log, NEW next, Log(log, next),
         Account(s.wrote, s.queue, s.dropped, Owed(s.filter, s.base, log), next, TRUE)
  PROVE  F!Honest(View(s), log)
<1>. DEFINE w == s.wrote
            u == s.queue
            g == Got(s)
            owed == Owed(s.filter, s.base, log)
            k == View(s)
<1>1. /\ Rising(w) /\ Apart(w, u) /\ GapsFirst(w, u, next) /\ w \in Seq(Frame)
      /\ Seqs(w) \subseteq owed
      /\ \A q \in owed \ (Seqs(w) \cup Seqs(u)) : Noticed(w, u, s.dropped, q)
  BY DEF Account, InOrder
<1>2. \A q \in owed : q \in Nat /\ q > s.base /\ q > 0
  <2>1. s.base \in Nat
    BY DEF Line
  <2>2. \A q \in owed : q \in Nat /\ q > s.base
    BY OwedIs DEF Owed, Asked
  <2>. HIDE DEF owed
  <2>. QED  BY <2>1, <2>2
<1>3. /\ DOMAIN g = DOMAIN w /\ DOMAIN w \subseteq Nat
      /\ \A i \in DOMAIN w :
           /\ F!IsSeq(g[i]) <=> w[i].type = "data"
           /\ F!IsSeq(g[i]) => g[i] = w[i].seq /\ g[i] \in Seqs(w)
           /\ w[i].type \in {"_gap", "_dropped"} => g[i] = F!Loss
  BY <1>1, <1>2, GotIs
<1>4. \A x \in Seqs(w) : \E i \in DOMAIN w : w[i].type = "data" /\ g[i] = x
  BY <1>3 DEF Seqs
<1>5. k.got = g /\ k.base = s.base /\ k.filter = s.filter
  BY DEF View
<1>6. \A n \in DOMAIN log : F!Asked(k, log[n]) => log[n].seq \in owed
  BY <1>5 DEF F!Asked, Asked, Owed
<1>7. \A q \in owed : \E n \in DOMAIN log : log[n].seq = q /\ F!Asked(k, log[n])
  BY <1>5 DEF F!Asked, Asked, Owed
<1>8. \A i \in DOMAIN w : w[i].seq \in Nat
  BY <1>1, FrameSeqs
<1>. HIDE DEF w, u, g, owed, k
<1>9. F!Ordered(k)
  BY <1>1, <1>3, <1>5 DEF F!Ordered, Rising
<1>10. F!Genuine(k, log)
  BY <1>1, <1>3, <1>5, <1>7 DEF F!Genuine
<1>11. F!HolesNoticed(k, log)
  <2>. SUFFICES ASSUME NEW n \in DOMAIN log, NEW q, q = log[n].seq, F!Asked(k, log[n])
                PROVE  \/ \A i \in DOMAIN k.got : F!IsSeq(k.got[i]) => k.got[i] < q
                       \/ \E i \in DOMAIN k.got : k.got[i] = q \/ F!NoticedAt(k, i, q)
    BY DEF F!HolesNoticed
  <2>1. q \in owed /\ q \in Nat
    BY <1>2, <1>6
  <2>2. CASE q \in Seqs(w)
    BY <1>3, <1>4, <1>5, <2>2
  <2>3. CASE \A x \in Seqs(w) : x < q
    BY <1>3, <1>5, <2>3
  <2>4. CASE q \in Seqs(u)
    BY <1>1, <2>3, <2>4 DEF Apart
  <2>5. CASE q \in Covered(w)
    <3>1. PICK i \in DOMAIN w : w[i].type = "_gap" /\ q < w[i].seq
      BY <2>5 DEF Covered
    <3>2. \A j \in DOMAIN w : w[j].type = "data" => i < j /\ w[i].seq <= w[j].seq
      BY <1>1, <3>1 DEF GapsFirst, Seqs
    <3>3. \A j \in DOMAIN w : F!IsSeq(g[j]) => ~(j < i) /\ q < g[j]
      <4>. SUFFICES ASSUME NEW j \in DOMAIN w, F!IsSeq(g[j]) PROVE ~(j < i) /\ q < g[j]
        OBVIOUS
      <4>1. g[j] = w[j].seq /\ w[j].type = "data"
        BY <1>3
      <4>2. w[i].seq <= w[j].seq /\ q < w[i].seq /\ i < j /\ i \in Nat /\ j \in Nat
        BY <1>3, <3>1, <3>2, <4>1
      <4>3. w[i].seq \in Nat /\ w[j].seq \in Nat
        BY <1>8
      <4>. QED  BY <2>1, <4>1, <4>2, <4>3
    <3>4. F!NoticedAt(k, i, q)
      BY <1>3, <1>5, <3>1, <3>3 DEF F!NoticedAt
    <3>. QED  BY <1>3, <1>5, <3>4
  <2>6. ASSUME NEW i \in DOMAIN w, w[i].type = "_dropped", Around(w, i, q)
        PROVE  \E x \in DOMAIN k.got : F!NoticedAt(k, x, q)
    <3>1. F!NoticedAt(k, i, q)
      BY <1>3, <1>5, <2>6 DEF F!NoticedAt, Around
    <3>. QED  BY <1>3, <1>5, <3>1
  <2>7. CASE Noticed(w, u, s.dropped, q)
    BY <2>3, <2>5, <2>6, <2>7 DEF Noticed
  <2>. QED  BY <1>1, <2>1, <2>2, <2>4, <2>7
<1>. QED  BY <1>9, <1>10, <1>11 DEF F!Honest, k

-----------------------------------------------------------------------------
(* A sequence and a longer one that begins with it.                        *)
LEMMA Begins ==
  ASSUME NEW S, NEW a \in Seq(S), NEW b \in Seq(S), Len(a) <= Len(b),
         \A i \in DOMAIN a : b[i] = a[i]
  PROVE  F!IsPrefix(a, b)
<1>1. Len(a) \in Nat /\ Len(b) \in Nat /\ DOMAIN a = 1 .. Len(a)
  OBVIOUS
<1>2. \A i \in 1 .. Len(a) : b[i] \in S /\ a[i] \in S
  BY <1>1
<1>3. SubSeq(a, 1, Len(a)) = SubSeq(b, 1, Len(a))
  <2>1. SubSeq(a, 1, Len(a)) = [i \in 1 .. Len(a) |-> a[i]]
    BY <1>1
  <2>2. SubSeq(b, 1, Len(a)) = [i \in 1 .. Len(a) |-> b[i]]
    BY <1>1
  <2>. QED  BY <1>1, <2>1, <2>2
<1>. QED  BY <1>3 DEF F!IsPrefix

(* What goes on being written goes on being got.                           *)
LEMMA GotGrows ==
  ASSUME NEW s \in Line, NEW s2 \in Line, GoesOn(s, s2)
  PROVE  F!IsPrefix(Got(s), Got(s2))
<1>. DEFINE w == s.wrote
            z == s2.wrote
            S == Frame
<1>1. w \in Seq(S) /\ z \in Seq(S)
  BY DEF Line
<1>2. PICK t \in Seq(S) : z = w \o t
  BY DEF GoesOn
<1>3. /\ Len(w) \in Nat /\ Len(z) \in Nat /\ Len(w) <= Len(z)
      /\ DOMAIN w = 1 .. Len(w) /\ DOMAIN z = 1 .. Len(z)
      /\ \A i \in DOMAIN w : i \in DOMAIN z /\ z[i] = w[i]
  <2>. HIDE DEF w, z, S
  <2>. QED  BY <1>1, <1>2
<1>4. /\ Got(s) = [i \in 1 .. Len(w) |-> Told(w[i])]
      /\ Got(s2) = [i \in 1 .. Len(z) |-> Told(z[i])]
  BY <1>3 DEF Got
<1>. DEFINE T == {Told(z[i]) : i \in 1 .. Len(z)}
            a == [i \in 1 .. Len(w) |-> Told(w[i])]
            b == [i \in 1 .. Len(z) |-> Told(z[i])]
<1>. HIDE DEF w, z, S
<1>5. /\ a \in Seq(T) /\ b \in Seq(T) /\ Len(a) = Len(w) /\ Len(b) = Len(z)
      /\ DOMAIN a = 1 .. Len(w) /\ DOMAIN b = 1 .. Len(z)
  BY <1>3
<1>6. \A i \in DOMAIN a : b[i] = a[i]
  BY <1>3, <1>5
<1>7. Len(a) <= Len(b)
  BY <1>3, <1>5
<1>. HIDE DEF a, b, T
<1>8. F!IsPrefix(a, b)
  BY <1>5, <1>6, <1>7, Begins
<1>. QED  BY <1>4, <1>8 DEF a, b

(* A connection that has been served is told the truth.                    *)
LEMMA ServedHonest ==
  ASSUME NEW log, NEW last, Contiguous(log, last), NEW s \in Line, AllServed(s, log, last), s.open
  PROVE  s.base <= last /\ F!Honest(View(s), log)
<1>1. Log(log, last + 1)
  BY WholeLog
<1>2. s.base <= last /\ Account(s.wrote, s.queue, s.dropped, Owed(s.filter, s.base, log), last + 1, TRUE)
  BY DEF AllServed, Served, Held
<1>. QED  BY <1>1, <1>2, AccountHonest

(* The actions of Feed for one connection, in the terms of Stream.         *)
LEMMA FeedIs ==
  ASSUME NEW c \in Clients
  PROVE  /\ F!Opens(c) <=> /\ ~sub[c].open /\ sub'[c].open /\ sub'[c].base <= cast
                           /\ F!Honest(View(sub'[c]), said')
         /\ F!Receives(c) <=> /\ sub[c].open /\ sub'[c].open
                              /\ sub'[c].filter = sub[c].filter /\ sub'[c].base = sub[c].base
                              /\ F!IsPrefix(Got(sub[c]), Got(sub'[c]))
                              /\ F!Honest(View(sub'[c]), said')
         /\ F!Ends(c) <=> ~sub'[c].open
  BY DEF F!Opens, F!Receives, F!Ends, View

-----------------------------------------------------------------------------
(* Whoever is still connected after a step that opens nothing receives.    *)
LEMMA OnwardServes ==
  ASSUME StreamInv, StreamInv', Onward
  PROVE  \A c \in Clients : F!Opens(c) \/ F!Receives(c) \/ F!Ends(c)
<1>. SUFFICES ASSUME NEW c \in Clients, sub'[c].open PROVE F!Receives(c)
  BY FeedIs
<1>. DEFINE s == sub[c]
            s2 == sub'[c]
<1>1. s.open /\ GoesOn(s, s2)
  BY DEF Onward
<1>2. s \in Line /\ s2 \in Line
  BY LineType DEF StreamInv, TypeOK, Line
<1>3. F!IsPrefix(Got(s), Got(s2)) /\ s2.filter = s.filter /\ s2.base = s.base
  BY <1>1, <1>2, GotGrows DEF GoesOn
<1>4. F!Honest(View(s2), said')
  BY <1>2, ServedHonest DEF StreamInv, SubsInv, RingInv
<1>. QED  BY <1>1, <1>3, <1>4, FeedIs

(* One event more, in the end of what is said.                             *)
LEMMA BroadcastSays ==
  ASSUME StreamInv, NEW kind \in Kinds, NEW size \in Sizes, Broadcast(kind, size)
  PROVE  F!Says
<1>. DEFINE S == Event
            e == [seq |-> cast + 1, kind |-> kind, size |-> size]
            all == Append(said, e)
<1>1. said' = all /\ cast' = cast + 1 /\ cast \in Nat /\ said \in Seq(S)
  BY LineType DEF Broadcast, StreamInv
<1>2. e \in S /\ e.seq = cast + 1
  BY <1>1 DEF Event
<1>. HIDE DEF e, S
<1>3. /\ all \in Seq(S) /\ Len(all) = Len(said) + 1 /\ Len(said) \in Nat /\ all[Len(all)] = e
      /\ \A i \in DOMAIN said : all[i] = said[i]
  BY <1>1, <1>2
<1>. HIDE DEF all
<1>4. F!IsPrefix(said, all)
  <2>1. Len(said) <= Len(all)
    BY <1>3
  <2>. QED  BY <1>1, <1>3, <2>1, Begins
<1>5. F!Last(all).seq = cast + 1
  BY <1>2, <1>3 DEF F!Last
<1>6. cast' > cast
  BY <1>1
<1>. QED  BY <1>1, <1>3, <1>4, <1>5, <1>6 DEF F!Says

(* Every step of the stream is one of the feed.                            *)
LEMMA FeedSteps ==
  ASSUME StreamInv, StreamInv', [Next]_vars
  PROVE  [F!FeedNext]_F!feedVars
<1>0. /\ sub \in [Clients -> Line] /\ \A c \in Clients : sub[c] \in Line /\ AllServed(sub[c], said, cast)
  BY LineType DEF StreamInv, SubsInv
<1>1. CASE Accept
  BY <1>1 DEF Accept, F!feedVars
<1>2. ASSUME NEW kind \in Kinds, NEW size \in Sizes, Broadcast(kind, size)
      PROVE  F!Serve
  <2>. DEFINE e == [seq |-> cast + 1, kind |-> kind, size |-> size]
  <2>1. e \in Event /\ e.seq = cast + 1
    BY LineType DEF Event, StreamInv
  <2>2. \A c \in Clients : sub'[c] \in Heard(sub[c], e)
    BY <1>2 DEF Broadcast
  <2>. HIDE DEF e
  <2>3. Onward
    BY <1>0, <2>1, <2>2, HeardServes DEF Onward
  <2>. QED  BY <1>2, <2>3, OnwardServes, BroadcastSays DEF F!Serve
<1>3. ASSUME UNCHANGED <<said, cast>> PROVE F!Says
  BY <1>3 DEF F!Says
<1>4. ASSUME NEW c \in Clients, NEW cursor \in 0 .. MaxSeq + 1 \cup {NoCursor},
             NEW filter \in Kinds \cup {All}, Connect(c, cursor, filter)
      PROVE  F!Serve
  <2>. DEFINE s2 == sub'[c]
  <2>1. /\ sub' = [sub EXCEPT ![c] = s2] /\ ~sub[c].open
        /\ s2 \in Line /\ AllServed(s2, said, cast)
    BY <1>4, ConnectServes
  <2>2. UNCHANGED <<said, cast>>
    BY <1>4 DEF Connect
  <2>3. F!Opens(c) \/ F!Ends(c)
    BY <2>1, <2>2, ServedHonest, FeedIs DEF StreamInv, RingInv
  <2>4. ASSUME NEW x \in Clients \ {c} PROVE F!Receives(x) \/ F!Ends(x)
    <3>1. sub'[x] = sub[x]
      BY <1>0, <2>1
    <3>2. sub[x] \in Line /\ GoesOn(sub[x], sub[x])
      BY <1>0, Stays
    <3>3. F!IsPrefix(Got(sub[x]), Got(sub[x]))
      BY <3>2, GotGrows
    <3>4. sub[x].open => F!Honest(View(sub[x]), said)
      BY <1>0, ServedHonest DEF StreamInv, RingInv
    <3>. QED  BY <2>2, <3>1, <3>3, <3>4, FeedIs
  <2>. QED  BY <1>3, <2>2, <2>3, <2>4 DEF F!Serve
<1>5. ASSUME NEW c \in Clients, Drain(c) PROVE F!Serve
  <2>1. PICK s2 \in Pump([sub[c] EXCEPT !.writing = FALSE]) : sub' = [sub EXCEPT ![c] = s2]
    BY <1>5 DEF Drain
  <2>2. s2.open => sub[c].open /\ GoesOn(sub[c], s2)
    BY <1>0, <1>5, DrainServes DEF Drain
  <2>3. \A x \in Clients : sub'[x] = sub[x] \/ (x = c /\ sub'[x] = s2)
    BY <1>0, <2>1
  <2>4. Onward
    BY <1>0, <2>2, <2>3, Stays DEF Onward
  <2>5. UNCHANGED <<said, cast>>
    BY <1>5 DEF Drain
  <2>. QED  BY <1>3, <2>4, <2>5, OnwardServes DEF F!Serve
<1>6. ASSUME NEW c \in Clients, Close(c) PROVE F!Serve
  <2>1. sub' = [sub EXCEPT ![c] = Off] /\ UNCHANGED <<said, cast>>
    BY <1>6 DEF Close
  <2>2. \A x \in Clients : sub'[x] = sub[x] \/ sub'[x] = Off
    BY <1>0, <2>1
  <2>3. Onward
    BY <1>0, <2>2, Stays, OffIs DEF Onward
  <2>. QED  BY <1>3, <2>1, <2>3, OnwardServes DEF F!Serve
<1>7. CASE CloseAllSubscribers
  <2>1. (\A c \in Clients : ~sub'[c].open) /\ UNCHANGED <<said, cast>>
    BY <1>7, OffIs DEF CloseAllSubscribers
  <2>2. Onward
    BY <2>1 DEF Onward
  <2>. QED  BY <1>3, <2>1, <2>2, OnwardServes DEF F!Serve, F!FeedNext
<1>8. CASE Restart
  <2>1. (\A c \in Clients : ~sub'[c].open) /\ said' = <<>>
    BY <1>8, OffIs DEF Restart
  <2>. QED  BY <2>1, FeedIs DEF F!Renew, F!FeedNext
<1>9. CASE UNCHANGED vars
  BY <1>9 DEF vars, F!feedVars
<1>. QED  BY <1>1, <1>2, <1>4, <1>5, <1>6, <1>7, <1>8, <1>9 DEF Next, F!FeedNext

(* The live stream implements the feed: in whatever order connections      *)
(* come, fall behind, drain and resume, and wherever their writes stop, a  *)
(* client is told each event it asked for once and in order, with a notice *)
(* wherever it missed some before one that came.                           *)
THEOREM StreamIsAFeed == Spec => IsAFeed
<1>1. Init => F!FeedInit
  BY OffIs DEF Init, F!FeedInit
<1>2. StreamInv /\ StreamInv' /\ [Next]_vars => [F!FeedNext]_F!feedVars
  BY FeedSteps
<1>3. Spec => F!FeedSpec
  BY <1>1, <1>2, StreamAlways, PTL DEF Spec, F!FeedSpec
<1>. QED  BY <1>3 DEF IsAFeed
=============================================================================
