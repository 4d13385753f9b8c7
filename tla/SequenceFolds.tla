----------------------------- MODULE SequenceFolds -----------------------------
(***************************************************************************)
(* What FoldLeft computes, from one element to the next.  The collector    *)
(* sums the sizes of queued rows and the guard runs a command line through *)
(* its judgement with a fold; their proofs instantiate this module with    *)
(* the operator they fold.  It rests on induction over the numbers, which  *)
(* is proved first, from the fact that finite sets are well founded under  *)
(* strict inclusion.                                                       *)
(***************************************************************************)
EXTENDS Naturals, SequencesExt, FiniteSetTheorems, TLAPS

CONSTANT op(_, _)

(* Every non-empty set of numbers has a least element.                     *)
LEMMA LeastNumber ==
  ASSUME NEW T, T \subseteq Nat, T # {}
  PROVE  \E x \in T : \A y \in T : x <= y
<1>. DEFINE I(n) == 0 .. n
            U == {I(x) : x \in T}
<1>1. \A n \in Nat : IsFiniteSet(I(n))
  BY FS_Interval
<1>2. U \subseteq FiniteSubsetsOf(Nat)
  BY <1>1 DEF FiniteSubsetsOf
<1>3. U # {}
  OBVIOUS
<1>. HIDE DEF U
<1>4. \E u \in U : \A v \in U : <<v, u>> \notin StrictSubsetOrdering(Nat)
  BY <1>2, <1>3, FS_StrictSubsetOrderingWellFounded, WFMin
<1>5. PICK x \in T : \A y \in T : <<I(y), I(x)>> \notin StrictSubsetOrdering(Nat)
  BY <1>4 DEF U
<1>6. \A y \in T : ~(y < x)
  <2>. SUFFICES ASSUME NEW y \in T, y < x PROVE FALSE
    OBVIOUS
  <2>1. I(y) \subseteq I(x) /\ x \in I(x) /\ x \notin I(y) /\ I(x) \subseteq Nat
    BY x \in Nat, y \in Nat
  <2>. HIDE DEF I
  <2>. QED  BY <2>1, <1>5 DEF StrictSubsetOrdering
<1>. QED  BY <1>6

(* A set that holds 0 and the successor of each of its numbers holds all.  *)
LEMMA Induction ==
  ASSUME NEW T, 0 \in T, \A n \in T \cap Nat : n + 1 \in T
  PROVE  Nat \subseteq T
<1>. SUFFICES ASSUME Nat \ T # {} PROVE FALSE
  OBVIOUS
<1>1. PICK x \in Nat \ T : \A y \in Nat \ T : x <= y
  BY LeastNumber
<1>2. x # 0 /\ x - 1 \in Nat /\ (x - 1) + 1 = x
  OBVIOUS
<1>3. x - 1 \in T
  BY <1>1, <1>2
<1>. QED  BY <1>2, <1>3

(* A set that holds the empty sequence and each of its sequences with one  *)
(* more element holds all.                                                 *)
LEMMA SequenceInduction ==
  ASSUME NEW S, NEW T, << >> \in T, \A u \in T \cap Seq(S), x \in S : Append(u, x) \in T
  PROVE  Seq(S) \subseteq T
<1>. SUFFICES ASSUME NEW s \in Seq(S) PROVE s \in T
  OBVIOUS
<1>. DEFINE N == {n \in Nat : n <= Len(s) => SubSeq(s, 1, n) \in T}
<1>1. 0 \in N
  <2>1. SubSeq(s, 1, 0) = << >>
    OBVIOUS
  <2>. QED  BY <2>1
<1>2. ASSUME NEW n \in N, n + 1 <= Len(s) PROVE SubSeq(s, 1, n + 1) \in T
  <2>. DEFINE front == SubSeq(s, 1, n)
              x == s[n + 1]
  <2>1. n \in Nat /\ n <= Len(s) /\ front \in T
    BY <1>2
  <2>2. front \in Seq(S) /\ x \in S /\ SubSeq(s, 1, n + 1) = Append(front, x)
    BY <1>2, <2>1
  <2>. HIDE DEF front, x
  <2>. QED  BY <2>1, <2>2
<1>3. \A n \in N \cap Nat : n + 1 \in N
  BY <1>2
<1>. HIDE DEF N
<1>4. Len(s) \in N
  BY <1>1, <1>3, Induction
<1>5. SubSeq(s, 1, Len(s)) = s /\ Len(s) <= Len(s)
  OBVIOUS
<1>. QED  BY <1>4, <1>5 DEF N

(* The greatest index of a non-empty set of indices.                       *)
LEMMA MaxIndex ==
  ASSUME NEW n \in Nat, NEW t \in SUBSET (1 .. n), t # {}
  PROVE  /\ Max(t) \in t /\ \A y \in t : y <= Max(t)
         /\ t \ {Max(t)} \in SUBSET (1 .. Max(t) - 1)
<1>. DEFINE U == {u \in Nat : \A y \in t : y <= u}
<1>1. n \in U
  OBVIOUS
<1>2. PICK u \in U : \A v \in U : u <= v
  BY <1>1, LeastNumber
<1>3. u \in t
  <2>. SUFFICES ASSUME u \notin t PROVE FALSE
    OBVIOUS
  <2>1. u \in Nat /\ \A y \in t : y \in Nat /\ y # 0 /\ y <= u /\ y # u
    OBVIOUS
  <2>2. u # 0
    <3>1. PICK y \in t : TRUE
      OBVIOUS
    <3>. QED  BY <2>1, <3>1
  <2>3. u - 1 \in Nat /\ \A y \in t : y <= u - 1
    BY <2>1, <2>2
  <2>4. u - 1 \in U
    BY <2>3
  <2>. QED  BY <1>2, <2>1, <2>4
<1>4. \A y \in t : u >= y
  OBVIOUS
<1>5. Max(t) \in t /\ \A y \in t : Max(t) >= y
  BY <1>3, <1>4 DEF Max
<1>6. t \ {Max(t)} \in SUBSET (1 .. Max(t) - 1)
  <2>. DEFINE m == Max(t)
  <2>1. \A y \in t : y \in Nat /\ 1 <= y
    OBVIOUS
  <2>2. m \in t /\ m \in Nat /\ \A y \in t : y <= m
    BY <1>5, <2>1
  <2>. HIDE DEF m
  <2>3. \A y \in t : y # m => y \in 1 .. m - 1
    BY <2>1, <2>2
  <2>. QED  BY <2>3 DEF m
<1>. QED  BY <1>5, <1>6

-----------------------------------------------------------------------------
(* Folds(f, base, s, n): f is the fold of s over every set of its first n  *)
(* indices.  FoldLeft chooses such an f for n the length of s.             *)
Folded(f, base, s, t) == IF t = {} THEN base ELSE op(f[t \ {Max(t)}], s[Max(t)])
Folds(f, base, s, n) == f = [t \in SUBSET (1 .. n) |-> Folded(f, base, s, t)]

LEMMA FoldsAt ==
  ASSUME NEW f, NEW base, NEW s, NEW n, Folds(f, base, s, n), NEW t \in SUBSET (1 .. n)
  PROVE  f[t] = Folded(f, base, s, t)
<1>. DEFINE g == [u \in SUBSET (1 .. n) |-> Folded(f, base, s, u)]
<1>1. f = g
  BY DEF Folds
<1>2. g[t] = Folded(f, base, s, t)
  OBVIOUS
<1>. QED  BY <1>1, <1>2, Zenon

(* Two folds agree on the indices on which their sequences do.             *)
LEMMA FoldsAgree ==
  ASSUME NEW n \in Nat, NEW m \in Nat, n <= m, NEW base, NEW f, NEW g, NEW s, NEW r,
         Folds(f, base, s, n), Folds(g, base, r, m), \A i \in 1 .. n : s[i] = r[i]
  PROVE  \A t \in SUBSET (1 .. n) : f[t] = g[t]
<1>. DEFINE T == {k \in Nat : k <= n => \A t \in SUBSET (1 .. k) : f[t] = g[t]}
<1>1. \A t \in SUBSET (1 .. n) : f[t] = Folded(f, base, s, t) /\ g[t] = Folded(g, base, r, t)
  <2>. SUFFICES ASSUME NEW t \in SUBSET (1 .. n)
                PROVE  f[t] = Folded(f, base, s, t) /\ g[t] = Folded(g, base, r, t)
    OBVIOUS
  <2>1. t \in SUBSET (1 .. m)
    OBVIOUS
  <2>. QED  BY <2>1, FoldsAt
<1>2. 0 \in T
  <2>1. SUBSET (1 .. 0) = {{}} /\ {} \in SUBSET (1 .. n)
    OBVIOUS
  <2>2. f[{}] = base /\ g[{}] = base
    BY <1>1, <2>1 DEF Folded
  <2>. QED  BY <2>1, <2>2
<1>3. ASSUME NEW k \in T, k + 1 <= n, NEW t \in SUBSET (1 .. k + 1)
      PROVE  f[t] = g[t]
  <2>1. k \in Nat /\ k <= n /\ t \in SUBSET (1 .. n)
    BY <1>3
  <2>2. CASE t = {}
    BY <1>1, <2>1, <2>2 DEF Folded
  <2>3. CASE t # {}
    <3>1. /\ Max(t) \in t /\ t \ {Max(t)} \in SUBSET (1 .. Max(t) - 1)
          /\ Max(t) \in 1 .. k + 1
      BY <2>1, <2>3, MaxIndex
    <3>2. t \ {Max(t)} \in SUBSET (1 .. k)
      BY <2>1, <3>1
    <3>3. f[t \ {Max(t)}] = g[t \ {Max(t)}] /\ s[Max(t)] = r[Max(t)]
      BY <2>1, <3>1, <3>2
    <3>. QED  BY <1>1, <2>1, <2>3, <3>3 DEF Folded
  <2>. QED  BY <2>2, <2>3
<1>4. \A k \in T \cap Nat : k + 1 \in T
  BY <1>3
<1>. HIDE DEF T
<1>5. Nat \subseteq T
  BY <1>2, <1>4, Induction
<1>. QED  BY <1>5 DEF T

(* Every sequence has a fold, over any number of its indices.              *)
LEMMA FoldsExist ==
  ASSUME NEW base, NEW s, NEW n \in Nat
  PROVE  \E f : Folds(f, base, s, n)
<1>. DEFINE T == {k \in Nat : \E f : Folds(f, base, s, k)}
<1>1. 0 \in T
  <2>. DEFINE f == [t \in SUBSET (1 .. 0) |-> base]
  <2>1. SUBSET (1 .. 0) = {{}}
    OBVIOUS
  <2>2. \A t \in SUBSET (1 .. 0) : Folded(f, base, s, t) = base
    BY <2>1 DEF Folded
  <2>3. Folds(f, base, s, 0)
    BY <2>2 DEF Folds
  <2>. QED  BY <2>3
<1>2. ASSUME NEW k \in T
      PROVE  k + 1 \in T
  <2>1. k \in Nat
    OBVIOUS
  <2>2. PICK f : Folds(f, base, s, k)
    OBVIOUS
  <2>. DEFINE g == [t \in SUBSET (1 .. k + 1) |-> Folded(f, base, s, t)]
  <2>3. ASSUME NEW t \in SUBSET (1 .. k)
        PROVE  g[t] = f[t]
    <3>1. t \in SUBSET (1 .. k + 1)
      BY <2>1
    <3>. QED  BY <2>2, <3>1, FoldsAt
  <2>4. ASSUME NEW t \in SUBSET (1 .. k + 1)
        PROVE  Folded(g, base, s, t) = Folded(f, base, s, t)
    <3>1. CASE t = {}
      BY <3>1 DEF Folded
    <3>2. CASE t # {}
      <4>. k + 1 \in Nat
        BY <2>1
      <4>1. /\ t \ {Max(t)} \in SUBSET (1 .. Max(t) - 1)
            /\ Max(t) \in 1 .. k + 1
        BY <3>2, MaxIndex
      <4>2. t \ {Max(t)} \in SUBSET (1 .. k)
        BY <2>1, <4>1
      <4>3. g[t \ {Max(t)}] = f[t \ {Max(t)}]
        BY <2>3, <4>2
      <4>. QED  BY <4>3 DEF Folded
    <3>. QED  BY <3>1, <3>2
  <2>5. Folds(g, base, s, k + 1)
    BY <2>4 DEF Folds
  <2>. QED  BY <2>1, <2>5
<1>. HIDE DEF T
<1>3. Nat \subseteq T
  BY <1>1, <1>2, Induction
<1>. QED  BY <1>3 DEF T

-----------------------------------------------------------------------------
Value(base, s) == FoldLeft(op, base, s)

LEMMA ValueIs ==
  ASSUME NEW base, NEW s, NEW n \in Nat, DOMAIN s = 1 .. n
  PROVE  \E f : Folds(f, base, s, n) /\ Value(base, s) = f[1 .. n]
<1>. DEFINE iter == CHOOSE f : f = [t \in SUBSET DOMAIN s |->
                                      IF t = {} THEN base ELSE op(f[t \ {Max(t)}], s[Max(t)])]
<1>1. Value(base, s) = iter[DOMAIN s]
  BY DEF Value, FoldLeft, MapThenFoldSet
<1>2. iter = CHOOSE f : Folds(f, base, s, n)
  BY DEF Folds, Folded
<1>. HIDE DEF iter
<1>3. Folds(iter, base, s, n)
  BY <1>2, FoldsExist
<1>. QED  BY <1>1, <1>3

(* The fold of nothing.                                                    *)
LEMMA ValueEmpty ==
  ASSUME NEW base
  PROVE  Value(base, << >>) = base
<1>1. DOMAIN << >> = 1 .. 0 /\ {} = 1 .. 0
  OBVIOUS
<1>2. PICK f : Folds(f, base, << >>, 0) /\ Value(base, << >>) = f[1 .. 0]
  BY <1>1, ValueIs
<1>3. f[{}] = base
  BY <1>1, <1>2, FoldsAt DEF Folded
<1>. QED  BY <1>1, <1>2, <1>3

(* The fold of one element more.                                           *)
LEMMA ValueAppend ==
  ASSUME NEW base, NEW S, NEW s \in Seq(S), NEW x \in S
  PROVE  Value(base, Append(s, x)) = op(Value(base, s), x)
<1>. DEFINE n == Len(s)
            a == Append(s, x)
<1>1. /\ n \in Nat /\ n <= n + 1 /\ DOMAIN s = 1 .. n /\ DOMAIN a = 1 .. n + 1
      /\ a[n + 1] = x /\ \A i \in 1 .. n : s[i] = a[i]
  OBVIOUS
<1>. HIDE DEF n, a
<1>2. PICK f : Folds(f, base, s, n) /\ Value(base, s) = f[1 .. n]
  BY <1>1, ValueIs
<1>3. PICK g : Folds(g, base, a, n + 1) /\ Value(base, a) = g[1 .. n + 1]
  BY <1>1, ValueIs
<1>4. f[1 .. n] = g[1 .. n]
  BY <1>1, <1>2, <1>3, FoldsAgree
<1>. DEFINE t == 1 .. n + 1
<1>5. t # {} /\ t \in SUBSET (1 .. n + 1) /\ n + 1 \in t /\ t \ {n + 1} = 1 .. n
  BY <1>1
<1>6. Max(t) = n + 1
  <2>1. Max(t) \in t /\ \A y \in t : y <= Max(t)
    <3>1. n + 1 \in Nat /\ t \in SUBSET (1 .. n + 1) /\ t # {}
      BY <1>1, <1>5
    <3>. HIDE DEF t
    <3>. QED  BY <3>1, MaxIndex
  <2>2. Max(t) \in Nat /\ Max(t) <= n + 1 /\ n + 1 <= Max(t)
    BY <1>1, <1>5, <2>1
  <2>. QED  BY <1>1, <2>2
<1>7. g[t] = op(g[1 .. n], x)
  <2>1. g[t] = Folded(g, base, a, t)
    BY <1>3, <1>5, FoldsAt
  <2>. QED  BY <1>1, <1>5, <1>6, <2>1 DEF Folded
<1>. QED  BY <1>2, <1>3, <1>4, <1>7 DEF a

(* A fold stays where its operator stays.                                  *)
LEMMA ValueType ==
  ASSUME NEW base, NEW S, NEW V, base \in V, \A v \in V, x \in S : op(v, x) \in V,
         NEW s \in Seq(S)
  PROVE  Value(base, s) \in V
<1>. DEFINE T == {u \in Seq(S) : Value(base, u) \in V}
<1>1. << >> \in T
  <2>1. << >> \in Seq(S)
    OBVIOUS
  <2>. QED  BY <2>1, ValueEmpty
<1>2. ASSUME NEW u \in T, NEW x \in S PROVE Append(u, x) \in T
  <2>1. u \in Seq(S) /\ Append(u, x) \in Seq(S) /\ Value(base, u) \in V
    OBVIOUS
  <2>2. Value(base, Append(u, x)) = op(Value(base, u), x)
    BY <2>1, ValueAppend
  <2>. QED  BY <2>1, <2>2
<1>. HIDE DEF T
<1>3. s \in T
  BY <1>1, <1>2, SequenceInduction
<1>. QED  BY <1>3 DEF T

(* A fold over two sequences goes on where the first one ended.            *)
LEMMA ValueConcat ==
  ASSUME NEW base, NEW S, NEW s \in Seq(S), NEW t \in Seq(S)
  PROVE  Value(base, s \o t) = Value(Value(base, s), t)
<1>. DEFINE T == {u \in Seq(S) : Value(base, s \o u) = Value(Value(base, s), u)}
<1>1. << >> \in T
  <2>1. s \o << >> = s /\ << >> \in Seq(S)
    OBVIOUS
  <2>. QED  BY <2>1, ValueEmpty
<1>2. ASSUME NEW u \in T, NEW x \in S PROVE Append(u, x) \in T
  <2>1. /\ u \in Seq(S) /\ s \o u \in Seq(S) /\ Append(u, x) \in Seq(S)
        /\ s \o Append(u, x) = Append(s \o u, x)
    OBVIOUS
  <2>. DEFINE both == s \o u
              b    == Value(base, s)
  <2>2. both \in Seq(S) /\ Value(base, both) = Value(b, u)
    BY <2>1
  <2>. HIDE DEF both, b, T
  <2>3. Value(base, Append(both, x)) = op(Value(base, both), x)
    BY <2>2, ValueAppend
  <2>4. Value(b, Append(u, x)) = op(Value(b, u), x)
    BY <2>1, ValueAppend
  <2>5. Value(base, Append(both, x)) = Value(b, Append(u, x))
    BY <2>2, <2>3, <2>4
  <2>. QED  BY <2>1, <2>5 DEF both, b, T
<1>. HIDE DEF T
<1>3. t \in T
  BY <1>1, <1>2, SequenceInduction
<1>. QED  BY <1>3 DEF T

(* A fold that adds: what each element adds does not depend on the rest.   *)
LEMMA ValueAdds ==
  ASSUME NEW S, \A v \in Nat, x \in S : op(0, x) \in Nat /\ op(v, x) = v + op(0, x),
         NEW base \in Nat, NEW s \in Seq(S)
  PROVE  Value(0, s) \in Nat /\ Value(base, s) = base + Value(0, s)
<1>. DEFINE T == {u \in Seq(S) : Value(0, u) \in Nat /\ Value(base, u) = base + Value(0, u)}
<1>1. << >> \in T
  <2>1. << >> \in Seq(S)
    OBVIOUS
  <2>. QED  BY <2>1, ValueEmpty
<1>2. ASSUME NEW u \in T, NEW x \in S PROVE Append(u, x) \in T
  <2>1. u \in Seq(S) /\ Append(u, x) \in Seq(S)
    OBVIOUS
  <2>2. /\ Value(base, Append(u, x)) = op(Value(base, u), x)
        /\ Value(0, Append(u, x)) = op(Value(0, u), x)
    BY <2>1, ValueAppend
  <2>3. Value(0, u) \in Nat /\ Value(base, u) = base + Value(0, u) /\ Value(base, u) \in Nat
    OBVIOUS
  <2>. DEFINE v == Value(0, u)
              w == Value(base, u)
              y == op(0, x)
  <2>4. y \in Nat /\ op(v, x) = v + y /\ op(w, x) = w + y
    BY <2>3
  <2>5. /\ Value(0, Append(u, x)) = v + y /\ Value(base, Append(u, x)) = w + y
        /\ v \in Nat /\ w = base + v
    BY <2>2, <2>3, <2>4
  <2>. HIDE DEF v, w, y
  <2>6. v + y \in Nat /\ w + y = base + (v + y)
    BY <2>4, <2>5
  <2>. QED  BY <2>1, <2>5, <2>6
<1>. HIDE DEF T
<1>3. s \in T
  BY <1>1, <1>2, SequenceInduction
<1>. QED  BY <1>3 DEF T

(* The fold without the library's operators: the form in which a module    *)
(* that instantiates this one under a name, having more than one operator  *)
(* to fold, recognises its own FoldLeft.                                   *)
Unfolded(base, s) ==
  LET iter[t \in SUBSET DOMAIN s] ==
        IF t = {} THEN base
        ELSE LET x == CHOOSE x \in t : \A y \in t : x >= y IN op(iter[t \ {x}], s[x])
  IN iter[DOMAIN s]

LEMMA ValueUnfolded ==
  ASSUME NEW base, NEW s
  PROVE  Value(base, s) = Unfolded(base, s)
  BY DEF Value, Unfolded, FoldLeft, MapThenFoldSet, Max
=============================================================================
