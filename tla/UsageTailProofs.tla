----------------------------- MODULE UsageTailProofs -----------------------------
(***************************************************************************)
(* Proofs about UsageTail, for any number of transcripts and lines, and    *)
(* wherever reads end, fail, are repeated or meet each other.              *)
(***************************************************************************)
EXTENDS UsageTail, TLAPS

(* Its induction over numbers is what is used here.                        *)
INSTANCE SequenceFolds WITH op <- Merged

Line == [msg : Nat \ {0}, tool : BOOLEAN, side : BOOLEAN]
Row == [file : Files, msg : Nat, emitted : SUBSET Nat, follows : SUBSET Nat]

(* A transcript: the messages one after the other, each on one chain.      *)
Transcript(l) ==
  /\ l \in Seq(Line)
  /\ \A i, j \in DOMAIN l : /\ i <= j => l[i].msg <= l[j].msg
                            /\ l[i].msg = l[j].msg => l[i].side = l[j].side

Ids(l, m) == {n \in DOMAIN l : l[n].msg = m /\ l[n].tool}
IsSide(l, m) == \E n \in DOMAIN l : l[n].msg = m /\ l[n].side

(* The last main-chain message of the first n lines, and the one before    *)
(* message x; 0 when there is none.                                        *)
LastMain(l, n, m) ==
  /\ m = 0 \/ \E k \in 1 .. n : ~l[k].side /\ l[k].msg = m
  /\ \A k \in 1 .. n : ~l[k].side => l[k].msg <= m
Before(l, x, m) ==
  /\ m = 0 \/ \E k \in DOMAIN l : ~l[k].side /\ l[k].msg = m /\ m < x
  /\ \A k \in DOMAIN l : ~l[k].side /\ l[k].msg < x => l[k].msg <= m

(* The ids message x may follow, and those a bookmark after n lines may    *)
(* carry on.                                                               *)
Follows(l, x, ids) ==
  IF IsSide(l, x) THEN ids = {} ELSE \E m \in Nat : Before(l, x, m) /\ ids \subseteq Ids(l, m)
Carried(l, n, last) ==
  last \in SUBSET Nat /\ \E m \in Nat : LastMain(l, n, m) /\ last \subseteq Ids(l, m)

RowOk(l, r) ==
  /\ \E n \in DOMAIN l : l[n].msg = r.msg
  /\ r.emitted \subseteq Ids(l, r.msg) /\ Follows(l, r.msg, r.follows)

Table(rows) ==
  /\ rows \subseteq Row /\ \A r \in rows : RowOk(lines[r.file], r)
  /\ \A r, s \in rows : r.file = s.file /\ r.msg = s.msg => r = s

Has(rows, f, m, ids) == \E r \in rows : r.file = f /\ r.msg = m /\ ids \subseteq r.emitted
Covers(new, old) == \A r \in old : Has(new, r.file, r.msg, r.emitted)
InTable(rows, f, l, n) == \A k \in 1 .. n : Has(rows, f, l[k].msg, IdsOf(k, l[k]))

-----------------------------------------------------------------------------
(* What is in a table is in one that covers it.                            *)
LEMMA HasMore ==
  ASSUME NEW new, NEW old, Covers(new, old), NEW f, NEW m, NEW ids, Has(old, f, m, ids)
  PROVE  Has(new, f, m, ids)
  BY DEF Covers, Has

(* And covering is transitive.                                             *)
LEMMA CoversMore ==
  ASSUME NEW a, NEW b, NEW c, Covers(b, a), Covers(c, b)
  PROVE  Covers(c, a)
  BY DEF Covers, Has

(* The ids of a line are ids of its message.                               *)
LEMMA LineIds ==
  ASSUME NEW l, Transcript(l), NEW k \in DOMAIN l
  PROVE  /\ IdsOf(k, l[k]) \subseteq Ids(l, l[k].msg) /\ IdsOf(k, l[k]) \subseteq Nat
         /\ l[k] \in Line /\ l[k].msg \in Nat \ {0} /\ l[k].side \in BOOLEAN /\ k \in Nat
<1>1. k \in Nat /\ l[k] \in Line
  BY DEF Transcript
<1>. QED  BY <1>1 DEF IdsOf, Ids, Line

(* A message that is flushed gets its row, and no row loses anything.      *)
LEMMA Upsert ==
  ASSUME NEW rows, Table(rows), NEW f \in Files, NEW cur \in Message,
         \E n \in DOMAIN lines[f] : lines[f][n].msg = cur.msg,
         cur.emitted \subseteq Ids(lines[f], cur.msg),
         Follows(lines[f], cur.msg, cur.follows) \/ Has(rows, f, cur.msg, {})
  PROVE  /\ Table(Upserted(rows, f, cur)) /\ Covers(Upserted(rows, f, cur), rows)
         /\ Has(Upserted(rows, f, cur), f, cur.msg, cur.emitted)
<1>. DEFINE old == {r \in rows : r.file = f /\ r.msg = cur.msg}
            new == Upserted(rows, f, cur)
<1>c. /\ cur.msg \in Nat /\ cur.emitted \in SUBSET Nat /\ cur.follows \in SUBSET Nat
  BY DEF Message
<1>1. CASE old = {}
  <2>. DEFINE r == [file |-> f, msg |-> cur.msg, emitted |-> cur.emitted, follows |-> cur.follows]
  <2>1. new = rows \cup {r}
    BY <1>1 DEF Upserted
  <2>2. /\ r \in Row /\ r.file = f /\ r.msg = cur.msg /\ r.emitted = cur.emitted
        /\ r.follows = cur.follows
    BY <1>c DEF Row
  <2>. HIDE DEF r, new
  <2>3. RowOk(lines[f], r)
    BY <1>1, <2>2 DEF RowOk, Has
  <2>4. \A q \in rows : ~(q.file = r.file /\ q.msg = r.msg)
    BY <1>1, <2>2
  <2>5. Table(new)
    BY <2>1, <2>2, <2>3, <2>4 DEF Table
  <2>. QED  BY <2>1, <2>2, <2>5 DEF Covers, Has, new
<1>2. CASE old # {}
  <2>1. PICK r \in rows : r.file = f /\ r.msg = cur.msg
    BY <1>2
  <2>2. old = {r}
    BY <2>1 DEF Table
  <2>3. r \in Row
    BY DEF Table
  <2>. DEFINE q == [r EXCEPT !.emitted = r.emitted \cup cur.emitted]
  <2>4. new = (rows \ {r}) \cup {q}
    BY <1>2, <2>2 DEF Upserted, Merged
  <2>5. /\ q \in Row /\ q.file = f /\ q.msg = cur.msg /\ q.emitted = r.emitted \cup cur.emitted
        /\ q.follows = r.follows
    BY <1>c, <2>1, <2>3 DEF Row
  <2>. HIDE DEF q, new, old
  <2>6. RowOk(lines[f], r)
    BY <2>1 DEF Table
  <2>7. RowOk(lines[f], q)
    BY <2>1, <2>5, <2>6 DEF RowOk
  <2>8. \A p \in rows \ {r} : ~(p.file = q.file /\ p.msg = q.msg)
    BY <2>1, <2>5 DEF Table
  <2>9. Table(new)
    BY <2>4, <2>5, <2>7, <2>8 DEF Table
  <2>10. Covers(new, rows)
    BY <2>1, <2>4, <2>5 DEF Covers, Has
  <2>. QED  BY <2>4, <2>5, <2>9, <2>10 DEF Has, new
<1>. QED  BY <1>1, <1>2

-----------------------------------------------------------------------------
(***************************************************************************)
(* The fold over the lines of one read: after n lines of f, each of them   *)
(* is in the rows, or is of the message under way.                         *)
(***************************************************************************)
State == [file : Files, cur : Message \cup {NoMessage}, last : SUBSET Nat, rows : SUBSET Row]

UnderWay(l, f, n, cur, rows) ==
  /\ cur \in Message /\ n \in DOMAIN l /\ cur.msg = l[n].msg /\ cur.side = l[n].side
  /\ cur.emitted \subseteq Ids(l, cur.msg)
  /\ Follows(l, cur.msg, cur.follows) \/ Has(rows, f, cur.msg, {})
  /\ \A k \in 1 .. n : \/ Has(rows, f, l[k].msg, IdsOf(k, l[k]))
                       \/ l[k].msg = cur.msg /\ IdsOf(k, l[k]) \subseteq cur.emitted

Good(st, f, n, old) ==
  LET l == lines[f] IN
  /\ st \in State /\ st.file = f /\ Table(st.rows) /\ Covers(st.rows, old)
  /\ IF st.cur = NoMessage THEN InTable(st.rows, f, l, n)
     ELSE UnderWay(l, f, n, st.cur, st.rows)
  /\ st.cur = NoMessage \/ st.cur.side => Carried(l, n, st.last)

(* Flushing keeps that, and leaves no message under way.                   *)
LEMMA FlushGood ==
  ASSUME NEW f \in Files, Transcript(lines[f]), NEW n \in 0 .. Len(lines[f]), NEW old,
         NEW st, Good(st, f, n, old)
  PROVE  Good(Flush(st), f, n, old) /\ Flush(st).cur = NoMessage
<1>. DEFINE l == lines[f]
            new == Flush(st)
<1>1. CASE st.cur = NoMessage
  BY <1>1 DEF Flush
<1>2. CASE st.cur # NoMessage
  <2>. DEFINE cur  == st.cur
              rows == Upserted(st.rows, f, cur)
              last == LastOf(st.last, cur)
  <2>0. /\ st \in State /\ st.file = f /\ Table(st.rows) /\ Covers(st.rows, old)
        /\ UnderWay(l, f, n, cur, st.rows) /\ (cur.side => Carried(l, n, st.last))
    BY <1>2 DEF Good
  <2>1. cur \in Message /\ n \in DOMAIN l /\ l[n] \in Line /\ cur.emitted \in SUBSET Nat
    BY <2>0 DEF UnderWay, Message, Transcript
  <2>2. Table(rows) /\ Covers(rows, st.rows) /\ Has(rows, f, cur.msg, cur.emitted)
    BY <2>0, <2>1, Upsert DEF UnderWay
  <2>3. new = [st EXCEPT !.cur = NoMessage, !.last = last, !.rows = rows]
    BY <1>2, <2>0 DEF Flush
  <2>. HIDE DEF rows, new, cur
  <2>4. Carried(l, n, last)
    <3>1. CASE cur.side
      BY <2>0, <3>1 DEF LastOf
    <3>2. CASE ~cur.side
      <4>1. last = cur.emitted /\ ~l[n].side /\ cur.msg = l[n].msg /\ last \subseteq Ids(l, cur.msg)
        BY <2>0, <3>2 DEF LastOf, UnderWay
      <4>2. \A k \in 1 .. n : k \in DOMAIN l /\ k <= n
        BY <2>1 DEF Transcript
      <4>3. \A k \in 1 .. n : l[k].msg <= cur.msg
        BY <2>1, <4>1, <4>2 DEF Transcript
      <4>4. LastMain(l, n, cur.msg) /\ cur.msg \in Nat
        <5>1. n \in 1 .. n
          BY <2>1 DEF Transcript
        <5>. QED  BY <2>1, <4>1, <4>3, <5>1 DEF LastMain, Line
      <4>. QED  BY <2>1, <4>1, <4>4 DEF Carried
    <3>. QED  BY <3>1, <3>2
  <2>5. last \in SUBSET Nat
    BY <2>4 DEF Carried
  <2>. HIDE DEF last
  <2>6. rows \in SUBSET Row
    BY <2>2 DEF Table
  <2>7. /\ new \in State /\ new.file = f /\ new.cur = NoMessage /\ new.last = last /\ new.rows = rows
    BY <2>0, <2>3, <2>5, <2>6 DEF State
  <2>8. Covers(rows, old)
    BY <2>0, <2>2, CoversMore
  <2>9. InTable(rows, f, l, n)
    <3>1. ASSUME NEW k \in 1 .. n PROVE Has(rows, f, l[k].msg, IdsOf(k, l[k]))
      <4>1. CASE Has(st.rows, f, l[k].msg, IdsOf(k, l[k]))
        BY <2>2, <4>1, HasMore
      <4>2. CASE l[k].msg = cur.msg /\ IdsOf(k, l[k]) \subseteq cur.emitted
        BY <2>2, <4>2 DEF Has
      <4>. QED  BY <2>0, <4>1, <4>2 DEF UnderWay
    <3>. QED  BY <3>1 DEF InTable
  <2>. QED  BY <2>2, <2>4, <2>7, <2>8, <2>9 DEF Good, new
<1>. QED  BY <1>1, <1>2

-----------------------------------------------------------------------------
(* A side line changes nothing of what a bookmark may carry on.            *)
LEMMA OverASideLine ==
  ASSUME NEW l, Transcript(l), NEW n \in Nat, n + 1 \in DOMAIN l, l[n + 1].side,
         NEW last, Carried(l, n, last)
  PROVE  Carried(l, n + 1, last)
<1>1. PICK m \in Nat : LastMain(l, n, m) /\ last \subseteq Ids(l, m)
  BY DEF Carried
<1>2. \A k : k \in 1 .. n + 1 <=> k \in 1 .. n \/ k = n + 1
  OBVIOUS
<1>3. LastMain(l, n + 1, m)
  BY <1>1, <1>2 DEF LastMain
<1>. QED  BY <1>1, <1>3 DEF Carried

(* What a bookmark carries on may be followed by the message of the next   *)
(* line, unless that has its row already.                                  *)
LEMMA MayFollow ==
  ASSUME NEW f, NEW l, Transcript(l), NEW n \in Nat, n + 1 \in DOMAIN l, ~l[n + 1].side,
         NEW last, Carried(l, n, last), NEW rows, InTable(rows, f, l, n)
  PROVE  Follows(l, l[n + 1].msg, last) \/ Has(rows, f, l[n + 1].msg, {})
<1>. DEFINE x == l[n + 1].msg
<1>0. /\ n <= n + 1 /\ x \in Nat \ {0} /\ \A k \in 1 .. n : k \in DOMAIN l /\ k <= n + 1
      /\ \A k \in DOMAIN l : k \in Nat /\ l[k].msg \in Nat /\ (k \in 1 .. n \/ n + 1 <= k)
  <2>1. l \in Seq(Line) /\ DOMAIN l = 1 .. Len(l) /\ Len(l) \in Nat
    BY DEF Transcript
  <2>2. \A k \in DOMAIN l : l[k] \in Line /\ l[k].msg \in Nat \ {0}
    <3>1. \A k \in DOMAIN l : l[k] \in Line
      BY <2>1
    <3>. QED  BY <3>1 DEF Line
  <2>. QED  BY <2>1, <2>2
<1>1. PICK m \in Nat : LastMain(l, n, m) /\ last \subseteq Ids(l, m)
  BY DEF Carried
<1>2. ~IsSide(l, x)
  BY <1>0 DEF IsSide, Transcript
<1>3. m <= x
  <2>1. \A k \in 1 .. n : l[k].msg <= x
    BY <1>0 DEF Transcript
  <2>. QED  BY <1>0, <1>1, <2>1 DEF LastMain
<1>4. CASE m < x
  <2>1. \A k \in DOMAIN l : ~l[k].side /\ l[k].msg < x => l[k].msg <= m
    <3>. SUFFICES ASSUME NEW k \in DOMAIN l, ~l[k].side, l[k].msg < x PROVE l[k].msg <= m
      OBVIOUS
    <3>1. k \in 1 .. n
      <4>1. ~(n + 1 <= k)
        <5>1. n + 1 <= k => x <= l[k].msg
          BY DEF Transcript
        <5>. QED  BY <1>0, <5>1
      <4>. QED  BY <1>0, <4>1
    <3>. QED  BY <1>1, <3>1 DEF LastMain
  <2>2. m = 0 \/ \E k \in DOMAIN l : ~l[k].side /\ l[k].msg = m /\ m < x
    BY <1>0, <1>1, <1>4 DEF LastMain
  <2>3. Before(l, x, m)
    BY <2>1, <2>2 DEF Before
  <2>. QED  BY <1>1, <1>2, <2>3 DEF Follows
<1>5. CASE m = x
  <2>1. PICK k \in 1 .. n : l[k].msg = x
    BY <1>0, <1>1, <1>5 DEF LastMain
  <2>. QED  BY <2>1 DEF InTable, Has
<1>. QED  BY <1>0, <1>3, <1>4, <1>5

(* Another line of the message under way.                                  *)
LEMMA SameMessage ==
  ASSUME NEW f \in Files, Transcript(lines[f]), NEW n \in Nat, n + 1 \in DOMAIN lines[f],
         NEW old, NEW st, Good(st, f, n, old), st.cur # NoMessage,
         st.cur.msg = lines[f][n + 1].msg
  PROVE  Good(Fold(st, n + 1, lines[f][n + 1]), f, n + 1, old)
<1>. DEFINE l   == lines[f]
            cur == st.cur
            ids == IdsOf(n + 1, l[n + 1])
            new == [cur EXCEPT !.emitted = cur.emitted \cup ids]
            fin == Fold(st, n + 1, l[n + 1])
<1>0. /\ st \in State /\ st.file = f /\ Table(st.rows) /\ Covers(st.rows, old)
      /\ UnderWay(l, f, n, cur, st.rows) /\ (cur.side => Carried(l, n, st.last))
  BY DEF Good
<1>1. cur \in Message /\ n \in DOMAIN l /\ cur.emitted \subseteq Ids(l, cur.msg)
  BY <1>0 DEF UnderWay
<1>2. ids \subseteq Ids(l, cur.msg) /\ ids \subseteq Nat
  BY LineIds
<1>3. /\ new \in Message /\ new.msg = cur.msg /\ new.side = cur.side /\ new.follows = cur.follows
      /\ new.emitted = cur.emitted \cup ids
  BY <1>1, <1>2 DEF Message
<1>4. fin = [st EXCEPT !.cur = new]
  BY <1>0 DEF Fold, State
<1>. HIDE DEF new, ids, fin
<1>5. /\ fin \in State /\ fin.file = f /\ fin.rows = st.rows /\ fin.last = st.last /\ fin.cur = new
  BY <1>0, <1>3, <1>4 DEF State
<1>6. new # NoMessage
  BY <1>3, UsageTailAssumption
<1>7. new.side = l[n + 1].side
  <2>1. n <= n + 1 /\ l[n].msg = l[n + 1].msg /\ cur.side = l[n].side
    BY <1>0 DEF UnderWay
  <2>2. l[n].side = l[n + 1].side
    BY <1>1, <2>1 DEF Transcript
  <2>. QED  BY <1>3, <2>1, <2>2
<1>8. \A k \in 1 .. n + 1 : \/ Has(st.rows, f, l[k].msg, IdsOf(k, l[k]))
                            \/ l[k].msg = new.msg /\ IdsOf(k, l[k]) \subseteq new.emitted
  <2>1. \A k \in 1 .. n + 1 : k \in 1 .. n \/ k = n + 1
    OBVIOUS
  <2>. QED  BY <1>0, <1>3, <2>1 DEF UnderWay, ids
<1>9. UnderWay(l, f, n + 1, new, st.rows)
  BY <1>0, <1>2, <1>3, <1>7, <1>8 DEF UnderWay
<1>10. new.side => Carried(l, n + 1, st.last)
  BY <1>0, <1>3, <1>7, OverASideLine
<1>. QED  BY <1>0, <1>5, <1>6, <1>9, <1>10 DEF Good, fin

(* The first line of another.                                              *)
LEMMA NextMessage ==
  ASSUME NEW f \in Files, Transcript(lines[f]), NEW n \in Nat, n + 1 \in DOMAIN lines[f],
         NEW old, NEW st, Good(st, f, n, old),
         ~(st.cur # NoMessage /\ st.cur.msg = lines[f][n + 1].msg)
  PROVE  Good(Fold(st, n + 1, lines[f][n + 1]), f, n + 1, old)
<1>. DEFINE l    == lines[f]
            line == l[n + 1]
            done == Flush(st)
            ids  == IdsOf(n + 1, line)
            new  == [msg |-> line.msg, side |-> line.side, emitted |-> ids,
                     follows |-> IF line.side THEN {} ELSE done.last]
            fin  == Fold(st, n + 1, line)
<1>1. n \in 0 .. Len(l)
  BY DEF Transcript
<1>2. Good(done, f, n, old) /\ done.cur = NoMessage
  BY <1>1, FlushGood
<1>3. fin = [done EXCEPT !.cur = new]
  BY DEF Fold
<1>4. /\ line.msg \in Nat \ {0} /\ line.side \in BOOLEAN /\ ids \subseteq Ids(l, line.msg)
      /\ ids \subseteq Nat
  BY LineIds
<1>. HIDE DEF done
<1>5. /\ done \in State /\ done.file = f /\ Table(done.rows) /\ Covers(done.rows, old)
      /\ InTable(done.rows, f, l, n) /\ Carried(l, n, done.last) /\ done.last \in SUBSET Nat
  BY <1>2 DEF Good, State
<1>6. /\ new \in Message /\ new.msg = line.msg /\ new.side = line.side /\ new.emitted = ids
      /\ new.follows = IF line.side THEN {} ELSE done.last
  <2>1. (IF line.side THEN {} ELSE done.last) \in SUBSET Nat
    BY <1>5
  <2>. DEFINE fol == IF line.side THEN {} ELSE done.last
  <2>. HIDE DEF ids, fol, line
  <2>. QED  BY <1>4, <2>1 DEF Message, fol
<1>. HIDE DEF new, ids, fin
<1>7. /\ fin \in State /\ fin.file = f /\ fin.rows = done.rows /\ fin.last = done.last
      /\ fin.cur = new
  BY <1>3, <1>5, <1>6 DEF State
<1>8. new # NoMessage
  BY <1>6, UsageTailAssumption
<1>9. Follows(l, new.msg, new.follows) \/ Has(done.rows, f, new.msg, {})
  <2>1. CASE line.side
    BY <1>6, <2>1 DEF Follows, IsSide
  <2>2. CASE ~line.side
    BY <1>5, <1>6, <2>2, MayFollow
  <2>. QED  BY <2>1, <2>2
<1>10. \A k \in 1 .. n + 1 : \/ Has(done.rows, f, l[k].msg, IdsOf(k, l[k]))
                             \/ l[k].msg = new.msg /\ IdsOf(k, l[k]) \subseteq new.emitted
  <2>1. \A k \in 1 .. n + 1 : k \in 1 .. n \/ k = n + 1
    OBVIOUS
  <2>. QED  BY <1>5, <1>6, <2>1 DEF InTable, ids
<1>11. UnderWay(l, f, n + 1, new, done.rows)
  BY <1>4, <1>6, <1>9, <1>10 DEF UnderWay
<1>12. new.side => Carried(l, n + 1, done.last)
  BY <1>5, <1>6, OverASideLine
<1>. QED  BY <1>5, <1>7, <1>8, <1>11, <1>12 DEF Good, fin

(* So every line does.                                                     *)
LEMMA FoldGood ==
  ASSUME NEW f \in Files, Transcript(lines[f]), NEW n \in Nat, n + 1 \in DOMAIN lines[f],
         NEW old, NEW st, Good(st, f, n, old)
  PROVE  Good(Fold(st, n + 1, lines[f][n + 1]), f, n + 1, old)
  BY SameMessage, NextMessage

-----------------------------------------------------------------------------
-----------------------------------------------------------------------------
(* The lines of a read, folded one by one: what Ingested defines.          *)
Step(g, base, l, from, n) == IF n = from THEN base ELSE Fold(g[n - 1], n, l[n])
Steps(g, base, l, from, to) == g = [n \in from .. to |-> Step(g, base, l, from, n)]

LEMMA StepsAt ==
  ASSUME NEW g, NEW base, NEW l, NEW from, NEW to, Steps(g, base, l, from, to),
         NEW n \in from .. to
  PROVE  g[n] = Step(g, base, l, from, n)
<1>. DEFINE h == [k \in from .. to |-> Step(g, base, l, from, k)]
<1>1. g = h
  BY DEF Steps
<1>2. h[n] = Step(g, base, l, from, n)
  OBVIOUS
<1>. QED  BY <1>1, <1>2, Zenon

(* There is such a function, so that CHOOSE finds one.                     *)
LEMMA StepsExist ==
  ASSUME NEW base, NEW l, NEW from \in Nat, NEW to \in Nat, from <= to
  PROVE  \E g : Steps(g, base, l, from, to)
<1>. DEFINE T == {k \in Nat : \E g : Steps(g, base, l, from, from + k)}
<1>1. 0 \in T
  <2>. DEFINE g == [n \in from .. from |-> base]
              h == [n \in from .. from |-> Step(g, base, l, from, n)]
  <2>1. \A n \in from .. from : Step(g, base, l, from, n) = base
    BY DEF Step
  <2>2. g = h
    BY <2>1
  <2>3. Steps(g, base, l, from, from)
    BY <2>2 DEF Steps
  <2>. HIDE DEF g
  <2>4. from + 0 = from
    OBVIOUS
  <2>. QED  BY <2>3, <2>4
<1>2. ASSUME NEW k \in T \cap Nat PROVE k + 1 \in T
  <2>. DEFINE u == from + k
  <2>1. PICK g : Steps(g, base, l, from, u)
    BY <1>2
  <2>2. /\ u \in Nat /\ from + (k + 1) = u + 1 /\ from <= u
        /\ \A n \in from .. u + 1 : /\ n \in from .. u \/ n = u + 1
                                    /\ n # from => n - 1 \in from .. u
        /\ \A n \in from .. u : n \in from .. u + 1 /\ n # u + 1
        /\ u \in from .. u /\ u + 1 # from /\ (u + 1) - 1 = u
    OBVIOUS
  <2>. HIDE DEF u
  <2>. DEFINE last == Fold(g[u], u + 1, l[u + 1])
              h    == [n \in from .. u + 1 |-> IF n = u + 1 THEN last ELSE g[n]]
              i    == [n \in from .. u + 1 |-> Step(h, base, l, from, n)]
  <2>3. /\ \A n \in from .. u : h[n] = g[n]
        /\ h[u + 1] = last
    <3>. HIDE DEF last
    <3>1. u + 1 \in from .. u + 1
      BY <2>2
    <3>. QED  BY <2>2, <3>1
  <2>4. \A n \in from .. u + 1 : h[n] = Step(h, base, l, from, n)
    <3>. SUFFICES ASSUME NEW n \in from .. u + 1 PROVE h[n] = Step(h, base, l, from, n)
      OBVIOUS
    <3>. HIDE DEF h
    <3>1. CASE n = u + 1
      <4>1. h[n - 1] = g[u]
        BY <2>2, <2>3, <3>1
      <4>. QED  BY <2>2, <2>3, <3>1, <4>1 DEF Step
    <3>2. CASE n # u + 1
      <4>1. n \in from .. u
        BY <2>2, <3>2
      <4>2. h[n] = g[n] /\ (n # from => h[n - 1] = g[n - 1])
        BY <2>2, <2>3, <4>1
      <4>3. g[n] = Step(g, base, l, from, n)
        BY <2>1, <4>1, StepsAt
      <4>. QED  BY <4>2, <4>3 DEF Step
    <3>. QED  BY <3>1, <3>2
  <2>5. h = i
    BY <2>4
  <2>6. Steps(h, base, l, from, u + 1)
    BY <2>5 DEF Steps
  <2>. HIDE DEF h
  <2>. QED  BY <2>2, <2>6
<1>3. Nat \subseteq T
  <2>. HIDE DEF T
  <2>. QED  BY <1>1, <1>2, Induction
<1>4. to - from \in Nat /\ from + (to - from) = to
  OBVIOUS
<1>. QED  BY <1>3, <1>4

(* Where a read starts, and what has been folded of it.                    *)
Start(rows, f, last) == [file |-> f, cur |-> NoMessage, last |-> last, rows |-> rows]

LEMMA IngestedIs ==
  ASSUME NEW rows, NEW f, NEW from \in Nat, NEW to \in Nat, from <= to, NEW last
  PROVE  \E g : /\ Steps(g, Start(rows, f, last), lines[f], from, to)
                /\ Ingested(rows, f, from, to, last) = Flush(g[to])
<1>. DEFINE l     == lines[f]
            after == CHOOSE g : Steps(g, Start(rows, f, last), l, from, to)
<1>1. Ingested(rows, f, from, to, last) = Flush(after[to])
  BY DEF Ingested, Steps, Step, Start
<1>2. Steps(after, Start(rows, f, last), l, from, to)
  <2>. HIDE DEF l
  <2>. QED  BY StepsExist
<1>. HIDE DEF after
<1>. QED  BY <1>1, <1>2

(* A read from a bookmark brings its lines into the table, takes nothing   *)
(* away, and leaves a bookmark of the same kind behind.                    *)
LEMMA IngestedGood ==
  ASSUME NEW rows, Table(rows), NEW f \in Files, Transcript(lines[f]),
         NEW from \in Nat, NEW to \in Nat, from <= to, to <= Len(lines[f]),
         NEW last, InTable(rows, f, lines[f], from), Carried(lines[f], from, last)
  PROVE  LET done == Ingested(rows, f, from, to, last)
         IN /\ Table(done.rows) /\ Covers(done.rows, rows)
            /\ InTable(done.rows, f, lines[f], to) /\ Carried(lines[f], to, done.last)
<1>. DEFINE l    == lines[f]
            base == Start(rows, f, last)
<1>1. PICK g : /\ Steps(g, base, l, from, to)
               /\ Ingested(rows, f, from, to, last) = Flush(g[to])
  BY IngestedIs
<1>2. Good(base, f, from, rows)
  <2>1. last \in SUBSET Nat /\ rows \in SUBSET Row
    BY DEF Carried, Table
  <2>2. /\ base \in State /\ base.file = f /\ base.rows = rows /\ base.last = last
        /\ base.cur = NoMessage
    BY <2>1 DEF Start, State
  <2>3. Covers(rows, rows)
    BY DEF Covers, Has
  <2>. HIDE DEF base
  <2>. QED  BY <2>2, <2>3 DEF Good
<1>. DEFINE T == {k \in Nat : from + k <= to => Good(g[from + k], f, from + k, rows)}
<1>3. 0 \in T
  <2>1. from \in from .. to /\ from + 0 = from
    OBVIOUS
  <2>2. g[from] = base
    <3>. HIDE DEF base, l
    <3>. QED  BY <1>1, <2>1, StepsAt DEF Step
  <2>. QED  BY <1>2, <2>1, <2>2
<1>4. ASSUME NEW k \in T \cap Nat, from + (k + 1) <= to
      PROVE  Good(g[from + (k + 1)], f, from + (k + 1), rows)
  <2>. DEFINE n == from + k
  <2>1. /\ n \in Nat /\ n <= to /\ from + (k + 1) = n + 1 /\ n + 1 \in from .. to
        /\ n + 1 # from /\ (n + 1) - 1 = n
    BY <1>4
  <2>2. Good(g[n], f, n, rows)
    BY <1>4, <2>1
  <2>. HIDE DEF n
  <2>3. g[n + 1] = Fold(g[n], n + 1, l[n + 1])
    <3>. HIDE DEF base, l
    <3>. QED  BY <1>1, <2>1, StepsAt DEF Step
  <2>4. n + 1 \in DOMAIN l
    <3>1. l \in Seq(Line)
      BY DEF Transcript
    <3>. QED  BY <2>1, <3>1
  <2>. QED  BY <2>1, <2>2, <2>3, <2>4, FoldGood
<1>5. Nat \subseteq T
  <2>1. \A k \in T \cap Nat : k + 1 \in T
    BY <1>4
  <2>. HIDE DEF T
  <2>. QED  BY <1>3, <2>1, Induction
<1>6. Good(g[to], f, to, rows)
  <2>1. to - from \in Nat /\ from + (to - from) = to
    OBVIOUS
  <2>. QED  BY <1>5, <2>1
<1>7. to \in 0 .. Len(l)
  <2>1. l \in Seq(Line)
    BY DEF Transcript
  <2>. QED  BY <2>1
<1>8. Good(Flush(g[to]), f, to, rows) /\ Flush(g[to]).cur = NoMessage
  BY <1>6, <1>7, FlushGood
<1>. QED  BY <1>1, <1>8 DEF Good

-----------------------------------------------------------------------------
-----------------------------------------------------------------------------
(***************************************************************************)
(* A transcript that has grown by a line: whatever holds of a row or of a  *)
(* bookmark still does.                                                    *)
(***************************************************************************)
Grown(l, new) ==
  /\ Transcript(l) /\ Transcript(new)
  /\ DOMAIN new = DOMAIN l \cup {Len(l) + 1}
  /\ \A k \in DOMAIN l : k <= Len(l) + 1 /\ new[k] = l[k]

(* It keeps the ids of a message, and what a bookmark carries on.          *)
LEMMA StillCarried ==
  ASSUME NEW l, NEW new, Grown(l, new), NEW n \in Nat, n <= Len(l), NEW last, Carried(l, n, last)
  PROVE  Carried(new, n, last)
<1>1. PICK m \in Nat : LastMain(l, n, m) /\ last \subseteq Ids(l, m)
  BY DEF Carried
<1>2. \A k \in 1 .. n : k \in DOMAIN l
  BY DEF Grown, Transcript
<1>3. LastMain(new, n, m)
  BY <1>1, <1>2 DEF LastMain, Grown
<1>4. Ids(l, m) \subseteq Ids(new, m)
  BY DEF Ids, Grown
<1>. QED  BY <1>1, <1>3, <1>4 DEF Carried

(* The lines before a bookmark are in the table as before.                 *)
LEMMA StillInTable ==
  ASSUME NEW l, NEW new, Grown(l, new), NEW n \in Nat, n <= Len(l), NEW rows, NEW f,
         InTable(rows, f, l, n)
  PROVE  InTable(rows, f, new, n)
<1>1. \A k \in 1 .. n : k \in DOMAIN l
  BY DEF Grown, Transcript
<1>. QED  BY <1>1 DEF InTable, Grown

(* And a row is right as before: the new line is of its message only on    *)
(* the same chain, and of none before it.                                  *)
LEMMA StillRight ==
  ASSUME NEW l, NEW new, Grown(l, new), NEW r \in Row, RowOk(l, r)
  PROVE  RowOk(new, r)
<1>. DEFINE x == r.msg
            N == Len(l) + 1
<1>0. x \in Nat /\ N \in DOMAIN new /\ new[N].msg \in Nat /\ new[N] \in Line
  <2>1. N \in DOMAIN new /\ new \in Seq(Line)
    BY DEF Grown, Transcript
  <2>2. new[N] \in Line
    <3>. HIDE DEF Line, N
    <3>. QED  BY <2>1
  <2>. HIDE DEF N
  <2>. QED  BY <2>1, <2>2 DEF Row, Line
<1>1. PICK n \in DOMAIN l : l[n].msg = x
  BY DEF RowOk
<1>. HIDE DEF N
<1>2. n \in DOMAIN new /\ n <= N /\ new[n] = l[n]
  BY DEF Grown, N
<1>3. x <= new[N].msg
  BY <1>0, <1>1, <1>2 DEF Grown, Transcript
<1>4. new[N].msg = x => new[N].side = l[n].side
  BY <1>0, <1>1, <1>2 DEF Grown, Transcript
<1>5. Ids(l, x) \subseteq Ids(new, x)
  BY DEF Ids, Grown
<1>6. Follows(new, x, r.follows)
  <2>1. IsSide(l, x) => IsSide(new, x)
    BY DEF IsSide, Grown
  <2>2. IsSide(new, x) => IsSide(l, x)
    BY <1>1, <1>4 DEF IsSide, Grown, N
  <2>3. CASE IsSide(l, x)
    BY <2>1, <2>3 DEF RowOk, Follows
  <2>4. CASE ~IsSide(l, x)
    <3>1. PICK m \in Nat : Before(l, x, m) /\ r.follows \subseteq Ids(l, m)
      BY <2>4 DEF RowOk, Follows
    <3>2. Ids(l, m) \subseteq Ids(new, m)
      BY DEF Ids, Grown
    <3>3. \A k \in DOMAIN new : ~new[k].side /\ new[k].msg < x => new[k].msg <= m
      <4>1. ~(new[N].msg < x)
        BY <1>0, <1>3
      <4>. QED  BY <3>1, <4>1 DEF Before, Grown, N
    <3>4. m = 0 \/ \E k \in DOMAIN new : ~new[k].side /\ new[k].msg = m /\ m < x
      BY <3>1 DEF Before, Grown
    <3>5. Before(new, x, m)
      BY <3>3, <3>4 DEF Before
    <3>. QED  BY <2>2, <2>4, <3>1, <3>2, <3>5 DEF Follows
  <2>. QED  BY <2>3, <2>4
<1>. QED  BY <1>1, <1>2, <1>5, <1>6 DEF RowOk

(* A line of the last message, or of the next, makes a transcript of one.  *)
LEMMA Grows ==
  ASSUME NEW l, Transcript(l), NEW x \in Line,
         \A k \in DOMAIN l : l[k].msg <= x.msg /\ (l[k].msg = x.msg => l[k].side = x.side)
  PROVE  Grown(l, Append(l, x))
<1>. DEFINE new == Append(l, x)
            N == Len(l) + 1
<1>1. /\ l \in Seq(Line) /\ new \in Seq(Line) /\ N \in Nat /\ DOMAIN new = DOMAIN l \cup {N}
      /\ new[N] = x /\ \A k \in DOMAIN l : k \in Nat /\ k < N /\ k <= N /\ new[k] = l[k]
  <2>. HIDE DEF Line
  <2>. QED  BY DEF Transcript
<1>2. \A k \in DOMAIN l : l[k] \in Line /\ l[k].msg \in Nat
  <2>1. \A k \in DOMAIN l : l[k] \in Line
    BY <1>1
  <2>. QED  BY <2>1 DEF Line
<1>3. x.msg \in Nat
  BY DEF Line
<1>. HIDE DEF new, N
<1>4. ASSUME NEW i \in DOMAIN new, NEW j \in DOMAIN new
      PROVE  /\ i <= j => new[i].msg <= new[j].msg
             /\ new[i].msg = new[j].msg => new[i].side = new[j].side
  <2>1. CASE i \in DOMAIN l /\ j \in DOMAIN l
    BY <1>1, <2>1 DEF Transcript
  <2>2. CASE i = N
    <3>1. CASE j = N
      BY <1>1, <1>3, <2>2, <3>1
    <3>2. CASE j \in DOMAIN l
      <4>1. ~(i <= j)
        BY <1>1, <2>2, <3>2
      <4>. QED  BY <1>1, <2>2, <3>2, <4>1
    <3>. QED  BY <1>1, <3>1, <3>2
  <2>3. CASE i \in DOMAIN l /\ j = N
    BY <1>1, <2>3
  <2>. QED  BY <1>1, <2>1, <2>2, <2>3
<1>5. Transcript(new)
  BY <1>1, <1>4 DEF Transcript
<1>. QED  BY <1>1, <1>5 DEF Grown, new, N

-----------------------------------------------------------------------------
(***************************************************************************)
(* The invariant: the rows are right, and wherever a bookmark stands, the  *)
(* table has what is before it and the ids it carries are the last         *)
(* main-chain message's: the table's bookmarks, and those the two parsers  *)
(* hold.                                                                   *)
(***************************************************************************)
Cursor == [offset : Nat, last : SUBSET Nat]
Parse == [file : Files \cup {NoFile}, offset : Nat, last : SUBSET Nat, todo : SUBSET Subs]

Marks(rows, f, l, c) ==
  /\ c.offset \in Nat /\ c.offset <= Len(l) /\ InTable(rows, f, l, c.offset)
  /\ Carried(l, c.offset, c.last)

LinesOk == lines \in [Files -> Seq(Line)] /\ \A f \in Files : Transcript(lines[f])
CursorOk ==
  /\ cursor \in [Files -> Cursor]
  /\ \A f \in Files : Marks(usage, f, lines[f], cursor[f])
ParseOk ==
  /\ parse \in [Procs -> Parse]
  /\ \A p \in Procs : parse[p].file # NoFile => Marks(usage, parse[p].file, lines[parse[p].file], parse[p])

TailInv == LinesOk /\ Table(usage) /\ CursorOk /\ ParseOk

(* A bookmark at the top marks nothing.                                    *)
LEMMA MarksTop ==
  ASSUME NEW rows, NEW f, NEW l, Transcript(l), NEW c, c.offset = 0, c.last = {}
  PROVE  Marks(rows, f, l, c)
<1>1. \A k \in 1 .. 0 : FALSE
  OBVIOUS
<1>2. LastMain(l, 0, 0) /\ InTable(rows, f, l, 0)
  BY <1>1 DEF LastMain, InTable
<1>3. Carried(l, 0, {})
  BY <1>2 DEF Carried
<1>4. Len(l) \in Nat
  BY DEF Transcript
<1>. QED  BY <1>2, <1>3, <1>4 DEF Marks

(* A bookmark marks what it marked in a table that covers the old one, and *)
(* in a transcript that has grown.                                         *)
LEMMA MarksMore ==
  ASSUME NEW old, NEW new, Covers(new, old), NEW f, NEW l, NEW c, Marks(old, f, l, c)
  PROVE  Marks(new, f, l, c)
<1>1. InTable(new, f, l, c.offset)
  BY HasMore DEF Marks, InTable
<1>. QED  BY <1>1 DEF Marks

LEMMA MarksGrown ==
  ASSUME NEW rows, NEW f, NEW l, NEW new, Grown(l, new), NEW c, Marks(rows, f, l, c)
  PROVE  Marks(rows, f, new, c)
<1>1. /\ c.offset \in Nat /\ c.offset <= Len(l) /\ InTable(rows, f, l, c.offset)
      /\ Carried(l, c.offset, c.last)
  BY DEF Marks
<1>2. InTable(rows, f, new, c.offset) /\ Carried(new, c.offset, c.last)
  BY <1>1, StillInTable, StillCarried
<1>3. Len(l) <= Len(new) /\ Len(l) \in Nat /\ Len(new) \in Nat
  BY DEF Grown, Transcript
<1>. QED  BY <1>1, <1>2, <1>3 DEF Marks

-----------------------------------------------------------------------------
(* At the start nothing is read.                                           *)
LEMMA TailInit == Init => TailInv
<1>. SUFFICES ASSUME Init PROVE TailInv
  OBVIOUS
<1>1. LinesOk
  <2>1. << >> \in Seq(Line) /\ DOMAIN << >> = {}
    OBVIOUS
  <2>2. Transcript(<< >>)
    BY <2>1 DEF Transcript
  <2>3. lines = [f \in Files |-> << >>]
    BY DEF Init
  <2>. HIDE DEF Line
  <2>. QED  BY <2>1, <2>2, <2>3 DEF LinesOk
<1>2. Table(usage)
  BY DEF Init, Table
<1>3. CursorOk
  <2>1. cursor = [f \in Files |-> Top] /\ Top \in Cursor /\ Top.offset = 0 /\ Top.last = {}
    BY DEF Init, Top, Cursor
  <2>2. ASSUME NEW f \in Files PROVE Marks(usage, f, lines[f], cursor[f])
    BY <1>1, <2>1, MarksTop DEF LinesOk
  <2>. QED  BY <2>1, <2>2 DEF CursorOk
<1>4. ParseOk
  <2>1. parse = [p \in Procs |-> NotParsing] /\ NotParsing \in Parse /\ NotParsing.file = NoFile
    BY DEF Init, NotParsing, Parse
  <2>. QED  BY <2>1 DEF ParseOk
<1>. QED  BY <1>1, <1>2, <1>3, <1>4 DEF TailInv

(* Claude Code writes a line: every bookmark marks what it marked.         *)
LEMMA AppendKeeps ==
  ASSUME TailInv, NEW f \in Files, NEW new \in BOOLEAN, NEW tool \in BOOLEAN,
         NEW side \in BOOLEAN, Append1(f, new, tool, side)
  PROVE  TailInv'
<1>. DEFINE l      == lines[f]
            before == IF l = <<>> THEN [msg |-> 0, side |-> FALSE] ELSE Last(l)
            x      == [msg |-> before.msg + (IF new THEN 1 ELSE 0), tool |-> tool, side |-> side]
            grown  == Append(l, x)
<1>1. /\ (before.msg = 0 => new) /\ (~new => side = before.side)
      /\ lines' = [lines EXCEPT ![f] = grown]
      /\ usage' = usage /\ cursor' = cursor /\ parse' = parse
  BY DEF Append1
<1>2. /\ lines \in [Files -> Seq(Line)] /\ Transcript(l) /\ l \in Seq(Line)
      /\ \A g \in Files : Transcript(lines[g])
  BY DEF TailInv, LinesOk
<1>3. /\ before.msg \in Nat /\ before.side \in BOOLEAN
      /\ \A k \in DOMAIN l : l[k] \in Line /\ l[k].msg \in Nat
      /\ \A k \in DOMAIN l : l[k].msg <= before.msg /\ (l[k].msg = before.msg => l[k].side = before.side)
  <2>1. CASE l = <<>>
    BY <2>1
  <2>2. CASE l # <<>>
    <3>1. Len(l) \in DOMAIN l /\ Last(l) = l[Len(l)] /\ \A k \in DOMAIN l : k <= Len(l) /\ l[k] \in Line
      <4>. HIDE DEF l, Line
      <4>. QED  BY <1>2, <2>2 DEF Last
    <3>2. before = l[Len(l)]
      BY <2>2, <3>1
    <3>. HIDE DEF before, l
    <3>3. before \in Line /\ \A k \in DOMAIN l : l[k].msg \in Nat
      BY <3>1, <3>2 DEF Line
    <3>4. \A k \in DOMAIN l : l[k].msg <= before.msg /\ (l[k].msg = before.msg => l[k].side = before.side)
      BY <1>2, <3>1, <3>2 DEF Transcript
    <3>. QED  BY <3>1, <3>3, <3>4 DEF Line
  <2>. QED  BY <2>1, <2>2
<1>. HIDE DEF before, l
<1>4. /\ x \in Line /\ x.side = side
      /\ x.msg = before.msg + (IF new THEN 1 ELSE 0)
  <2>1. before.msg + (IF new THEN 1 ELSE 0) \in Nat \ {0}
    BY <1>1, <1>3
  <2>. DEFINE m == before.msg + (IF new THEN 1 ELSE 0)
  <2>. HIDE DEF m
  <2>2. m \in Nat \ {0}
    BY <2>1 DEF m
  <2>3. x = [msg |-> m, tool |-> tool, side |-> side]
    BY DEF m
  <2>. HIDE DEF x
  <2>. QED  BY <2>2, <2>3 DEF Line, m
<1>. HIDE DEF x
<1>5. \A k \in DOMAIN l : l[k].msg <= x.msg /\ (l[k].msg = x.msg => l[k].side = x.side)
  <2>1. CASE new
    BY <1>3, <1>4, <2>1
  <2>2. CASE ~new
    BY <1>1, <1>3, <1>4, <2>2
  <2>. QED  BY <2>1, <2>2
<1>6. Grown(l, grown) /\ grown \in Seq(Line)
  <2>1. Grown(l, grown)
    BY <1>2, <1>4, <1>5, Grows
  <2>. QED  BY <2>1 DEF Grown, Transcript
<1>. HIDE DEF grown
<1>7. \A g \in Files : lines'[g] = IF g = f THEN grown ELSE lines[g]
  BY <1>1, <1>2
<1>8. LinesOk'
  <2>1. lines' \in [Files -> Seq(Line)]
    <3>. HIDE DEF Line
    <3>. QED  BY <1>1, <1>2, <1>6
  <2>2. \A g \in Files : Transcript(lines'[g])
    BY <1>2, <1>6, <1>7 DEF Grown
  <2>. QED  BY <2>1, <2>2 DEF LinesOk
<1>9. Table(usage)'
  <2>1. Table(usage)
    BY DEF TailInv
  <2>2. \A r \in usage : RowOk(lines'[r.file], r)
    <3>. SUFFICES ASSUME NEW r \in usage PROVE RowOk(lines'[r.file], r)
      OBVIOUS
    <3>1. r \in Row /\ RowOk(lines[r.file], r)
      BY <2>1 DEF Table
    <3>2. r.file \in Files
      BY <3>1 DEF Row
    <3>3. CASE r.file = f
      BY <1>6, <1>7, <3>1, <3>3, StillRight DEF l
    <3>. QED  BY <1>7, <3>1, <3>2, <3>3
  <2>. QED  BY <1>1, <2>1, <2>2 DEF Table
<1>10. \A g \in Files : \A c : Marks(usage, g, lines[g], c) => Marks(usage, g, lines'[g], c)
  BY <1>6, <1>7, MarksGrown DEF l
<1>11. CursorOk'
  BY <1>1, <1>10 DEF TailInv, CursorOk
<1>12. ParseOk'
  <2>1. \A p \in Procs : parse[p].file # NoFile => parse[p].file \in Files
    BY DEF TailInv, ParseOk, Parse
  <2>. QED  BY <1>1, <1>10, <2>1 DEF TailInv, ParseOk
<1>. QED  BY <1>8, <1>9, <1>11, <1>12 DEF TailInv

(* A parse that opens a file does so where its bookmark stands.            *)
LEMMA OpenedOk ==
  ASSUME TailInv, NEW p \in Procs, NEW f \in Files, NEW todo \in SUBSET Subs,
         Opened(p, f, todo), cursor' = cursor, lines' = lines, usage' = usage
  PROVE  TailInv'
<1>. DEFINE s == [file |-> f, offset |-> cursor[f].offset, last |-> cursor[f].last, todo |-> todo]
<1>1. parse' = [parse EXCEPT ![p] = s] /\ parse \in [Procs -> Parse]
  BY DEF Opened, TailInv, ParseOk
<1>2. Marks(usage, f, lines[f], cursor[f]) /\ cursor[f] \in Cursor
  BY DEF TailInv, CursorOk
<1>3. /\ s \in Parse /\ s.file = f /\ s.offset = cursor[f].offset /\ s.last = cursor[f].last
  BY <1>2 DEF Cursor, Parse
<1>. HIDE DEF s
<1>4. Marks(usage, f, lines[f], s)
  BY <1>2, <1>3 DEF Marks
<1>5. ParseOk'
  BY <1>1, <1>3, <1>4 DEF TailInv, ParseOk
<1>. QED  BY <1>5 DEF TailInv, LinesOk, CursorOk, Table

(* And one that ends marks nothing.                                        *)
LEMMA EndedOk ==
  ASSUME TailInv, NEW p \in Procs, parse' = [parse EXCEPT ![p] = NotParsing],
         cursor' = cursor, lines' = lines, usage' = usage
  PROVE  TailInv'
<1>1. NotParsing \in Parse /\ NotParsing.file = NoFile
  BY DEF NotParsing, Parse
<1>2. ParseOk'
  BY <1>1 DEF TailInv, ParseOk
<1>. QED  BY <1>2 DEF TailInv, LinesOk, CursorOk, Table

(* A chunk: rows and bookmarks are those of the read.                      *)
LEMMA ChunkKeeps ==
  ASSUME TailInv, NEW p \in Procs, Chunk(p)
  PROVE  TailInv'
<1>. DEFINE s == parse[p]
            f == s.file
            l == lines[f]
<1>1. PICK to \in s.offset + 1 .. Len(l) :
        LET done == Ingested(usage, f, s.offset, to, s.last)
        IN /\ usage' = done.rows
           /\ cursor' = [cursor EXCEPT ![f] = [offset |-> to, last |-> done.last]]
           /\ parse' = [parse EXCEPT ![p].offset = to, ![p].last = done.last]
  BY DEF Chunk
<1>. DEFINE done == Ingested(usage, f, s.offset, to, s.last)
            c    == [offset |-> to, last |-> done.last]
            t    == [s EXCEPT !.offset = to, !.last = done.last]
<1>2. /\ usage' = done.rows /\ lines' = lines
      /\ cursor' = [cursor EXCEPT ![f] = c]
      /\ f # NoFile
  BY <1>1 DEF Chunk
<1>3. /\ parse \in [Procs -> Parse] /\ s \in Parse /\ f \in Files /\ Marks(usage, f, l, s)
      /\ Transcript(l) /\ Table(usage) /\ cursor \in [Files -> Cursor]
  <2>1. parse \in [Procs -> Parse] /\ s \in Parse
    BY DEF TailInv, ParseOk
  <2>2. f \in Files
    BY <1>2, <2>1 DEF Parse
  <2>. QED  BY <1>2, <2>1, <2>2 DEF TailInv, ParseOk, LinesOk, CursorOk
<1>4. parse' = [parse EXCEPT ![p] = t]
  BY <1>1, <1>3 DEF Parse
<1>5. s.offset \in Nat /\ to \in Nat /\ s.offset <= to /\ to <= Len(l) /\ Len(l) \in Nat
  <2>1. s.offset \in Nat /\ Len(l) \in Nat
    BY <1>3 DEF Marks, Transcript
  <2>. HIDE DEF s, l
  <2>. QED  BY <2>1
<1>6. /\ Table(done.rows) /\ Covers(done.rows, usage) /\ InTable(done.rows, f, l, to)
      /\ Carried(l, to, done.last) /\ done.last \in SUBSET Nat
  <2>1. InTable(usage, f, l, s.offset) /\ Carried(l, s.offset, s.last)
    BY <1>3 DEF Marks
  <2>2. /\ Table(done.rows) /\ Covers(done.rows, usage) /\ InTable(done.rows, f, l, to)
        /\ Carried(l, to, done.last)
    BY <1>3, <1>5, <2>1, IngestedGood
  <2>. QED  BY <2>2 DEF Carried
<1>. HIDE DEF done
<1>7. /\ c \in Cursor /\ c.offset = to /\ c.last = done.last
      /\ t \in Parse /\ t.offset = to /\ t.last = done.last /\ t.file = f
  BY <1>3, <1>5, <1>6 DEF Cursor, Parse
<1>. HIDE DEF c, t, s
<1>8. Marks(done.rows, f, l, c) /\ Marks(done.rows, f, l, t)
  BY <1>5, <1>6, <1>7 DEF Marks
<1>9. LinesOk' /\ Table(usage)'
  BY <1>2, <1>6 DEF TailInv, LinesOk, Table
<1>10. CursorOk'
  <2>1. cursor' \in [Files -> Cursor]
    BY <1>2, <1>3, <1>7
  <2>2. ASSUME NEW g \in Files PROVE Marks(usage', g, lines'[g], cursor'[g])
    <3>1. CASE g = f
      BY <1>2, <1>3, <1>8, <3>1
    <3>2. CASE g # f
      <4>1. Marks(usage, g, lines[g], cursor[g]) /\ cursor'[g] = cursor[g]
        BY <1>2, <1>3, <3>2 DEF TailInv, CursorOk
      <4>. QED  BY <1>2, <1>6, <4>1, MarksMore
    <3>. QED  BY <3>1, <3>2
  <2>. QED  BY <2>1, <2>2 DEF CursorOk
<1>11. ParseOk'
  <2>1. parse' \in [Procs -> Parse]
    BY <1>3, <1>4, <1>7
  <2>2. ASSUME NEW q \in Procs, parse'[q].file # NoFile
        PROVE  Marks(usage', parse'[q].file, lines'[parse'[q].file], parse'[q])
    <3>1. CASE q = p
      <4>1. parse'[q] = t
        BY <1>3, <1>4, <3>1
      <4>. QED  BY <1>2, <1>7, <1>8, <4>1
    <3>2. CASE q # p
      <4>1. parse'[q] = parse[q]
        BY <1>3, <1>4, <3>2
      <4>2. Marks(usage, parse[q].file, lines[parse[q].file], parse[q])
        BY <2>2, <4>1 DEF TailInv, ParseOk
      <4>3. Marks(usage', parse[q].file, lines[parse[q].file], parse[q])
        BY <1>2, <1>6, <4>2, MarksMore
      <4>. QED  BY <1>2, <4>1, <4>3
    <3>. QED  BY <3>1, <3>2
  <2>. QED  BY <2>1, <2>2 DEF ParseOk
<1>. QED  BY <1>9, <1>10, <1>11 DEF TailInv

-----------------------------------------------------------------------------
(* Rows, lines and bookmarks left alone.                                   *)
LEMMA SameTail ==
  ASSUME TailInv, lines' = lines, usage' = usage, cursor' = cursor, parse' = parse
  PROVE  TailInv'
  BY DEF TailInv, LinesOk, Table, CursorOk, ParseOk

LEMMA TailStep == TailInv /\ [Next]_vars => TailInv'
<1>. SUFFICES ASSUME TailInv, [Next]_vars PROVE TailInv'
  OBVIOUS
<1>1. ASSUME NEW f \in Files, NEW new \in BOOLEAN, NEW tool \in BOOLEAN, NEW side \in BOOLEAN,
             Append1(f, new, tool, side)
      PROVE  TailInv'
  BY <1>1, AppendKeeps
<1>2. CASE Trigger
  BY <1>2, SameTail DEF Trigger
<1>3. CASE Begin
  <2>1. Opened(Server, Main, Subs) /\ Server \in Procs /\ Main \in Files /\ Subs \in SUBSET Subs
    BY <1>3 DEF Begin, Procs, Files
  <2>2. cursor' = cursor /\ lines' = lines /\ usage' = usage
    BY <1>3 DEF Begin
  <2>. QED  BY <2>1, <2>2, OpenedOk
<1>4. CASE Rescan
  <2>1. /\ cursor' = [f \in Files |-> Top] /\ lines' = lines /\ usage' = usage /\ parse' = parse
        /\ Top \in Cursor /\ Top.offset = 0 /\ Top.last = {}
    BY <1>4 DEF Rescan, Top, Cursor
  <2>2. ASSUME NEW f \in Files PROVE Marks(usage, f, lines[f], cursor'[f])
    BY <2>1, MarksTop DEF TailInv, LinesOk
  <2>3. CursorOk'
    BY <2>1, <2>2 DEF CursorOk
  <2>. QED  BY <2>1, <2>3 DEF TailInv, LinesOk, Table, ParseOk
<1>5. CASE IngestUsage
  <2>1. Opened(Cli, Main, Subs) /\ Cli \in Procs /\ Main \in Files /\ Subs \in SUBSET Subs
    BY <1>5 DEF IngestUsage, Procs, Files
  <2>2. cursor' = cursor /\ lines' = lines /\ usage' = usage
    BY <1>5 DEF IngestUsage
  <2>. QED  BY <2>1, <2>2, OpenedOk
<1>6. ASSUME NEW p \in Procs, Chunk(p) PROVE TailInv'
  BY <1>6, ChunkKeeps
<1>7. ASSUME NEW p \in Procs, NEW f \in parse[p].todo, Opened(p, f, parse[p].todo \ {f}),
             cursor' = cursor, lines' = lines, usage' = usage
      PROVE  TailInv'
  <2>1. parse[p].todo \in SUBSET Subs
    BY DEF TailInv, ParseOk, Parse
  <2>2. f \in Files /\ parse[p].todo \ {f} \in SUBSET Subs
    BY <2>1 DEF Files
  <2>. QED  BY <1>7, <2>2, OpenedOk
<1>8. ASSUME NEW p \in Procs, CaughtUp(p) PROVE TailInv'
  BY <1>7, <1>8, EndedOk DEF CaughtUp
<1>9. ASSUME NEW p \in Procs, ChunkFails(p) PROVE TailInv'
  BY <1>7, <1>9, EndedOk DEF ChunkFails
<1>10. ASSUME NEW p \in Procs, Crash(p) PROVE TailInv'
  BY <1>10, EndedOk DEF Crash
<1>11. CASE UNCHANGED vars
  BY <1>11, SameTail DEF vars
<1>. QED  BY <1>1, <1>2, <1>3, <1>4, <1>5, <1>6, <1>8, <1>9, <1>10, <1>11 DEF Next

LEMMA TailAlways == Spec => []TailInv
<1>. QED  BY TailInit, TailStep, PTL DEF Spec

-----------------------------------------------------------------------------
(* Whatever is read in pieces, twice, by both processes at once or after a *)
(* crash: what lies before a bookmark is in the table, once, and under its *)
(* own message only.                                                       *)
THEOREM NothingEverSkipped == Spec => []NothingSkipped
<1>1. TailInv => NothingSkipped
  <2>. SUFFICES ASSUME TailInv PROVE NothingSkipped
    OBVIOUS
  <2>1. ASSUME NEW f \in Files, NEW n \in 1 .. cursor[f].offset PROVE Read(f, n)
    BY DEF TailInv, CursorOk, Marks, InTable, Has, Read
  <2>2. ASSUME NEW r \in usage PROVE r.emitted \subseteq IdsOfMsg(r.file, r.msg)
    BY DEF TailInv, Table, RowOk, Ids, IdsOfMsg
  <2>. QED  BY <2>1, <2>2 DEF NothingSkipped, TailInv, Table
<1>. QED  BY <1>1, TailAlways, PTL

(* The number a row's Before gives is the one Previous computes.           *)
LEMMA PreviousIs ==
  ASSUME NEW f \in Files, Transcript(lines[f]), NEW x \in Nat \ {0}, NEW m \in Nat,
         Before(lines[f], x, m)
  PROVE  Previous(f, x) = m
<1>. DEFINE l == lines[f]
            T == {0} \cup {k \in Msgs(f) \ SideMsgs(f) : k < x}
<1>1. \A k \in DOMAIN l : l[k].msg \in Nat /\ (l[k].msg \notin SideMsgs(f) <=> ~l[k].side)
  <2>1. \A k \in DOMAIN l : l[k] \in Line
    <3>. HIDE DEF Line
    <3>. QED  BY DEF Transcript
  <2>. QED  BY <2>1 DEF Line, SideMsgs, Transcript
<1>2. m \in T
  BY <1>1 DEF Before, Msgs
<1>3. \A y \in T : y \in Nat /\ y <= m
  <2>. SUFFICES ASSUME NEW y \in T PROVE y \in Nat /\ y <= m
    OBVIOUS
  <2>1. CASE y = 0
    BY <2>1
  <2>2. CASE y # 0
    <3>1. PICK k \in DOMAIN l : l[k].msg = y /\ y < x /\ y \notin SideMsgs(f)
      BY <2>2 DEF Msgs
    <3>. QED  BY <1>1, <3>1 DEF Before
  <2>. QED  BY <2>1, <2>2
<1>4. Previous(f, x) = Max(T)
  BY DEF Previous
<1>. HIDE DEF T
<1>5. \A y \in T : m >= y
  BY <1>3
<1>6. Max(T) \in T /\ \A y \in T : Max(T) >= y
  BY <1>2, <1>5 DEF Max
<1>. DEFINE t == Max(T)
<1>. HIDE DEF t
<1>7. t \in T /\ t >= m
  BY <1>2, <1>6 DEF t
<1>8. t \in Nat /\ t <= m
  BY <1>3, <1>7
<1>9. t = m
  BY <1>7, <1>8
<1>. QED  BY <1>4, <1>9 DEF t

(* The ids a message is said to follow are the main-chain message's before *)
(* it, whichever read or process carried them there.                       *)
THEOREM AlwaysFollowsTheOneBefore == Spec => []FollowsTheOneBefore
<1>1. TailInv => FollowsTheOneBefore
  <2>. SUFFICES ASSUME TailInv, NEW r \in usage
                PROVE  r.follows \subseteq
                         IF r.msg \in SideMsgs(r.file) THEN {}
                         ELSE IdsOfMsg(r.file, Previous(r.file, r.msg))
    BY DEF FollowsTheOneBefore
  <2>. DEFINE f == r.file
              l == lines[f]
              x == r.msg
  <2>1. f \in Files /\ RowOk(l, r) /\ Transcript(l)
    BY DEF TailInv, Table, Row, LinesOk
  <2>2. IsSide(l, x) <=> x \in SideMsgs(f)
    BY DEF IsSide, SideMsgs
  <2>3. x \in Nat \ {0}
    <3>1. PICK n \in DOMAIN l : l[n].msg = x
      BY <2>1 DEF RowOk
    <3>2. l[n] \in Line
      <4>. HIDE DEF Line
      <4>. QED  BY <2>1 DEF Transcript
    <3>. QED  BY <3>1, <3>2 DEF Line
  <2>4. CASE IsSide(l, x)
    BY <2>1, <2>2, <2>4 DEF RowOk, Follows
  <2>5. CASE ~IsSide(l, x)
    <3>1. PICK m \in Nat : Before(l, x, m) /\ r.follows \subseteq Ids(l, m)
      BY <2>1, <2>5 DEF RowOk, Follows
    <3>2. Previous(f, x) = m
      BY <2>1, <2>3, <3>1, PreviousIs
    <3>3. IdsOfMsg(f, m) = Ids(l, m)
      BY DEF IdsOfMsg, Ids
    <3>. QED  BY <2>2, <2>5, <3>1, <3>2, <3>3
  <2>. QED  BY <2>4, <2>5
<1>. QED  BY <1>1, TailAlways, PTL
=============================================================================
