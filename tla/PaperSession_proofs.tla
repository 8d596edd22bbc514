------------------------- MODULE PaperSession_proofs -------------------------
(***************************************************************************)
(* Proofs about the paper-trading session, for any prices, targets,        *)
(* latencies, limits and fees, and sessions of any length.                 *)
(***************************************************************************)
EXTENDS PaperSession, FoldFacts

-----------------------------------------------------------------------------
(* The folds of the model.                                                 *)

Order == [ready : Int, qty : Int, mid : Nat \ {0}]

LEMMA OrderFields ==
    \A o \in Order : o.ready \in Int /\ o.qty \in Int /\ o.mid \in Nat \ {0}
BY DEF Order

\* The greatest of some of the first numbers, and of the first n.
LEMMA MaxOfSome ==
    ASSUME NEW n \in Nat, NEW s \in SUBSET (1 .. n), s # {}
    PROVE  Max(s) \in s /\ \A y \in s : Max(s) >= y
<1>1. s \in SUBSET Nat /\ \A x \in s : x <= n
  OBVIOUS
<1>2. \E x \in s : \A y \in s : x >= y
  BY <1>1, GreatestBounded
<1>3. QED
  BY <1>2 DEF Max

LEMMA MaxOfFirst ==
    ASSUME NEW n \in Nat, NEW k \in 1 .. n
    PROVE  Max(1 .. k) = k /\ (1 .. k) \ {Max(1 .. k)} = 1 .. (k - 1)
<1>1. (1 .. k) \in SUBSET (1 .. n) /\ k \in 1 .. k
  OBVIOUS
<1>2. Max(1 .. k) \in 1 .. k /\ \A y \in 1 .. k : Max(1 .. k) >= y
  BY <1>1, MaxOfSome
<1>3. Max(1 .. k) = k
  BY <1>1, <1>2
<1>4. QED
  BY <1>3

\* A fold over the places of a sequence takes them from the first to the last.
LEMMA FoldOfFirst ==
    ASSUME NEW n \in Nat, NEW V, NEW base \in V, NEW step, NEW next,
           next = [s \in SUBSET (1 .. n) |-> Max(s)],
           \A s \in SUBSET (1 .. n) : \A v \in V : s # {} => step[s][v] \in V
    PROVE  \E h \in [SUBSET (1 .. n) -> V] : Folds(h, 1 .. n, base, step, next)
<1>1. IsFiniteSet(1 .. n)
  BY FS_Interval
<1>2. \A s \in SUBSET (1 .. n) : s # {} => next[s] \in s
  BY MaxOfSome
<1>3. QED
  BY <1>1, <1>2, FoldExists

\* PendingAt, place by place.
LEMMA PendingAtFolds ==
    ASSUME pending \in Seq(Order), NEW places
    PROVE  \E h :
               /\ PendingAt(places) = h[1 .. Len(pending)]
               /\ h[1 .. 0] = <<>>
               /\ \A k \in 1 .. Len(pending) :
                      h[1 .. k] = IF k \in places THEN Append(h[1 .. (k - 1)], pending[k])
                                  ELSE h[1 .. (k - 1)]
<1> DEFINE n == Len(pending)
           D == 1 .. n
           next == [s \in SUBSET D |-> Max(s)]
           step == [s \in SUBSET D |-> [v \in Seq(Order) |->
                       IF Max(s) \in places THEN Append(v, pending[Max(s)]) ELSE v]]
           place == [i \in DOMAIN pending |-> i]
           Fold(h) == [s \in SUBSET DOMAIN place |->
                          IF s = {} THEN <<>>
                          ELSE IF place[Max(s)] \in places
                          THEN Append(h[s \ {Max(s)}], pending[place[Max(s)]])
                          ELSE h[s \ {Max(s)}]]
           c == CHOOSE h : h = Fold(h)
<1>1. n \in Nat /\ D = DOMAIN pending /\ \A k \in D : pending[k] \in Order
  OBVIOUS
<1>2. \A s \in SUBSET D : s # {} => Max(s) \in s /\ Max(s) \in D
  <2> HIDE DEF n
  <2> QED BY <1>1, MaxOfSome
<1>3. PICK h \in [SUBSET D -> Seq(Order)] : Folds(h, D, <<>>, step, next)
  <2>1. ASSUME NEW s \in SUBSET D, NEW v \in Seq(Order), s # {}
        PROVE  step[s][v] \in Seq(Order)
    <3>1. Append(v, pending[Max(s)]) \in Seq(Order)
      BY <1>1, <1>2, <2>1
    <3>2. step[s][v] = IF Max(s) \in places THEN Append(v, pending[Max(s)]) ELSE v
      OBVIOUS
    <3>3. QED
      BY <3>1, <3>2
  <2>2. <<>> \in Seq(Order)
    OBVIOUS
  <2> HIDE DEF step, n
  <2>3. QED
    BY <1>1, <2>1, <2>2, FoldOfFirst
<1>4. \A s \in SUBSET D : s # {} =>
          /\ step[s][h[s \ {next[s]}]] =
                 IF Max(s) \in places THEN Append(h[s \ {Max(s)}], pending[Max(s)])
                 ELSE h[s \ {Max(s)}]
          /\ place[Max(s)] = Max(s)
  <2>1. \A s \in SUBSET D : s # {} => h[s \ {Max(s)}] \in Seq(Order) /\ next[s] = Max(s)
    OBVIOUS
  <2>2. QED
    BY <1>1, <1>2, <2>1
<1>5. h = Fold(h)
  <2>1. SUBSET DOMAIN place = SUBSET D
    BY <1>1
  <2>2. h = [s \in SUBSET D |-> h[s]]
    OBVIOUS
  <2>3. ASSUME NEW s \in SUBSET D
        PROVE  h[s] = Fold(h)[s]
    <3>1. h[s] = IF s = {} THEN <<>> ELSE step[s][h[s \ {next[s]}]]
      BY <1>3 DEF Folds
    <3>2. Fold(h)[s] = IF s = {} THEN <<>>
                       ELSE IF place[Max(s)] \in places
                       THEN Append(h[s \ {Max(s)}], pending[place[Max(s)]])
                       ELSE h[s \ {Max(s)}]
      <4> HIDE DEF place
      <4> QED BY <2>1
    <3> HIDE DEF step, next, place, Fold
    <3>3. QED
      BY <1>4, <3>1, <3>2
  <2>4. Fold(h) = [s \in SUBSET D |-> Fold(h)[s]]
    <3> HIDE DEF place
    <3> QED BY <2>1
  <2> HIDE DEF Fold
  <2>5. QED
    BY <2>2, <2>3, <2>4
<1>6. c = Fold(c)
  <2> HIDE DEF Fold
  <2> QED BY <1>5
<1>7. PendingAt(places) = c[DOMAIN place]
  BY DEF PendingAt, FoldLeftDomain, FoldLeft, MapThenFoldSet
<1>8. \A s \in SUBSET D :
          c[s] = IF s = {} THEN <<>>
                 ELSE IF Max(s) \in places THEN Append(c[s \ {Max(s)}], pending[Max(s)])
                 ELSE c[s \ {Max(s)}]
  <2>1. \A s \in SUBSET D : s # {} => place[Max(s)] = Max(s)
    BY <1>4
  <2>2. SUBSET DOMAIN place = SUBSET D
    BY <1>1
  <2> HIDE DEF c, place
  <2>3. QED
    BY <1>6, <2>1, <2>2
<1>9. c[1 .. 0] = <<>>
  <2>1. 1 .. 0 = {} /\ (1 .. 0) \in SUBSET D
    OBVIOUS
  <2> HIDE DEF c, D
  <2>2. QED
    BY <1>8, <2>1
<1>10. ASSUME NEW k \in 1 .. n
       PROVE  c[1 .. k] = IF k \in places THEN Append(c[1 .. (k - 1)], pending[k])
                          ELSE c[1 .. (k - 1)]
  <2>1. (1 .. k) \in SUBSET D /\ k \in 1 .. k
    <3> HIDE DEF n
    <3> QED BY <1>1
  <2> HIDE DEF c, n
  <2>2. QED
    BY <1>1, <1>8, <2>1, MaxOfFirst
<1>11. DOMAIN place = 1 .. n
  BY <1>1
<1> HIDE DEF c, place
<1>12. QED
  BY <1>7, <1>9, <1>10, <1>11

Ordered(q) == \A i, j \in DOMAIN q : i < j => q[i].ready < q[j].ready

\* An order that is ready later than all others keeps them in order.
LEMMA AppendFacts ==
    ASSUME NEW q \in Seq(Order), Ordered(q), NEW o \in Order,
           \A i \in 1 .. Len(q) : q[i].ready < o.ready
    PROVE  /\ Append(q, o) \in Seq(Order)
           /\ Len(Append(q, o)) = Len(q) + 1
           /\ \A i \in 1 .. Len(Append(q, o)) :
                  \/ i = Len(Append(q, o)) /\ Append(q, o)[i] = o
                  \/ i \in 1 .. Len(q) /\ Append(q, o)[i] = q[i]
           /\ Ordered(Append(q, o))
<1> DEFINE r == Append(q, o)
<1>1. /\ r \in Seq(Order) /\ Len(r) = Len(q) + 1 /\ Len(q) \in Nat
      /\ \A i \in 1 .. Len(r) : (i = Len(r) /\ r[i] = o) \/ (i \in 1 .. Len(q) /\ r[i] = q[i])
      /\ DOMAIN r = 1 .. Len(r) /\ DOMAIN q = 1 .. Len(q)
  OBVIOUS
<1>2. SUFFICES ASSUME NEW i \in 1 .. Len(r), NEW j \in 1 .. Len(r), i < j
               PROVE  r[i].ready < r[j].ready
  <2> HIDE DEF r
  <2> QED BY <1>1 DEF Ordered, r
<1> HIDE DEF r
<1>3. i \in 1 .. Len(q) /\ r[i] = q[i]
  BY <1>1, <1>2
<1>4. CASE j = Len(r) /\ r[j] = o
  BY <1>3, <1>4
<1>5. CASE j \in 1 .. Len(q) /\ r[j] = q[j]
  BY <1>1, <1>2, <1>3, <1>5 DEF Ordered
<1>6. QED
  BY <1>1, <1>4, <1>5

\* Orders that are ready at different bars between two are no more than those bars.
LEMMA OrderedLength ==
    ASSUME NEW q \in Seq(Order), Ordered(q), NEW from \in Int, NEW to \in Int, from < to,
           \A i \in 1 .. Len(q) : from < q[i].ready /\ q[i].ready < to
    PROVE  Len(q) < to - from
<1> DEFINE n == Len(q)
           Good == {k \in 0 .. n : k = 0 \/ q[k].ready >= from + k}
<1>1. n \in Nat /\ DOMAIN q = 1 .. n /\ \A i \in 1 .. n : q[i].ready \in Int
  <2>1. \A i \in 1 .. n : q[i] \in Order
    OBVIOUS
  <2>2. QED
    BY <2>1, OrderFields
<1>2. 0 \in Good
  BY <1>1
<1>3. ASSUME NEW k \in 1 .. n, k - 1 \in Good
      PROVE  k \in Good
  <2>1. CASE k = 1
    BY <1>1, <2>1
  <2>2. CASE k # 1
    <3>1. q[k - 1].ready < q[k].ready /\ q[k - 1].ready >= from + (k - 1)
      <4>1. k - 1 \in 1 .. n /\ k - 1 < k
        BY <2>2
      <4>2. QED
        BY <1>1, <1>3, <2>2, <4>1 DEF Ordered
    <3>2. q[k].ready \in Int /\ q[k - 1].ready \in Int
      BY <1>1, <2>2
    <3>3. QED
      BY <3>1, <3>2, SMTT(30)
  <2>3. QED
    BY <2>1, <2>2
<1>4. \A k \in 0 .. n : k \in Good
  <2> HIDE DEF Good, n
  <2> QED BY <1>1, <1>2, <1>3, IntervalInduction
<1>5. n = 0 \/ q[n].ready >= from + n
  BY <1>1, <1>4
<1>6. QED
  BY <1>1, <1>5

\* The orders at some places are some of the pending orders, in their order.
LEMMA PendingAtFacts ==
    ASSUME pending \in Seq(Order), Ordered(pending), NEW places
    PROVE  /\ PendingAt(places) \in Seq(Order)
           /\ Len(PendingAt(places)) <= Len(pending)
           /\ Ordered(PendingAt(places))
           /\ \A i \in DOMAIN PendingAt(places) : \E j \in DOMAIN pending :
                  j \in places /\ PendingAt(places)[i] = pending[j]
<1> DEFINE n == Len(pending)
           From(q, k) ==
               /\ q \in Seq(Order) /\ Len(q) <= k /\ Ordered(q)
               /\ \A i \in 1 .. Len(q) : \E j \in 1 .. k : j \in places /\ q[i] = pending[j]
<1>1. PICK h : /\ PendingAt(places) = h[1 .. n]
               /\ h[1 .. 0] = <<>>
               /\ \A k \in 1 .. n :
                      h[1 .. k] = IF k \in places THEN Append(h[1 .. (k - 1)], pending[k])
                                  ELSE h[1 .. (k - 1)]
  BY PendingAtFolds
<1> DEFINE Good == {k \in 0 .. n : From(h[1 .. k], k)}
<1>2. n \in Nat
  OBVIOUS
<1>3. 0 \in Good
  <2>1. From(<<>>, 0)
    BY DEF Ordered
  <2> HIDE DEF From
  <2>2. QED
    BY <1>1, <1>2, <2>1
<1>4. ASSUME NEW k \in 1 .. n, k - 1 \in Good
      PROVE  k \in Good
  <2> DEFINE q == h[1 .. (k - 1)]
  <2>1. From(q, k - 1) /\ pending[k] \in Order
    BY <1>4
  <2>2. h[1 .. k] = IF k \in places THEN Append(q, pending[k]) ELSE q
    BY <1>1
  <2> HIDE DEF q
  <2>3. ASSUME k \in places
        PROVE  From(Append(q, pending[k]), k)
    <3> DEFINE r == Append(q, pending[k])
    <3>1. \A i \in 1 .. Len(q) : q[i].ready < pending[k].ready
      <4>1. \A j \in 1 .. (k - 1) : pending[j].ready < pending[k].ready
        BY DEF Ordered
      <4>2. QED
        BY <2>1, <4>1
    <3>2. /\ r \in Seq(Order) /\ Len(r) = Len(q) + 1 /\ Ordered(r)
          /\ \A i \in 1 .. Len(r) : 
                 (i = Len(r) /\ r[i] = pending[k]) \/ (i \in 1 .. Len(q) /\ r[i] = q[i])
      BY <2>1, <3>1, AppendFacts
    <3>3. \A i \in 1 .. Len(r) : \E j \in 1 .. k : j \in places /\ r[i] = pending[j]
      <4>1. k \in 1 .. k /\ \A j \in 1 .. (k - 1) : j \in 1 .. k
        OBVIOUS
      <4> HIDE DEF r
      <4>2. QED
        BY <2>1, <2>3, <3>2, <4>1
    <3> HIDE DEF r
    <3>4. QED
      BY <2>1, <3>2, <3>3 DEF r
  <2>4. From(q, k)
    BY <2>1
  <2> HIDE DEF From
  <2>5. QED
    BY <2>2, <2>3, <2>4
<1>5. n \in Good
  <2> HIDE DEF Good, n
  <2>1. \A k \in 0 .. n : k \in Good
    BY <1>2, <1>3, <1>4, IntervalInduction
  <2>2. QED
    BY <1>2, <2>1
<1>6. From(PendingAt(places), n)
  BY <1>1, <1>5
<1>7. QED
  <2> DEFINE q == PendingAt(places)
  <2>1. DOMAIN q = 1 .. Len(q) /\ DOMAIN pending = 1 .. n
    BY <1>6
  <2>2. QED
    BY <1>6, <2>1

\* The due orders in turn: the session stays in any set that Applied stays within, no
\* order leaves it alone, and a single one is applied as it is.
LEMMA FilledFacts ==
    ASSUME NEW V, NEW s \in V, NEW n \in Nat, NEW fills \in [1 .. n -> Int], NEW price,
           \A v \in V : \A lots \in Int : Applied(v, lots, price) \in V
    PROVE  /\ Filled(s, fills, price) \in V
           /\ n = 0 => Filled(s, fills, price) = s
<1> DEFINE D == 1 .. n
           next == [u \in SUBSET D |-> Max(u)]
           step == [u \in SUBSET D |-> [v \in V |-> Applied(v, fills[Max(u)], price)]]
           Fold(h) == [u \in SUBSET DOMAIN fills |->
                          IF u = {} THEN s ELSE Applied(h[u \ {Max(u)}], fills[Max(u)], price)]
           c == CHOOSE h : h = Fold(h)
<1>1. \A u \in SUBSET D : u # {} => Max(u) \in u /\ Max(u) \in D
  BY MaxOfSome
<1>2. PICK h \in [SUBSET D -> V] : Folds(h, D, s, step, next)
  <2>1. ASSUME NEW u \in SUBSET D, NEW v \in V, u # {}
        PROVE  step[u][v] \in V
    <3>1. fills[Max(u)] \in Int
      BY <1>1, <2>1
    <3>2. step[u][v] = Applied(v, fills[Max(u)], price)
      OBVIOUS
    <3>3. QED
      BY <3>1, <3>2
  <2> HIDE DEF step
  <2>2. QED
    BY <2>1, FoldOfFirst
<1>3. h = Fold(h)
  <2>1. SUBSET DOMAIN fills = SUBSET D
    OBVIOUS
  <2>2. h = [u \in SUBSET D |-> h[u]]
    OBVIOUS
  <2>3. ASSUME NEW u \in SUBSET D
        PROVE  h[u] = Fold(h)[u]
    <3>1. h[u] = IF u = {} THEN s ELSE step[u][h[u \ {next[u]}]]
      BY <1>2 DEF Folds
    <3>2. Fold(h)[u] =
              IF u = {} THEN s ELSE Applied(h[u \ {Max(u)}], fills[Max(u)], price)
      BY <2>1
    <3>3. h[u \ {Max(u)}] \in V /\ next[u] = Max(u)
      OBVIOUS
    <3>4. step[u][h[u \ {Max(u)}]] = Applied(h[u \ {Max(u)}], fills[Max(u)], price)
      BY <3>3
    <3> HIDE DEF step, next, Fold
    <3>5. QED
      BY <3>1, <3>2, <3>3, <3>4
  <2>4. Fold(h) = [u \in SUBSET D |-> Fold(h)[u]]
    BY <2>1
  <2> HIDE DEF Fold
  <2>5. QED
    BY <2>2, <2>3, <2>4
<1>4. c = Fold(c)
  <2> HIDE DEF Fold
  <2> QED BY <1>3
<1>5. Filled(s, fills, price) = c[DOMAIN fills]
  BY DEF Filled, FoldLeft, MapThenFoldSet
<1>6. DOMAIN fills = D
  OBVIOUS
<1>7. \A u \in SUBSET D :
          c[u] = IF u = {} THEN s ELSE Applied(c[u \ {Max(u)}], fills[Max(u)], price)
  <2> HIDE DEF c
  <2> QED BY <1>4, <1>6
<1>8. c[1 .. 0] = s
  <2>1. 1 .. 0 = {} /\ (1 .. 0) \in SUBSET D
    OBVIOUS
  <2> HIDE DEF c, D
  <2>2. QED
    BY <1>7, <2>1
<1>9. ASSUME NEW k \in 1 .. n
      PROVE  c[1 .. k] = Applied(c[1 .. (k - 1)], fills[k], price)
  <2>1. (1 .. k) \in SUBSET D /\ k \in 1 .. k
    OBVIOUS
  <2> HIDE DEF c
  <2>2. QED
    BY <1>7, <2>1, MaxOfFirst
<1>10. Filled(s, fills, price) = c[1 .. n]
  BY <1>5, <1>6
<1> DEFINE Good == {k \in 0 .. n : c[1 .. k] \in V}
<1>11. 0 \in Good
  BY <1>8
<1>12. ASSUME NEW k \in 1 .. n, k - 1 \in Good
       PROVE  k \in Good
  <2>1. c[1 .. (k - 1)] \in V /\ fills[k] \in Int
    BY <1>12
  <2> HIDE DEF c
  <2>2. QED
    BY <1>9, <2>1
<1>13. \A k \in 0 .. n : k \in Good
  <2> HIDE DEF Good
  <2> QED BY <1>11, <1>12, IntervalInduction
<1>14. c[1 .. n] \in V
  <2> HIDE DEF c
  <2> QED BY <1>13
<1> HIDE DEF c
<1>15. n = 0 => c[1 .. n] = s
  BY <1>8
<1>16. QED
  BY <1>10, <1>14, <1>15

-----------------------------------------------------------------------------
(* The books.                                                              *)

\* What a fill does to a position: the signed cost and the realised profit change by what
\* the lots are worth together, through partial fills, reductions and flips.
LEMMA PositionFacts ==
    ASSUME NEW p \in Position, p.qty = 0 <=> p.cost = 0, NEW f,
           f.qty \in Int \ {0}, f.price \in Nat \ {0}
    PROVE  /\ PositionAfter(p, f).qty = p.qty + f.qty
           /\ PositionAfter(p, f).cost \in Nat
           /\ PositionAfter(p, f).qty = 0 <=> PositionAfter(p, f).cost = 0
           /\ RealizedBy(p, f) \in Int
           /\ Sign(PositionAfter(p, f).qty) * PositionAfter(p, f).cost - RealizedBy(p, f)
                = Sign(p.qty) * p.cost + f.qty * f.price
<1> DEFINE q == p.qty
           c == p.cost
           after == PositionAfter(p, f)
           cc == ClosedCost(p, f)
           l == f.qty
           u == f.price
<1>0. q \in Int /\ c \in Nat /\ (q = 0 <=> c = 0)
  BY DEF Position
<1>1. after.qty = q + l
  BY DEF PositionAfter
<1>2. CASE Adds(p, f)
  <2>1. after.cost = c + Magnitude(l) * u /\ Closed(p, f) = 0
    BY <1>0, <1>2 DEF PositionAfter, Closed
  <2>2. cc = 0
    BY <1>0, <2>1, Share DEF ClosedCost, Magnitude
  <2>3. RealizedBy(p, f) = 0
    BY <1>0, <2>1, <2>2 DEF RealizedBy, Sign
  <2>4. Magnitude(l) * u \in Nat \ {0} /\ Sign(l) * (Magnitude(l) * u) = l * u
    BY DEF Magnitude, Sign
  <2>5. (q >= 0 /\ l > 0) \/ (q <= 0 /\ l < 0)
    BY <1>0, <1>2 DEF Adds, Sign
  <2>6. QED
    BY <1>0, <1>1, <2>1, <2>3, <2>4, <2>5 DEF Sign
<1>3. CASE ~Adds(p, f)
  <2>1. (q > 0 /\ l < 0) \/ (q < 0 /\ l > 0)
    BY <1>0, <1>3 DEF Adds, Sign
  <2>2. c \in Nat \ {0} /\ Magnitude(q) \in Nat \ {0} /\ Magnitude(l) \in Nat \ {0}
    BY <1>0, <2>1 DEF Magnitude
  <2> DEFINE k == Lesser(Magnitude(q), Magnitude(l))
  <2>3. Closed(p, f) = k /\ k \in 0 .. Magnitude(q) /\ k > 0
    BY <1>0, <1>3, <2>2 DEF Closed, Lesser
  <2>4. cc = (c * k) \div Magnitude(q)
    BY <1>0, <2>1, <2>3 DEF ClosedCost
  <2>5. /\ cc \in 0 .. c /\ (k = Magnitude(q) => cc = c) /\ (k < Magnitude(q) => cc < c)
    <3> DEFINE m == Magnitude(q)
    <3>1. c \in Nat /\ m \in Nat \ {0} /\ k \in 0 .. m /\ cc = (c * k) \div m
      BY <1>0, <2>2, <2>3, <2>4
    <3> HIDE DEF k, cc, m
    <3>2. /\ (c * k) \div m \in 0 .. c
          /\ k = m => (c * k) \div m = c
          /\ k < m /\ c > 0 => (c * k) \div m < c
      BY <1>0, <3>1, Share
    <3>3. QED
      BY <1>0, <2>2, <3>1, <3>2 DEF m
  <2>6. RealizedBy(p, f) = Sign(q) * (u * k - cc)
    BY <1>0, <2>3 DEF RealizedBy
  <2>7. u * k \in Int
    BY <1>0, <2>3
  <2>8. CASE Magnitude(l) <= Magnitude(q)
    <3>1. k = Magnitude(l) /\ after.cost = c - cc
      BY <1>0, <1>3, <2>1, <2>8 DEF PositionAfter, Lesser, Sign, Magnitude
    <3>2. Sign(q) * (u * k) = -(l * u)
      BY <1>0, <2>1, <3>1 DEF Sign, Magnitude
    <3>3. q + l = 0 <=> k = Magnitude(q)
      BY <1>0, <2>1, <3>1 DEF Magnitude
    <3>4. Sign(q + l) = IF q + l = 0 THEN 0 ELSE Sign(q)
      BY <1>0, <2>1, <2>8 DEF Sign, Magnitude
    <3> DEFINE worth == u * k
               paid == l * u
    <3>5. worth \in Int /\ paid \in Int /\ RealizedBy(p, f) = Sign(q) * (worth - cc)
          /\ Sign(q) * worth = -paid
      BY <1>0, <2>6, <2>7, <3>2
    <3>6. cc \in 0 .. c /\ (q + l = 0 => cc = c) /\ (q + l # 0 => cc < c)
      <4> HIDE DEF k, cc
      <4> QED BY <2>2, <2>3, <2>5, <3>3
    <3>7. Sign(q + l) * (c - cc) = Sign(q) * c - Sign(q) * cc
      <4> HIDE DEF q, c, k, cc, l
      <4>1. CASE q > 0
        BY <1>0, <4>1, <2>1, <3>4, <3>6 DEF Sign
      <4>2. CASE q < 0
        BY <1>0, <4>2, <2>1, <3>4, <3>6 DEF Sign
      <4>3. QED
        BY <2>1, <4>1, <4>2
    <3> HIDE DEF k, cc, worth, paid, after, q, c, l
    <3>8. after.cost \in Nat /\ (q + l = 0 <=> after.cost = 0)
      BY <1>0, <3>1, <3>6
    <3>9. RealizedBy(p, f) \in Int
          /\ Sign(q + l) * after.cost - RealizedBy(p, f) = Sign(q) * c + paid
      <4>1. Sign(q) \in Int /\ Sign(q) * (worth - cc) = Sign(q) * worth - Sign(q) * cc
            /\ Sign(q) * cc \in Int /\ Sign(q) * c \in Int
        BY <1>0, <2>1, <3>5, <3>6 DEF Sign
      <4>2. Sign(q + l) * after.cost = Sign(q) * c - Sign(q) * cc
        BY <3>1, <3>7
      <4>3. RealizedBy(p, f) = -paid - Sign(q) * cc
        BY <3>5, <4>1
      <4>4. QED
        BY <3>5, <4>1, <4>2, <4>3
    <3>10. QED
      BY <1>0, <1>1, <3>8, <3>9 DEF after, paid, q, c, l
  <2>9. CASE Magnitude(l) > Magnitude(q)
    <3>1. k = Magnitude(q) /\ Sign(q + l) = -Sign(q) /\ q + l # 0
      BY <1>0, <2>1, <2>9 DEF Lesser, Sign, Magnitude
    <3>2. after.cost = Magnitude(q + l) * u
      BY <1>0, <1>3, <3>1 DEF PositionAfter
    <3>3. Magnitude(q + l) * u \in Nat \ {0} /\ Sign(q + l) * (Magnitude(q + l) * u) = (q + l) * u
      BY <1>0, <3>1 DEF Sign, Magnitude
    <3>4. Sign(q) * (u * k) = q * u /\ (q + l) * u = q * u + l * u
      BY <1>0, <3>1 DEF Sign, Magnitude
    <3> HIDE DEF k, cc
    <3>5. QED
      BY <1>0, <1>1, <2>1, <2>3, <2>5, <2>6, <2>7, <3>1, <3>2, <3>3, <3>4 DEF Sign
  <2>10. QED
    BY <1>0, <2>2, <2>8, <2>9
<1>4. QED
  BY <1>0, <1>2, <1>3

\* A session whose books balance, with a peak above 0.
Session ==
  [cash : Int, qty : Int, cost : Nat, realized : Int, fees : Int, equity : Int,
   peak : Int, dayStart : Int]
Balanced(s) ==
  /\ s.cash + Sign(s.qty) * s.cost = Capital + s.realized - s.fees
  /\ s.qty = 0 <=> s.cost = 0
Sound == {s \in Session : Balanced(s) /\ s.peak >= s.equity /\ s.peak > 0}

LEMMA MaxOfTwo ==
    ASSUME NEW a \in Int, NEW b \in Int
    PROVE  Max({a, b}) \in Int /\ Max({a, b}) >= a /\ Max({a, b}) >= b
<1>1. \E x \in {a, b} : \A y \in {a, b} : x >= y
  <2>1. CASE a >= b
    BY <2>1
  <2>2. CASE ~(a >= b)
    BY <2>2
  <2>3. QED
    BY <2>1, <2>2
<1>2. Max({a, b}) \in {a, b} /\ \A y \in {a, b} : Max({a, b}) >= y
  BY <1>1 DEF Max
<1>3. QED
  BY <1>2

\* A mark changes the equity and raises the peak with it.
LEMMA MarkedFacts ==
    ASSUME NEW s \in Session, Balanced(s), s.peak > 0, NEW price \in Nat
    PROVE  /\ Marked(s, price) \in Sound
           /\ Marked(s, price).qty = s.qty
           /\ Marked(s, price).equity = Marked(s, price).cash + s.qty * price
<1> DEFINE e == s.cash + s.qty * price
           m == Max({s.peak, e})
<1>1. e \in Int
  BY DEF Session
<1>2. m \in Int /\ m >= e /\ m >= s.peak
  <2> HIDE DEF e
  <2> QED BY <1>1, MaxOfTwo DEF Session
<1>3. Marked(s, price) = [s EXCEPT !.equity = e, !.peak = m]
  BY DEF Marked
<1>4. e = s.cash + s.qty * price
  OBVIOUS
<1>5. s.peak \in Int /\ m > 0
  <2> HIDE DEF e, m
  <2> QED BY <1>2 DEF Session
<1> DEFINE v == Marked(s, price)
<1> HIDE DEF e, m
<1>6. /\ v \in Session /\ v.qty = s.qty /\ v.cost = s.cost /\ v.cash = s.cash
      /\ v.realized = s.realized /\ v.fees = s.fees /\ v.equity = e /\ v.peak = m
  BY <1>1, <1>2, <1>3 DEF Session
<1> HIDE DEF v
<1>7. v \in Sound /\ v.qty = s.qty /\ v.equity = v.cash + s.qty * price
  BY <1>2, <1>4, <1>5, <1>6 DEF Sound, Balanced
<1>8. QED
  BY <1>7 DEF v

\* What any fill leaves behind.
LEMMA AppliedFacts ==
    ASSUME NEW s \in Sound, NEW lots \in Int, NEW price \in Prices
    PROVE  /\ Applied(s, lots, price) \in Sound
           /\ Applied(s, lots, price).qty = s.qty + lots
<1> DEFINE p == [qty |-> s.qty, cost |-> s.cost]
           paid == FillPrice(lots, price)
           f == [inst |-> BTC, qty |-> lots, price |-> paid, fee |-> Fee * Magnitude(lots)]
           r == [s EXCEPT !.cash = @ - lots * f.price - f.fee,
                          !.qty = PositionAfter(p, f).qty,
                          !.cost = PositionAfter(p, f).cost,
                          !.realized = @ + RealizedBy(p, f),
                          !.fees = @ + f.fee]
<1>0. price \in Nat \ {0} /\ paid \in Nat \ {0}
  BY PaperAssumption DEF FillPrice, Sign
<1>1. s \in Session /\ Balanced(s) /\ s.peak > 0
  BY DEF Sound
<1> HIDE DEF paid
<1>2. CASE lots = 0
  BY <1>1, <1>2 DEF Applied, Session
<1>3. CASE lots # 0
  <2> DEFINE q == PositionAfter(p, f).qty
             c == PositionAfter(p, f).cost
             g == RealizedBy(p, f)
             v == lots * f.price
             w == f.fee
  <2>1. /\ q = s.qty + lots /\ c \in Nat /\ (q = 0 <=> c = 0) /\ g \in Int
        /\ Sign(q) * c - g = Sign(s.qty) * s.cost + v
    <3>1. /\ f.qty = lots /\ f.price = paid
          /\ p \in Position /\ p.qty = s.qty /\ p.cost = s.cost
          /\ (p.qty = 0 <=> p.cost = 0)
      BY <1>1 DEF Session, Balanced, Position
    <3> HIDE DEF f, p
    <3>2. QED
      BY <1>0, <1>3, <3>1, PositionFacts
  <2>2. v \in Int /\ w \in Int
    BY <1>0, PaperAssumption DEF Magnitude
  <2>3. r = [s EXCEPT !.cash = @ - v - w, !.qty = q, !.cost = c, !.realized = @ + g, !.fees = @ + w]
    OBVIOUS
  <2>4. Applied(s, lots, price) = Marked(r, price)
    BY <1>3 DEF Applied, paid
  <2> HIDE DEF q, c, g, v, w, r
  <2>5. r \in Session /\ r.qty = s.qty + lots /\ r.peak > 0
    <3>1. /\ s.cash - v - w \in Int /\ q \in Int /\ s.realized + g \in Int /\ s.fees + w \in Int
      BY <1>1, <2>1, <2>2 DEF Session
    <3>2. QED
      BY <1>1, <2>1, <2>3, <3>1 DEF Session
  <2>6. Balanced(r)
    <3>1. /\ r.cash = s.cash - v - w /\ r.qty = q /\ r.cost = c
          /\ r.realized = s.realized + g /\ r.fees = s.fees + w
      BY <1>1, <2>3 DEF Session
    <3>2. /\ {s.cash, s.realized, s.fees, Sign(q) * c, Sign(s.qty) * s.cost} \subseteq Int
      BY <1>1, <2>1 DEF Session, Sign
    <3> DEFINE new == Sign(q) * c
               old == Sign(s.qty) * s.cost
    <3>3. s.cash + old = Capital + s.realized - s.fees /\ new - g = old + v
      BY <1>1, <2>1 DEF Balanced
    <3>4. new \in Int /\ old \in Int /\ Capital \in Int
      BY <3>2, AccountingAssumption
    <3> HIDE DEF new, old
    <3>5. r.cash + new = Capital + r.realized - r.fees
      BY <2>1, <2>2, <3>1, <3>2, <3>3, <3>4
    <3>6. QED
      BY <2>1, <3>1, <3>5 DEF Balanced, new
  <2>7. QED
    BY <1>0, <2>4, <2>5, <2>6, MarkedFacts
<1>4. QED
  BY <1>2, <1>3

-----------------------------------------------------------------------------
(* The invariant.                                                          *)

\* Everything but the limits: the orders wait in the order of their bars, each for a bar
\* of its own among the next ones, and the session is sound.
PaperInv ==
  /\ latency \in Nat /\ bar \in Nat /\ {seen, halted} \subseteq BOOLEAN
  /\ session \in Sound
  /\ pending \in Seq(Order) /\ Ordered(pending) /\ Len(pending) <= latency
  /\ \A k \in DOMAIN pending : pending[k].qty # 0 /\ pending[k].ready < bar + latency

\* Lots that take a position to within the limit, or nearer to zero.
Limit == Lesser(MaxPosition, MaxGross)
Sized(held, lots, price, equity) ==
  \/ held + lots \in (0 .. held) \cup (held .. 0)
  \/ 100 * Magnitude(held + lots) * price <= Limit * equity

LEMMA ClipFacts ==
    ASSUME NEW n \in Int, NEW b \in Nat
    PROVE  /\ Clip(n, b) \in Int /\ -b <= Clip(n, b) /\ Clip(n, b) <= b
           /\ (0 <= Clip(n, b) /\ Clip(n, b) <= n) \/ (n <= Clip(n, b) /\ Clip(n, b) <= 0)
           /\ \A m \in Nat : -m <= n /\ n <= m => -m <= Clip(n, b) /\ Clip(n, b) <= m
BY DEF Clip

LEMMA LimitFacts ==
    MaxPosition \in Nat /\ MaxGross \in Nat /\ MaxTurnover \in Nat /\ Limit \in Nat
BY PaperAssumption DEF Limit, Lesser

\* The lots of an amount are worth a part of it.
LEMMA WholeLotsFacts ==
    ASSUME NEW n \in Int, NEW price \in Nat \ {0}
    PROVE  /\ WholeLots(n, price) \in Int
           /\ \/ 0 <= WholeLots(n, price) /\ 100 * WholeLots(n, price) * price <= n
              \/ n <= 100 * WholeLots(n, price) * price /\ WholeLots(n, price) <= 0
<1> DEFINE b == 100 * price
           m == Magnitude(n)
           k == m \div b
           d == WholeLots(n, price)
<1>1. b \in Nat \ {0} /\ m \in Nat
  BY DEF Magnitude
<1>2. k \in Nat /\ b * k <= m
  <2> HIDE DEF b, m
  <2> QED BY <1>1
<1>3. d = Sign(n) * k
  BY DEF WholeLots
<1>4. 100 * k * price = b * k /\ 100 * (-k) * price = -(b * k)
  <2>1. k \in Int /\ price \in Int
    BY <1>2
  <2> HIDE DEF k
  <2>2. QED
    BY <2>1
<1> HIDE DEF k, b, d
<1>5. CASE n < 0
  <2>1. d = -k /\ m = -n
    BY <1>2, <1>3, <1>5 DEF Sign, Magnitude
  <2>2. QED
    BY <1>1, <1>2, <1>4, <1>5, <2>1 DEF d
<1>6. CASE n = 0
  <2>1. d = 0
    BY <1>2, <1>3, <1>6 DEF Sign
  <2>2. QED
    BY <1>6, <2>1 DEF d
<1>7. CASE n > 0
  <2>1. d = k /\ m = n
    BY <1>2, <1>3, <1>7 DEF Sign, Magnitude
  <2>2. QED
    BY <1>1, <1>2, <1>4, <1>7, <2>1 DEF d
<1>8. QED
  BY <1>5, <1>6, <1>7

\* An order ends between the position and the clipped target: within the limit, or nearer
\* to zero than the position.
LEMMA OrderLotsFacts ==
    ASSUME NEW s \in Session, s.equity > 0, NEW target \in Int, NEW price \in Nat \ {0}
    PROVE  /\ OrderLots(s, target, price) \in Int
           /\ Sized(s.qty, OrderLots(s, target, price), price, s.equity)
<1> DEFINE a == Clip(target, MaxPosition)
           t == Clip(a, MaxGross)
           q == s.qty
           e == s.equity
           w == t * e
           h == Held(s, price)
           u == MaxTurnover * e
           c == Clip(w - h, u)
           d == WholeLots(c, price)
<1>1. q \in Int /\ e \in Nat
  BY DEF Session
<1>2. -Limit <= t /\ t <= Limit /\ t \in Int
  <2>1. a \in Int /\ -MaxPosition <= a /\ a <= MaxPosition
    BY ClipFacts, LimitFacts
  <2> HIDE DEF a
  <2>2. t \in Int /\ -MaxGross <= t /\ t <= MaxGross /\ -MaxPosition <= t /\ t <= MaxPosition
    BY <2>1, ClipFacts, LimitFacts
  <2> HIDE DEF t
  <2>3. QED
    BY <2>2, LimitFacts DEF Limit, Lesser
<1> HIDE DEF t, q, e
<1>3. w \in Int /\ Limit * e \in Int /\ -(Limit * e) <= w /\ w <= Limit * e
  <2>1. Limit \in Nat
    BY LimitFacts
  <2>2. (-Limit) * e <= t * e /\ t * e <= Limit * e
    BY <1>1, <1>2, <2>1
  <2>3. (-Limit) * e = -(Limit * e) /\ Limit * e \in Int /\ t * e \in Int
    BY <1>1, <1>2, <2>1
  <2>4. QED
    BY <2>2, <2>3
<1>4. h = 100 * q * price /\ h \in Int /\ u \in Nat
  BY <1>1, LimitFacts DEF Held, q
<1>5. OrderLots(s, target, price) = d
  <2>1. Approved(s, target, price) = h + c
    BY DEF Approved, t, e
  <2>2. c \in Int
    <3> HIDE DEF w, h, u
    <3> QED BY <1>3, <1>4, ClipFacts
  <2>3. OrderLots(s, target, price) = WholeLots(Approved(s, target, price) - h, price)
    BY DEF OrderLots
  <2> HIDE DEF h, c, w, u
  <2>4. Approved(s, target, price) - h = c
    BY <1>4, <2>1, <2>2
  <2>5. QED
    BY <2>3, <2>4
<1> HIDE DEF w, h, u
<1>6. c \in Int /\ ((0 <= c /\ c <= w - h) \/ (w - h <= c /\ c <= 0))
  <2>1. w - h \in Int
    BY <1>3, <1>4
  <2>2. QED
    BY <1>4, <2>1, ClipFacts
<1> HIDE DEF c
<1>7. d \in Int /\ ((0 <= d /\ 100 * d * price <= c) \/ (c <= 100 * d * price /\ d <= 0))
  BY <1>6, WholeLotsFacts
<1> HIDE DEF d
<1> DEFINE v == 100 * d * price
           g == 100 * (q + d) * price
<1>8. v \in Int /\ g = h + v /\ (d >= 0 => v >= 0) /\ (d <= 0 => v <= 0)
  <2>1. q \in Int /\ d \in Int /\ price \in Nat
    BY <1>1, <1>7
  <2>2. 100 * (q + d) * price = 100 * q * price + 100 * d * price
    BY <2>1
  <2>3. (d >= 0 => 100 * d * price >= 0) /\ (d <= 0 => 100 * d * price <= 0)
    BY <2>1
  <2>4. QED
    BY <1>4, <2>1, <2>2, <2>3
<1>9. 100 * Magnitude(q + d) * price = IF q + d < 0 THEN -g ELSE g
  <2>1. q \in Int /\ d \in Int /\ price \in Nat
    BY <1>1, <1>7
  <2>2. 100 * (-(q + d)) * price = -(100 * (q + d) * price)
    BY <2>1
  <2>3. QED
    BY <2>1, <2>2 DEF Magnitude
<1>10. q + d < 0 => g <= 0
  BY <1>1, <1>7
<1>11. q + d >= 0 => g >= 0
  BY <1>1, <1>7
<1>12. v <= c \/ c <= v
  BY <1>7
<1> HIDE DEF v
<1>13. g \in Int
  BY <1>4, <1>8
<1>14. (0 <= d /\ g <= w) \/ (d <= 0 /\ w <= g)
  <2>1. (0 <= d /\ v <= c) \/ (c <= v /\ d <= 0)
    BY <1>7 DEF v
  <2> HIDE DEF g
  <2>2. QED
    BY <1>3, <1>4, <1>6, <1>7, <1>8, <2>1
<1> HIDE DEF g
<1>15. Sized(q, d, price, e)
  <2>1. CASE 0 <= d /\ g <= w
    <3>1. q + d < 0 => q + d \in q .. 0
      BY <1>1, <1>7, <2>1
    <3>2. q + d >= 0 => 100 * Magnitude(q + d) * price <= Limit * e
      BY <1>1, <1>3, <1>7, <1>9, <1>13, <2>1
    <3>3. QED
      BY <1>1, <1>7, <3>1, <3>2 DEF Sized
  <2>2. CASE d <= 0 /\ w <= g
    <3>1. q + d >= 0 => q + d \in 0 .. q
      BY <1>1, <1>7, <2>2
    <3>2. q + d < 0 => 100 * Magnitude(q + d) * price <= Limit * e
      BY <1>1, <1>3, <1>7, <1>9, <1>13, <2>2
    <3>3. QED
      BY <1>1, <1>7, <3>1, <3>2 DEF Sized
  <2>3. QED
    BY <1>14, <2>1, <2>2
<1>16. QED
  BY <1>5, <1>7, <1>15 DEF q, e

\* An order fills in whole, in part or not at all.
LEMMA FillsOfFacts ==
    ASSUME NEW o \in Order, NEW got \in FillsOf(o)
    PROVE  /\ got \in Int
           /\ (0 <= got /\ got <= o.qty) \/ (o.qty <= got /\ got <= 0)
BY DEF FillsOf, Order, Sign, Magnitude

-----------------------------------------------------------------------------
(* One candle.                                                             *)

\* The session that the orders of a bar are planned for.
After(price, newDay, fills) == Marked(Filled(Rolled(session, newDay), fills, price), price)

\* The due orders have been filled, in a sound session at the price of the bar; without
\* them its position is what it was.
LEMMA AfterFacts ==
    ASSUME PaperInv, NEW price \in Prices, NEW newDay \in BOOLEAN,
           NEW fills \in FillChoices,
           \A k \in DOMAIN fills : fills[k] \in FillsOf(Due[k])
    PROVE  LET s == After(price, newDay, fills) IN
           /\ s \in Sound
           /\ s.equity = s.cash + s.qty * price
           /\ Len(Due) = 0 => s.qty = session.qty
<1> DEFINE n == Len(Due)
           s == Rolled(session, newDay)
           r == Filled(s, fills, price)
           m == Marked(r, price)
<1>1. price \in Nat \ {0}
  BY PaperAssumption
<1>2. Due \in Seq(Order)
  BY PendingAtFacts DEF PaperInv, Due
<1>3. n \in Nat /\ fills \in [1 .. n -> Int]
  <2>1. n \in Nat /\ DOMAIN Due = 1 .. n /\ \A k \in 1 .. n : Due[k] \in Order
    BY <1>2
  <2>2. DOMAIN fills = 1 .. n /\ fills = [k \in DOMAIN fills |-> fills[k]]
    BY <2>1 DEF FillChoices
  <2>3. \A k \in 1 .. n : fills[k] \in Int
    BY <2>1, <2>2, FillsOfFacts
  <2>4. QED
    BY <2>1, <2>2, <2>3
<1>4. s \in Sound /\ s.qty = session.qty
  BY DEF PaperInv, Rolled, Sound, Session, Balanced
<1>5. \A v \in Sound : \A lots \in Int : Applied(v, lots, price) \in Sound
  BY AppliedFacts
<1>6. r \in Sound /\ (n = 0 => r = s)
  <2> HIDE DEF n, s
  <2> QED BY <1>3, <1>4, <1>5, FilledFacts
<1>7. After(price, newDay, fills) = m
  BY DEF After
<1>8. m \in Sound /\ m.qty = r.qty /\ m.equity = m.cash + r.qty * price
  <2>1. r \in Session /\ Balanced(r) /\ r.peak > 0
    BY <1>6 DEF Sound
  <2> HIDE DEF r
  <2>2. QED
    BY <1>1, <2>1, MarkedFacts
<1> HIDE DEF n, s, r, m
<1>9. QED
  BY <1>4, <1>6, <1>7, <1>8 DEF n

\* What is left in the queue is ready at one of the next bars, each at its own.
LEMMA StillPendingFacts ==
    ASSUME PaperInv
    PROVE  /\ StillPending \in Seq(Order) /\ Ordered(StillPending)
           /\ Len(StillPending) <= latency
           /\ latency > 0 => Len(StillPending) < latency
           /\ \A k \in 1 .. Len(StillPending) :
                  /\ StillPending[k].qty # 0
                  /\ bar < StillPending[k].ready /\ StillPending[k].ready < bar + latency
           /\ Range(StillPending) \subseteq Range(pending)
<1> DEFINE q == StillPending
<1>1. /\ q \in Seq(Order) /\ Ordered(q) /\ Len(q) <= Len(pending)
      /\ \A i \in DOMAIN q : \E j \in DOMAIN pending : bar < pending[j].ready /\ q[i] = pending[j]
  BY PendingAtFacts DEF PaperInv, StillPending
<1> HIDE DEF q
<1>2. DOMAIN q = 1 .. Len(q)
  BY <1>1
<1>3. \A k \in 1 .. Len(q) :
          q[k].qty # 0 /\ bar < q[k].ready /\ q[k].ready < bar + latency
  BY <1>1, <1>2 DEF PaperInv
<1>4. latency > 0 => Len(q) < latency
  <2>1. SUFFICES ASSUME latency > 0 PROVE Len(q) < latency
    OBVIOUS
  <2>2. bar \in Int /\ bar + latency \in Int /\ bar < bar + latency
    BY <2>1 DEF PaperInv
  <2>3. Len(q) < (bar + latency) - bar
    BY <1>1, <1>3, <2>2, OrderedLength
  <2>4. QED
    BY <1>1, <2>3 DEF PaperInv
<1>5. Range(q) \subseteq Range(pending)
  BY <1>1 DEF Range
<1>6. Len(q) <= latency
  BY <1>1 DEF PaperInv
<1>7. QED
  BY <1>1, <1>3, <1>4, <1>5, <1>6 DEF q

\* The steps that are no candle in order leave the session and its queue alone.
Skips == MissingPrice \/ BadCandle

\* A step skips its candle, or fills what is due and places one order.
LEMMA StepFacts ==
    ASSUME Next
    PROVE  \/ Skips
           \/ \E price \in Prices, target \in Targets, newDay, fault \in BOOLEAN,
                 fills \in FillChoices :
                 /\ \A k \in DOMAIN fills : fills[k] \in FillsOf(Due[k])
                 /\ bar' = bar + 1 /\ seen' = TRUE /\ UNCHANGED latency
                 /\ halted' = Halts(After(price, newDay, fills), fault)
                 /\ PlaceOrder(After(price, newDay, fills), target, halted', price)
<1>1. CASE Skips
  BY <1>1
<1>2. CASE ~Skips
  <2>1. PICK price \in Prices, target \in Targets, newDay \in BOOLEAN, fault \in BOOLEAN,
             fills \in FillChoices :
             Candle(price, target, newDay, fault, fills)
    BY <1>2 DEF Next, Skips
  <2>2. QED
    BY <2>1 DEF Candle, NextBar, After
<1>3. QED
  BY <1>1, <1>2

-----------------------------------------------------------------------------
(* The invariant holds.                                                    *)

LEMMA PaperInit == Init => PaperInv
<1>1. ASSUME Init PROVE session \in Sound
  BY <1>1, AccountingAssumption, PaperAssumption DEF Init, Sound, Session, Balanced, Sign
<1>2. ASSUME Init
      PROVE  latency \in Nat /\ bar \in Nat /\ {seen, halted} \subseteq BOOLEAN /\ pending = <<>>
  BY <1>2, PaperAssumption DEF Init
<1>3. QED
  BY <1>1, <1>2 DEF PaperInv, Ordered

\* A step that skips its candle.
LEMMA SkipStep ==
    ASSUME PaperInv, Skips
    PROVE  PaperInv' /\ session' = session /\ pending' = pending
<1>1. /\ bar' = bar + 1 /\ UNCHANGED <<latency, session, pending>>
      /\ {seen', halted'} \subseteq BOOLEAN
  BY PaperAssumption DEF Skips, MissingPrice, BadCandle, NextBar, PaperInv
<1>2. \A k \in DOMAIN pending : pending[k].ready \in Int
  <2>1. \A k \in DOMAIN pending : pending[k] \in Order
    BY DEF PaperInv
  <2>2. QED
    BY <2>1, OrderFields
<1>3. PaperInv'
  BY <1>1, <1>2 DEF PaperInv, Ordered
<1>4. QED
  BY <1>1, <1>3

\* A step that places an order, or none, for a sound session; without a halt the session
\* has equity to size it with.
LEMMA PlaceStep ==
    ASSUME PaperInv, NEW s \in Sound, NEW target \in Targets, NEW price \in Prices,
           s.equity = s.cash + s.qty * price, ~halted' => s.equity > 0,
           bar' = bar + 1, seen' = TRUE, latency' = latency, halted' \in BOOLEAN,
           PlaceOrder(s, target, halted', price)
    PROVE  /\ PaperInv' /\ OrdersWithinLimit'
           /\ halted' \/ latency > 0 => session' = s
           /\ halted' => pending' = StillPending
<1> DEFINE lots == OrderLots(s, target, price)
           order == [ready |-> bar + latency, qty |-> lots, mid |-> price]
           q == StillPending
<1>1. s \in Session
  BY DEF Sound
<1>2. price \in Nat \ {0} /\ target \in Int
  BY PaperAssumption
<1>3. ~halted' => lots \in Int /\ Sized(s.qty, lots, price, s.equity)
  BY <1>1, <1>2, OrderLotsFacts
<1> HIDE DEF lots
<1>4. ~halted' => order \in Order /\ order.qty = lots /\ order.ready = bar + latency /\ order.mid = price
  BY <1>2, <1>3 DEF Order, PaperInv
<1>5. /\ q \in Seq(Order) /\ Ordered(q) /\ Len(q) <= latency /\ (latency > 0 => Len(q) < latency)
      /\ \A k \in 1 .. Len(q) : q[k].qty # 0 /\ bar < q[k].ready /\ q[k].ready < bar + latency
  BY StillPendingFacts
<1>6. DOMAIN q = 1 .. Len(q) /\ \A k \in 1 .. Len(q) : q[k].ready \in Int
  <2>1. \A k \in 1 .. Len(q) : q[k] \in Order
    BY <1>5
  <2>2. QED
    BY <1>5, <2>1, OrderFields
<1>7. latency \in Nat /\ bar \in Nat /\ bar' + latency' = bar + latency + 1
  BY DEF PaperInv
<1> DEFINE Queue == /\ pending' \in Seq(Order) /\ Ordered(pending') /\ Len(pending') <= latency
                    /\ \A k \in DOMAIN pending' :
                           pending'[k].qty # 0 /\ pending'[k].ready < bar' + latency'
<1>8. SUFFICES /\ Queue /\ session' \in Sound /\ OrdersWithinLimit'
               /\ halted' \/ latency > 0 => session' = s
               /\ halted' => pending' = q
  BY <1>7 DEF PaperInv, Ordered
<1>9. latency <= 1 => q = <<>>
  BY <1>5, <1>7
<1>10. pending' = q => Queue /\ OrdersWithinLimit'
  <2>1. pending' = q => Queue
    BY <1>5, <1>6, <1>7
  <2>2. pending' = q => OrdersWithinLimit'
    BY <1>9 DEF OrdersWithinLimit
  <2>3. QED
    BY <2>1, <2>2
<1>11. CASE halted' \/ lots = 0
  <2>1. session' = s /\ pending' = q
    BY <1>11 DEF PlaceOrder, lots
  <2>2. QED
    BY <1>10, <2>1
<1>12. CASE ~(halted' \/ lots = 0) /\ latency > 0
  <2>1. session' = s /\ pending' = Append(q, order)
    BY <1>12 DEF PlaceOrder, lots
  <2>2. \A i \in 1 .. Len(q) : q[i].ready < order.ready
    BY <1>4, <1>5, <1>12
  <2>3. /\ pending' \in Seq(Order) /\ Len(pending') = Len(q) + 1 /\ Ordered(pending')
        /\ \A i \in 1 .. Len(pending') :
               (i = Len(pending') /\ pending'[i] = order) \/ (i \in 1 .. Len(q) /\ pending'[i] = q[i])
    <3> HIDE DEF q, order
    <3> QED BY <1>4, <1>5, <1>12, <2>1, <2>2, AppendFacts
  <2>4. DOMAIN pending' = 1 .. Len(pending')
    BY <2>3
  <2> HIDE DEF q, order
  <2>5. \A i \in DOMAIN pending' : pending'[i].qty # 0 /\ pending'[i].ready < bar' + latency'
    BY <1>4, <1>5, <1>6, <1>7, <1>12, <2>3, <2>4
  <2>6. Len(pending') <= latency
    BY <1>5, <1>7, <1>12, <2>3
  <2>7. OrdersWithinLimit'
    <3>1. SUFFICES ASSUME latency <= 1, NEW i \in DOMAIN pending'
                   PROVE  LET after == session'.qty + pending'[i].qty
                              equity == session'.cash + session'.qty * pending'[i].mid IN
                          \/ after \in (0 .. session'.qty) \cup (session'.qty .. 0)
                          \/ 100 * Magnitude(after) * pending'[i].mid
                                <= Lesser(MaxPosition, MaxGross) * equity
      BY DEF OrdersWithinLimit
    <3>2. Len(q) = 0
      BY <1>9, <3>1
    <3>3. pending'[i].qty = lots /\ pending'[i].mid = price
      BY <1>4, <1>12, <2>3, <2>4, <3>2
    <3>4. QED
      BY <1>3, <1>12, <2>1, <3>3 DEF Sized, Limit
  <2>8. QED
    BY <1>12, <2>1, <2>3, <2>5, <2>6, <2>7
<1>13. CASE ~(halted' \/ lots = 0) /\ ~(latency > 0)
  <2>1. /\ \E got \in FillsOf(order) : session' = Applied(s, got, price)
        /\ pending' = q
    BY <1>13 DEF PlaceOrder, lots
  <2>2. session' \in Sound
    <3> HIDE DEF order
    <3>1. PICK got \in FillsOf(order) : session' = Applied(s, got, price)
      BY <2>1
    <3>2. got \in Int
      BY <1>4, <1>13, FillsOfFacts
    <3>3. QED
      BY <3>1, <3>2, AppliedFacts
  <2>3. QED
    BY <1>10, <1>13, <2>1, <2>2
<1>14. QED
  BY <1>11, <1>12, <1>13

\* A session that is not halted by its losses has equity left: its peak is above 0.
LEMMA EquityLeft ==
    ASSUME NEW s \in Sound, ~TripsOnLoss(s)
    PROVE  s.equity > 0
<1>1. s.peak \in Nat \ {0} /\ s.equity \in Int /\ MaxDrawdown \in 0 .. 100
  BY PaperAssumption DEF Sound, Session
<1>2. ~((s.peak - s.equity) * 100 >= MaxDrawdown * s.peak)
  BY <1>1 DEF TripsOnLoss, Breaches
<1>3. MaxDrawdown * s.peak <= 100 * s.peak
  BY <1>1
<1>4. QED
  BY <1>1, <1>2, <1>3

\* Every step keeps the invariant; one of a halted session is quiet, and one that leaves
\* the session running, with latency, leaves it inside its loss limits.
Halted ==
  halted => /\ halted'
            /\ Range(pending') \subseteq Range(pending)
            /\ pending = <<>> => session'.qty = session.qty

LEMMA PaperStep ==
    ASSUME PaperInv, [Next]_vars
    PROVE  /\ PaperInv' /\ Halted
           /\ LossesHalt => LossesHalt'
           /\ OrdersWithinLimit => OrdersWithinLimit'
<1>1. CASE UNCHANGED vars
  BY <1>1 DEF vars, PaperInv, Halted, LossesHalt, OrdersWithinLimit, Ordered
<1>2. CASE Skips
  <2>1. PaperInv' /\ session' = session /\ pending' = pending
    BY <1>2, SkipStep
  <2>2. latency' = latency /\ (halted => halted') /\ (seen' => seen)
    <3>1. CASE MissingPrice
      BY <3>1 DEF MissingPrice
    <3>2. CASE BadCandle
      BY <3>2 DEF BadCandle
    <3>3. QED
      BY <1>2, <3>1, <3>2 DEF Skips
  <2>3. Halted
    BY <2>1, <2>2 DEF Halted
  <2>4. LossesHalt => LossesHalt'
    BY <2>1, <2>2 DEF LossesHalt
  <2>5. OrdersWithinLimit => OrdersWithinLimit'
    BY <2>1, <2>2 DEF OrdersWithinLimit
  <2>6. QED
    BY <2>1, <2>3, <2>4, <2>5
<1>3. CASE Next /\ ~Skips
  <2>1. PICK price \in Prices, target \in Targets, newDay \in BOOLEAN, fault \in BOOLEAN,
             fills \in FillChoices :
             /\ \A k \in DOMAIN fills : fills[k] \in FillsOf(Due[k])
             /\ bar' = bar + 1 /\ seen' = TRUE /\ UNCHANGED latency
             /\ halted' = Halts(After(price, newDay, fills), fault)
             /\ PlaceOrder(After(price, newDay, fills), target, halted', price)
    BY <1>3, StepFacts
  <2> DEFINE s == After(price, newDay, fills)
  <2>2. /\ s \in Sound /\ s.equity = s.cash + s.qty * price
        /\ Len(Due) = 0 => s.qty = session.qty
    BY <2>1, AfterFacts
  <2>3. halted' = Halts(s, fault) /\ PlaceOrder(s, target, halted', price)
    BY <2>1
  <2> HIDE DEF s
  <2>4. halted' \in BOOLEAN /\ (halted => halted') /\ (TripsOnLoss(s) => halted')
    BY <2>1, <2>3 DEF Halts, Trips, TripsOnLoss, Breaches, PaperInv
  <2>5. ~halted' => s.equity > 0
    BY <2>2, <2>4, EquityLeft
  <2>6. /\ PaperInv' /\ OrdersWithinLimit'
        /\ halted' \/ latency > 0 => session' = s
        /\ halted' => pending' = StillPending
    BY <2>1, <2>2, <2>3, <2>4, <2>5, PlaceStep
  <2>7. Halted
    <3>1. SUFFICES ASSUME halted PROVE Halted
      BY DEF Halted
    <3>2. halted' /\ pending' = StillPending /\ session' = s
      BY <2>4, <2>6, <3>1
    <3>3. Range(StillPending) \subseteq Range(pending)
      BY StillPendingFacts
    <3>4. pending = <<>> => Len(Due) = 0
      BY PendingAtFacts DEF Due, PaperInv
    <3>5. QED
      BY <2>2, <3>2, <3>3, <3>4 DEF Halted
  <2>8. LossesHalt'
    <3>1. SUFFICES ASSUME latency' > 0, ~halted' PROVE LossesHalt'
      BY DEF LossesHalt
    <3>2. session' = s /\ ~TripsOnLoss(s)
      BY <2>1, <2>4, <2>6, <3>1
    <3>3. QED
      BY <3>2 DEF LossesHalt, TripsOnLoss, Breaches
  <2>9. QED
    BY <2>6, <2>7, <2>8
<1>4. QED
  BY <1>1, <1>2, <1>3

LEMMA PaperInvariance == Spec => []PaperInv
<1>1. PaperInv /\ [Next]_vars => PaperInv'
  BY PaperStep
<1>2. QED
  BY PaperInit, <1>1, PTL DEF Spec

-----------------------------------------------------------------------------
(* Theorems.                                                               *)

\* Whatever candles are missing, repeated or rejected, one order at most waits for each
\* bar of the latency, in the order of the bars (run_sequential_paper, session.pending).
THEOREM PaperTypes == Spec => []PaperTypeOK
<1>1. PaperInv => PaperTypeOK
  BY DEF PaperInv, PaperTypeOK, Sound, Ordered
<1>2. QED
  BY PaperInvariance, <1>1, PTL

\* The cash, the cost of the position, the realised profit and the fees balance after any
\* sequence of partial fills, reductions and flips, at any prices (_apply_fill).
THEOREM PaperBooksBalance == Spec => []BooksBalance
<1>1. PaperInv => BooksBalance
  BY DEF PaperInv, BooksBalance, Sound, Balanced
<1>2. QED
  BY PaperInvariance, <1>1, PTL

\* A halted session stays halted, places nothing, and moves by what it had placed
\* (kill.halted in run_sequential_paper).
THEOREM PaperHaltIsQuiet == Spec => HaltIsQuiet
<1>1. PaperInv /\ [Next]_vars => [Halted]_vars
  BY PaperStep
<1>2. QED
  BY PaperInvariance, <1>1, PTL DEF Spec, HaltIsQuiet, Halted

\* A session with latency that is not halted is within its drawdown and its daily loss
\* (check_risk).
THEOREM PaperLossesHalt == Spec => []LossesHalt
<1>1. Init => LossesHalt
  BY DEF Init, LossesHalt
<1>2. PaperInv /\ LossesHalt /\ [Next]_vars => LossesHalt'
  BY PaperStep
<1>3. QED
  BY PaperInvariance, <1>1, <1>2, PTL DEF Spec

\* With one bar of latency at most an order waits for the position it was sized for, and
\* takes it within max_position at its own price or nearer to zero (check_risk, delta_qty).
THEOREM PaperOrdersWithinLimit == Spec => []OrdersWithinLimit
<1>1. Init => OrdersWithinLimit
  BY DEF Init, OrdersWithinLimit
<1>2. PaperInv /\ OrdersWithinLimit /\ [Next]_vars => OrdersWithinLimit'
  BY PaperStep
<1>3. QED
  BY PaperInvariance, <1>1, <1>2, PTL DEF Spec
=============================================================================
