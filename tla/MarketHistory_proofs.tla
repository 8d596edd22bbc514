------------------------- MODULE MarketHistory_proofs -------------------------
(***************************************************************************)
(* Proofs about the candle history, for any listed candles, windows, page  *)
(* and partition sizes, retries and crashes: the state keeps its shape, a  *)
(* stored candle stays, and a call that returns has stored its window.     *)
(***************************************************************************)
EXTENDS MarketHistory, FoldFacts

-----------------------------------------------------------------------------
(* The latest candle.                                                      *)

\* A finite set of numbers has a bound: the exchange lists a latest candle.
BoundedUpTo(f, k) == \E b \in Nat : \A i \in 1 .. k : f[i] <= b

LEMMA BoundedNext ==
  ASSUME NEW n \in Nat, NEW f \in [1 .. n -> Nat], NEW k \in 1 .. n, BoundedUpTo(f, k - 1)
  PROVE  BoundedUpTo(f, k)
<1>1. PICK b \in Nat : \A i \in 1 .. (k - 1) : f[i] <= b
  BY DEF BoundedUpTo
<1>2. \A i \in 1 .. k : f[i] \in Nat
  OBVIOUS
<1>3. \A i \in 1 .. k : i = k \/ i \in 1 .. (k - 1)
  OBVIOUS
<1>4. CASE f[k] <= b
  BY <1>1, <1>3, <1>4 DEF BoundedUpTo
<1>5. CASE ~(f[k] <= b)
  <2>1. \A i \in 1 .. k : f[i] <= f[k]
    BY <1>1, <1>2, <1>3, <1>5
  <2>2. f[k] \in Nat
    BY <1>2
  <2>3. QED
    BY <2>1, <2>2 DEF BoundedUpTo
<1>6. QED
  BY <1>4, <1>5

LEMMA FiniteIsBounded ==
  ASSUME NEW S \in SUBSET Nat, IsFiniteSet(S)
  PROVE  \E b \in Nat : \A x \in S : x <= b
<1>1. PICK n \in Nat : ExistsSurjection(1 .. n, S)
  BY FS_NatSurjection
<1>2. PICK f \in [1 .. n -> S] : \A x \in S : \E i \in 1 .. n : f[i] = x
  BY <1>1 DEF ExistsSurjection, Surjection
<1>3. f \in [1 .. n -> Nat]
  BY <1>2
<1> DEFINE Bad == {k \in 0 .. n : ~BoundedUpTo(f, k)}
<1>4. Bad = {}
  <2>1. SUFFICES ASSUME Bad # {} PROVE FALSE
    OBVIOUS
  <2>2. Bad \in SUBSET Nat
    OBVIOUS
  <2>3. PICK k \in Bad : \A m \in Bad : k <= m
    <3> HIDE DEF Bad
    <3>1. QED
      BY <2>1, <2>2, LeastNatural
  <2>4. BoundedUpTo(f, 0)
    BY DEF BoundedUpTo
  <2>5. k \in 1 .. n /\ k - 1 \in 0 .. n
    BY <2>4
  <2>6. BoundedUpTo(f, k - 1)
    BY <2>3, <2>5
  <2>7. QED
    BY <1>3, <2>5, <2>6, BoundedNext
<1>5. BoundedUpTo(f, n)
  BY <1>4
<1>6. QED
  BY <1>2, <1>5 DEF BoundedUpTo

LEMMA MaxFacts ==
  ASSUME NEW S \in SUBSET Nat, S # {}, NEW b \in Nat, \A x \in S : x <= b
  PROVE  Max(S) \in S /\ \A y \in S : Max(S) >= y
BY GreatestBounded DEF Max

-----------------------------------------------------------------------------
(* Pages.                                                                  *)

LEMMA ListedFacts == Listed \in SUBSET Nat /\ IsFiniteSet(Listed)
BY HistoryAssumption

\* A page holds listed candles only.
LEMMA PageIsListed ==
  ASSUME NEW cursor \in Nat, NEW end \in Nat
  PROVE  Page(cursor, end) \subseteq Listed
BY DEF Page, Between

\* The least candle of a page.
LEMMA FirstOnPage ==
  ASSUME NEW all \in SUBSET Listed, all # {}, NEW cursor \in Nat, \A t \in all : cursor <= t
  PROVE  \E t \in all : Cardinality(Between(all, cursor, t)) <= PageLimit
<1>1. PICK t \in all : \A u \in all : t <= u
  BY ListedFacts, LeastNatural
<1>2. Between(all, cursor, t) = {t}
  <2>1. \A u \in all : u \in Nat /\ t \in Nat
    BY ListedFacts
  <2>2. \A u \in all : u <= t => u = t
    BY <1>1, <2>1
  <2>3. QED
    BY <1>1, <2>1, <2>2 DEF Between
<1>3. Cardinality({t}) = 1
  BY FS_Singleton
<1>4. PageLimit \in Nat \ {0}
  BY HistoryAssumption
<1>5. QED
  BY <1>2, <1>3, <1>4

\* A page is the beginning of what is listed from its cursor on: it leaves nothing out
\* before its last candle, and it is empty only if nothing is listed.
LEMMA PageFacts ==
  ASSUME ~SpanCapped, NEW cursor \in Nat, NEW end \in Nat
  PROVE  /\ Page(cursor, end) \subseteq Between(Listed, cursor, end)
         /\ \A u \in Page(cursor, end), t \in Between(Listed, cursor, end) :
              t <= u => t \in Page(cursor, end)
         /\ Page(cursor, end) = {} => Between(Listed, cursor, end) = {}
<1> DEFINE all == Between(Listed, cursor, end)
<1>1. all \in SUBSET Listed /\ \A t \in all : cursor <= t
  BY DEF Between
<1> HIDE DEF all
<1>2. Page(cursor, end) = {t \in all : Cardinality(Between(all, cursor, t)) <= PageLimit}
  BY DEF Page, all
<1>3. ASSUME NEW u \in Page(cursor, end), NEW t \in all, t <= u
      PROVE  t \in Page(cursor, end)
  <2>1. Between(all, cursor, t) \in SUBSET Between(all, cursor, u)
    <3>1. t \in Nat /\ u \in Nat /\ all \subseteq Nat
      BY <1>1, <1>2, ListedFacts
    <3>2. \A v \in Nat : v <= t => v <= u
      BY <1>3, <3>1
    <3>3. QED
      BY <3>1, <3>2 DEF Between
  <2>2. IsFiniteSet(Between(all, cursor, u)) /\ Between(all, cursor, u) \in SUBSET Listed
    <3>1. Between(all, cursor, u) \in SUBSET Listed
      BY <1>1 DEF Between
    <3>2. QED
      BY <3>1, ListedFacts, FS_Subset
  <2>3. Cardinality(Between(all, cursor, t)) <= Cardinality(Between(all, cursor, u))
    BY <2>1, <2>2, FS_Subset
  <2>4. IsFiniteSet(Between(all, cursor, t))
    BY <2>1, <2>2, FS_Subset
  <2>5. /\ Cardinality(Between(all, cursor, t)) \in Nat
        /\ Cardinality(Between(all, cursor, u)) \in Nat
    BY <2>2, <2>4, FS_CardinalityType
  <2>6. PageLimit \in Nat
    BY HistoryAssumption
  <2>7. Cardinality(Between(all, cursor, u)) <= PageLimit
    BY <1>2
  <2>8. Cardinality(Between(all, cursor, t)) <= PageLimit
    BY <2>3, <2>5, <2>6, <2>7
  <2>9. QED
    BY <1>2, <2>8
<1>4. Page(cursor, end) = {} => all = {}
  BY <1>1, <1>2, FirstOnPage
<1>5. QED
  BY <1>2, <1>3, <1>4 DEF all

-----------------------------------------------------------------------------
(* Missing ranges.                                                         *)

Gap(r) == r \in Nat \X Nat /\ r[1] <= r[2]
Apart(gaps) ==
  /\ \A r \in gaps : Gap(r)
  /\ \A r, q \in gaps : r # q => r[2] + 1 < q[1] \/ q[2] + 1 < r[1]

\* Maximal runs of missing candles do not touch.
LEMMA RangesApart ==
  ASSUME NEW present, NEW a \in Nat, NEW b \in Nat
  PROVE  Apart(MissingRanges(present, a, b))
<1> DEFINE Absent(t) == a <= t /\ t <= b /\ t \notin present
           ranges == MissingRanges(present, a, b)
<1>1. ranges = {r \in (a .. b) \X (a .. b) :
                  /\ r[1] <= r[2] /\ \A t \in r[1] .. r[2] : Absent(t)
                  /\ ~Absent(r[1] - 1) /\ ~Absent(r[2] + 1)}
  BY DEF MissingRanges
<1> HIDE DEF ranges, Absent
<1>2. \A r \in ranges : Gap(r)
  BY <1>1 DEF Gap
<1>3. ASSUME NEW r \in ranges, NEW q \in ranges, r # q
      PROVE  r[2] + 1 < q[1] \/ q[2] + 1 < r[1]
  <2>1. /\ r[1] \in Nat /\ r[2] \in Nat /\ q[1] \in Nat /\ q[2] \in Nat
        /\ r[1] <= r[2] /\ q[1] <= q[2] /\ r = <<r[1], r[2]>> /\ q = <<q[1], q[2]>>
    BY <1>1
  <2>2. /\ \A t \in r[1] .. r[2] : Absent(t)
        /\ \A t \in q[1] .. q[2] : Absent(t)
        /\ ~Absent(r[1] - 1) /\ ~Absent(r[2] + 1) /\ ~Absent(q[1] - 1) /\ ~Absent(q[2] + 1)
    BY <1>1
  <2>3. q[1] - 1 \notin r[1] .. r[2] /\ r[1] - 1 \notin q[1] .. q[2]
    BY <2>2
  <2>4. r[2] + 1 \notin q[1] .. q[2] /\ q[2] + 1 \notin r[1] .. r[2]
    BY <2>2
  <2>5. r[1] # q[1] \/ r[2] # q[2]
    BY <1>3, <2>1
  <2>6. QED
    BY <2>1, <2>3, <2>4, <2>5
<1>4. QED
  BY <1>2, <1>3 DEF Apart, ranges

\* And every missing candle is in one of them.
LEMMA RangesCover ==
  ASSUME NEW present, NEW a \in Nat, NEW b \in Nat, NEW t \in a .. b, t \notin present
  PROVE  \E r \in MissingRanges(present, a, b) : r[1] <= t /\ t <= r[2]
<1> DEFINE Absent(u) == a <= u /\ u <= b /\ u \notin present
           Left == {u \in a .. t : \A v \in u .. t : Absent(v)}
           Right == {u \in t .. b : \A v \in t .. u : Absent(v)}
<1>1. t \in Left /\ t \in Right
  OBVIOUS
<1>2. Left \in SUBSET Nat /\ Right \in SUBSET Nat
  OBVIOUS
<1>3. PICK l \in Left : \A u \in Left : l <= u
  <2> HIDE DEF Left
  <2> QED BY <1>1, <1>2, LeastNatural
<1>4. PICK r \in Right : \A u \in Right : r >= u
  <2>1. \A u \in Right : u <= b
    OBVIOUS
  <2> HIDE DEF Right
  <2> QED BY <1>1, <1>2, <2>1, GreatestBounded
<1>5. l \in a .. t /\ r \in t .. b
  OBVIOUS
<1>6. \A v \in l .. r : Absent(v)
  <2>1. \A v \in l .. t : Absent(v)
    OBVIOUS
  <2>2. \A v \in t .. r : Absent(v)
    OBVIOUS
  <2> HIDE DEF Absent, Left, Right
  <2>3. QED
    BY <1>5, <2>1, <2>2
<1>7. ~Absent(l - 1)
  <2>1. SUFFICES ASSUME Absent(l - 1) PROVE FALSE
    OBVIOUS
  <2>2. l - 1 \in a .. t
    BY <1>5, <2>1
  <2>3. \A v \in (l - 1) .. t : v = l - 1 \/ v \in l .. t
    BY <1>5
  <2>4. \A v \in l .. t : Absent(v)
    OBVIOUS
  <2>5. \A v \in (l - 1) .. t : Absent(v)
    <3> HIDE DEF Absent, Left, Right
    <3> QED BY <2>1, <2>3, <2>4
  <2>6. l - 1 \in Left
    BY <2>2, <2>5
  <2>7. QED
    BY <1>3, <1>5, <2>6
<1>8. ~Absent(r + 1)
  <2>1. SUFFICES ASSUME Absent(r + 1) PROVE FALSE
    OBVIOUS
  <2>2. r + 1 \in t .. b
    BY <1>5, <2>1
  <2>3. \A v \in t .. (r + 1) : v = r + 1 \/ v \in t .. r
    BY <1>5
  <2>4. \A v \in t .. r : Absent(v)
    OBVIOUS
  <2>5. \A v \in t .. (r + 1) : Absent(v)
    <3> HIDE DEF Absent, Left, Right
    <3> QED BY <2>1, <2>3, <2>4
  <2>6. r + 1 \in Right
    BY <2>2, <2>5
  <2>7. QED
    BY <1>4, <1>5, <2>6
<1>9. <<l, r>> \in MissingRanges(present, a, b)
  <2>1. <<l, r>> \in (a .. b) \X (a .. b) /\ l <= r
    BY <1>5
  <2>2. QED
    BY <2>1, <1>6, <1>7, <1>8 DEF MissingRanges
<1>10. QED
  BY <1>5, <1>9

\* The first of the gaps that are left.
LEMMA FirstGap ==
  ASSUME NEW gaps, Apart(gaps), gaps # {},
         NEW g, g = CHOOSE r \in gaps : \A q \in gaps : r[1] <= q[1]
  PROVE  g \in gaps /\ \A q \in gaps \ {g} : g[2] + 1 < q[1]
<1> DEFINE S == {n \in Nat : \E r \in gaps : r[1] = n}
<1>1. S \in SUBSET Nat /\ S # {}
  BY DEF Apart, Gap
<1>2. PICK n \in S : \A m \in S : n <= m
  <2> HIDE DEF S
  <2> QED BY <1>1, LeastNatural
<1>3. \E r \in gaps : \A q \in gaps : r[1] <= q[1]
  BY <1>2 DEF Apart, Gap
<1>4. g \in gaps /\ \A q \in gaps : g[1] <= q[1]
  BY <1>3
<1>5. ASSUME NEW q \in gaps \ {g} PROVE g[2] + 1 < q[1]
  <2>1. Gap(g) /\ Gap(q) /\ (g[2] + 1 < q[1] \/ q[2] + 1 < g[1]) /\ g[1] <= q[1]
    BY <1>4, <1>5 DEF Apart
  <2>2. g[1] \in Nat /\ g[2] \in Nat /\ q[1] \in Nat /\ q[2] \in Nat /\ q[1] <= q[2]
    BY <2>1 DEF Gap
  <2>3. QED
    BY <2>1, <2>2
<1>6. QED
  BY <1>4, <1>5

-----------------------------------------------------------------------------
(* The shape of the state.                                                 *)

JobSet ==
  [kind : {"download", "update", "repair"}, phase : {"fetch", "write"}, start : Nat, end : Nat,
   cursor : Nat, first : Nat, resumed : BOOLEAN, collected : SUBSET Listed,
   attempt : 1 .. MaxRetries, gaps : SUBSET (Nat \X Nat), window : Nat \X Nat, suspect : BOOLEAN]

\* Only a repair has gaps left, and they lie behind the one it fetches.
Sound(j) ==
  /\ j \in JobSet
  /\ j.kind # "repair" => j.window = <<j.start, j.end>> /\ j.gaps = {}
  /\ Apart(j.gaps)
  /\ \A g \in j.gaps : j.end + 1 < g[1]
  /\ j.phase = "write" => j.collected # {}

SoundCheckpoint(c) ==
  /\ c.cursor \in Nat /\ c.window \in Nat \X Nat
  /\ c.cursor - 1 \in Listed
  /\ c.window[1] < c.cursor
  /\ c.cursor <= c.window[2] + 1

SoundStore(s, t) == s \subseteq Listed /\ \A c \in s : Day(c) \notin t

HistoryInv ==
  /\ SoundStore(store, torn)
  /\ checkpoint # NoCheckpoint => SoundCheckpoint(checkpoint)
  /\ job # Idle => Sound(job)

LEMMA JobIsNotIdle ==
  ASSUME NEW j \in JobSet
  PROVE  j # Idle
BY DEF JobSet, Idle

LEMMA EmptyApart == Apart({})
BY DEF Apart

LEMMA InvIsTyped ==
  ASSUME HistoryInv
  PROVE  HistoryTypeOK
<1>1. InLoop => /\ job.attempt \in 1 .. MaxRetries
                /\ \A g \in job.gaps : job.end + 1 < g[1]
  BY DEF HistoryInv, InLoop, Sound, JobSet
<1>2. Writing => job.collected # {}
  BY DEF HistoryInv, Writing, Sound
<1>3. QED
  BY <1>1, <1>2 DEF HistoryInv, HistoryTypeOK, SoundStore, SoundCheckpoint

\* A call that goes on with a gap, or returns.
OnGap(j, g) ==
  [kind |-> j.kind, phase |-> "fetch", start |-> g[1], end |-> g[2], cursor |-> g[1],
   first |-> j.first, resumed |-> FALSE, collected |-> {}, attempt |-> 1,
   gaps |-> j.gaps \ {g}, window |-> j.window, suspect |-> j.suspect]

LEMMA NextGapFacts ==
  ASSUME NEW j, Apart(j.gaps), NextGap(j)
  PROVE  \/ j.gaps = {} /\ Ended(j, TRUE)
         \/ \E g \in j.gaps : /\ \A q \in j.gaps \ {g} : g[2] + 1 < q[1]
                              /\ job' = OnGap(j, g) /\ outcome' = outcome
<1>1. CASE j.gaps = {}
  BY <1>1 DEF NextGap
<1>2. CASE j.gaps # {}
  <2> DEFINE g == CHOOSE r \in j.gaps : \A q \in j.gaps : r[1] <= q[1]
  <2>1. g \in j.gaps /\ \A q \in j.gaps \ {g} : g[2] + 1 < q[1]
    BY <1>2, FirstGap
  <2>2. /\ job' = [Fetching(j.kind, g[1], g[2], g[1], j.gaps \ {g})
                     EXCEPT !.window = j.window, !.first = j.first, !.suspect = j.suspect]
        /\ outcome' = outcome
    BY <1>2 DEF NextGap
  <2> HIDE DEF g
  <2>3. job' = OnGap(j, g)
    BY <2>2 DEF Fetching, OnGap
  <2>4. QED
    BY <2>1, <2>2, <2>3
<1>3. QED
  BY <1>1, <1>2

LEMMA OneIsAnAttempt == 1 \in 1 .. MaxRetries
BY HistoryAssumption

LEMMA OnGapSound ==
  ASSUME NEW j, Sound(j), NEW g \in j.gaps, \A q \in j.gaps \ {g} : g[2] + 1 < q[1]
  PROVE  Sound(OnGap(j, g))
<1>1. g[1] \in Nat /\ g[2] \in Nat /\ j.kind = "repair"
  BY DEF Sound, Apart, Gap
<1>2. OnGap(j, g) \in JobSet
  <2>1. /\ j.first \in Nat /\ j.window \in Nat \X Nat /\ j.suspect \in BOOLEAN
        /\ j.gaps \ {g} \in SUBSET (Nat \X Nat)
    BY DEF Sound, JobSet
  <2>2. QED
    BY <1>1, <2>1, OneIsAnAttempt DEF OnGap, JobSet
<1>3. Apart(j.gaps \ {g})
  BY DEF Sound, Apart
<1>4. QED
  BY <1>1, <1>2, <1>3 DEF Sound, OnGap

\* However the call goes on, its job is sound.
LEMMA NextGapSound ==
  ASSUME NEW j, Sound(j), NextGap(j)
  PROVE  job' # Idle => Sound(job')
<1>1. Apart(j.gaps)
  BY DEF Sound
<1>2. CASE Ended(j, TRUE)
  BY <1>2 DEF Ended
<1>3. CASE \E g \in j.gaps : /\ \A q \in j.gaps \ {g} : g[2] + 1 < q[1]
                             /\ job' = OnGap(j, g) /\ outcome' = outcome
  BY <1>3, OnGapSound
<1>4. QED
  BY <1>1, <1>2, <1>3, NextGapFacts

\* The loop ends with what it has collected.
Written(j, collected) == [j EXCEPT !.phase = "write", !.collected = collected]

LEMMA WrittenSound ==
  ASSUME NEW j, Sound(j), NEW collected \in SUBSET Listed, collected # {}
  PROVE  Sound(Written(j, collected))
<1>1. Written(j, collected) \in JobSet
  BY DEF Sound, JobSet, Written
<1>2. QED
  BY <1>1 DEF Sound, JobSet, Written

LEMMA LoopEndsSound ==
  ASSUME HistoryInv, NEW j, Sound(j), NEW collected \in SUBSET Listed, LoopEnds(j, collected)
  PROVE  HistoryInv'
<1>1. store' = store /\ torn' = torn
  BY DEF LoopEnds
<1>2. checkpoint' # NoCheckpoint => SoundCheckpoint(checkpoint')
  BY DEF LoopEnds, HistoryInv
<1>3. job' # Idle => Sound(job')
  <2>1. CASE collected = {}
    BY <2>1, NextGapSound DEF LoopEnds
  <2>2. CASE collected # {}
    <3>1. job' = Written(j, collected)
      BY <2>2 DEF LoopEnds, Written
    <3>2. Sound(Written(j, collected))
      BY <2>2, WrittenSound
    <3>3. QED
      BY <3>1, <3>2
  <2>3. QED
    BY <2>1, <2>2
<1>4. QED
  BY <1>1, <1>2, <1>3 DEF HistoryInv

-----------------------------------------------------------------------------
(* A page that arrives.                                                    *)

LEMMA KeptFacts ==
  ASSUME NEW page \in SUBSET Listed, NEW a \in Nat, NEW b \in Nat
  PROVE  /\ Between(page, a, b) \in SUBSET Listed
         /\ Cardinality(Between(page, a, b)) \in Nat
         /\ Between(page, a, b) # {} =>
              /\ Max(Between(page, a, b)) \in Between(page, a, b)
              /\ \A t \in Between(page, a, b) : t <= Max(Between(page, a, b))
<1> DEFINE kept == Between(page, a, b)
<1>1. kept \in SUBSET Listed /\ \A t \in kept : t <= b
  BY DEF Between
<1> HIDE DEF kept
<1>2. kept \in SUBSET Nat /\ IsFiniteSet(kept)
  BY <1>1, ListedFacts, FS_Subset
<1>3. Cardinality(kept) \in Nat
  BY <1>2, FS_CardinalityType
<1>4. kept # {} => Max(kept) \in kept /\ \A t \in kept : Max(kept) >= t
  BY <1>1, <1>2, MaxFacts
<1>5. kept # {} => \A t \in kept : t <= Max(kept)
  BY <1>2, <1>4
<1>6. QED
  BY <1>1, <1>3, <1>4, <1>5 DEF kept

LEMMA NextCursorFacts ==
  ASSUME job.cursor \in Nat, NEW last \in Nat, NEW rows \in Nat
  PROVE  /\ NextCursor(last, rows) \in Nat
         /\ job.cursor <= last => NextCursor(last, rows) = last + 1
<1>1. \E x \in {1, rows} : \A y \in {1, rows} : x >= y
  OBVIOUS
<1>2. Max({1, rows}) \in {1, rows}
  BY <1>1 DEF Max
<1>3. Max({1, rows}) \in Nat
  BY <1>2
<1>4. QED
  BY <1>3 DEF NextCursor

Suspected(j, b) == [j EXCEPT !.suspect = @ \/ b]

LEMMA SuspectedSound ==
  ASSUME NEW j, Sound(j), NEW b \in BOOLEAN
  PROVE  /\ Sound(Suspected(j, b))
         /\ ~Suspected(j, b).suspect => ~j.suspect /\ ~b
         /\ Suspected(j, b) = [j EXCEPT !.suspect = Suspected(j, b).suspect]
<1> DEFINE s == j.suspect \/ b
<1>1. j \in JobSet
  BY DEF Sound
<1>2. s \in BOOLEAN
  OBVIOUS
<1>3. Suspected(j, b) = [j EXCEPT !.suspect = s]
  BY DEF Suspected
<1>4. j.suspect \in BOOLEAN
  BY <1>1 DEF JobSet
<1>5. Suspected(j, b).suspect = s
  <2> HIDE DEF s
  <2> QED BY <1>1, <1>3 DEF JobSet
<1>6. ~s => ~j.suspect /\ ~b
  OBVIOUS
<1> HIDE DEF s
<1>7. [j EXCEPT !.suspect = s] \in JobSet
  BY <1>1, <1>2 DEF JobSet
<1>8. Sound([j EXCEPT !.suspect = s])
  BY <1>1, <1>7 DEF Sound, JobSet
<1>9. QED
  BY <1>3, <1>5, <1>6, <1>8

\* The cursor moves behind the page.
Moved(j, cursor, collected) ==
  [j EXCEPT !.cursor = cursor, !.collected = collected, !.attempt = 1]

LEMMA MovedSound ==
  ASSUME NEW j, Sound(j), j.phase = "fetch", NEW cursor \in Nat, NEW collected \in SUBSET Listed
  PROVE  Sound(Moved(j, cursor, collected))
<1>1. Moved(j, cursor, collected) \in JobSet
  BY OneIsAnAttempt DEF Sound, JobSet, Moved
<1>2. QED
  BY <1>1 DEF Sound, JobSet, Moved

\* The checkpoint that a page of a download or an update leaves.
LEMMA CheckpointSound ==
  ASSUME NEW j, Sound(j), j.kind # "repair", NEW last \in Listed, j.start <= last, last <= j.end
  PROVE  SoundCheckpoint([cursor |-> last + 1, window |-> j.window])
<1>1. last \in Nat /\ j.start \in Nat /\ j.end \in Nat /\ j.window = <<j.start, j.end>>
  BY ListedFacts DEF Sound, JobSet
<1>2. QED
  BY <1>1 DEF SoundCheckpoint

LEMMA ArrivedSound ==
  ASSUME HistoryInv, InLoop, NEW page \in SUBSET Listed, NEW b \in BOOLEAN, Arrived(page, b)
  PROVE  HistoryInv'
<1> DEFINE j == Suspected(job, b)
           kept == Between(page, job.start, job.end)
           collected == job.collected \cup kept
           last == Max(kept)
           next == NextCursor(last, Cardinality(kept))
<1>1. Sound(job) /\ job \in JobSet /\ job.phase = "fetch"
  BY DEF HistoryInv, InLoop, Sound
<1>2. Sound(j) /\ j.phase = "fetch" /\ j.kind = job.kind /\ j.window = job.window
      /\ j.start = job.start /\ j.end = job.end
  BY <1>1, SuspectedSound, SMTT(30) DEF JobSet
<1>3. job.start \in Nat /\ job.end \in Nat /\ job.cursor \in Nat /\ job.collected \in SUBSET Listed
  BY <1>1 DEF JobSet
<1>4. /\ kept \in SUBSET Listed /\ Cardinality(kept) \in Nat
      /\ kept # {} => last \in kept
  BY <1>3, KeptFacts
<1>5. CASE kept = {}
  <2>1. LoopEnds(j, job.collected)
    BY <1>5 DEF Arrived, Suspected
  <2>2. QED
    BY <1>2, <1>3, <2>1, LoopEndsSound
<1>6. CASE kept # {}
  <2>1. last \in Listed /\ last \in Nat /\ job.start <= last /\ last <= job.end
    <3>1. last \in kept
      BY <1>4, <1>6
    <3>2. last \in Listed
      BY <1>4, <3>1
    <3>3. job.start <= last /\ last <= job.end
      <4> HIDE DEF last
      <4> QED BY <3>1 DEF Between
    <3>4. QED
      BY <3>2, <3>3, ListedFacts
  <2>2. next \in Nat
    BY <1>3, <1>4, <2>1, NextCursorFacts
  <2>3. collected \in SUBSET Listed
    BY <1>3, <1>4
  <2>4. CASE (Cardinality(kept) < PageLimit /\ last >= job.end) \/ next > job.end
    <3>1. LoopEnds(j, collected)
      BY <1>6, <2>4 DEF Arrived, Suspected
    <3>2. QED
      BY <1>2, <2>3, <3>1, LoopEndsSound
  <2>5. CASE ~((Cardinality(kept) < PageLimit /\ last >= job.end) \/ next > job.end)
    <3>1. /\ job' = Moved(j, next, collected)
          /\ checkpoint' = IF Checkpointed
                           THEN [cursor |-> last + 1, window |-> job.window] ELSE checkpoint
          /\ store' = store /\ torn' = torn
      BY <1>6, <2>5 DEF Arrived, Suspected, Moved
    <3> HIDE DEF j, kept, last, next, collected
    <3>2. Sound(job')
      BY <1>2, <2>2, <2>3, <3>1, MovedSound
    <3>3. checkpoint' # NoCheckpoint => SoundCheckpoint(checkpoint')
      <4>1. CASE job.kind = "repair"
        BY <3>1, <4>1 DEF HistoryInv, Checkpointed
      <4>2. CASE job.kind # "repair"
        <5>1. SoundCheckpoint([cursor |-> last + 1, window |-> job.window])
          BY <1>1, <2>1, <4>2, CheckpointSound
        <5>2. QED
          BY <3>1, <4>2, <5>1 DEF Checkpointed
      <4>3. QED
        BY <4>1, <4>2
    <3>4. QED
      BY <3>1, <3>2, <3>3 DEF HistoryInv
  <2>6. QED
    BY <2>4, <2>5
<1>7. QED
  BY <1>5, <1>6

-----------------------------------------------------------------------------
(* Every step.                                                             *)

Fetch(kind, start, end, cursor, first, resumed, gaps, window, suspect) ==
  [kind |-> kind, phase |-> "fetch", start |-> start, end |-> end, cursor |-> cursor,
   first |-> first, resumed |-> resumed, collected |-> {}, attempt |-> 1,
   gaps |-> gaps, window |-> window, suspect |-> suspect]

\* A job as a call begins it.
LEMMA FetchSound ==
  ASSUME NEW kind \in {"download", "update", "repair"}, NEW start \in Nat, NEW end \in Nat,
         NEW cursor \in Nat, NEW first \in Nat, NEW resumed \in BOOLEAN, NEW gaps,
         NEW window \in Nat \X Nat, NEW suspect \in BOOLEAN,
         kind # "repair" => window = <<start, end>> /\ gaps = {},
         Apart(gaps), \A g \in gaps : end + 1 < g[1]
  PROVE  Sound(Fetch(kind, start, end, cursor, first, resumed, gaps, window, suspect))
<1>1. gaps \in SUBSET (Nat \X Nat)
  BY DEF Apart, Gap
<1>2. Fetch(kind, start, end, cursor, first, resumed, gaps, window, suspect) \in JobSet
  BY <1>1, OneIsAnAttempt DEF JobSet, Fetch
<1>3. QED
  BY <1>2 DEF Sound, Fetch

LEMMA WindowFacts ==
  ASSUME NEW w \in Windows
  PROVE  w[1] \in Nat /\ w[2] \in Nat /\ w = <<w[1], w[2]>> /\ w \in Nat \X Nat
BY HistoryAssumption

\* The jobs that the services begin.
LEMMA DownloadJob ==
  ASSUME HistoryInv, NEW w \in Windows, NEW resume \in BOOLEAN, Download(w, resume)
  PROVE  \E cursor \in Nat, resumed, suspect \in BOOLEAN :
           /\ job' = Fetch("download", w[1], w[2], cursor, cursor, resumed, {}, w, suspect)
           /\ ~suspect => w[1] <= cursor
<1> DEFINE found == resume /\ checkpoint # NoCheckpoint
           other == found /\ checkpoint.window # w
           cursor == IF found THEN checkpoint.cursor ELSE w[1]
<1>1. found \in BOOLEAN /\ other \in BOOLEAN
  OBVIOUS
<1>2. cursor \in Nat /\ (~other => w[1] <= cursor)
  BY WindowFacts DEF HistoryInv, SoundCheckpoint
<1>3. job' = [Fetching("download", w[1], w[2], cursor, {})
                EXCEPT !.resumed = found, !.suspect = other]
  BY DEF Download
<1>4. w = <<w[1], w[2]>>
  BY WindowFacts
<1> HIDE DEF found, other, cursor
<1>5. job' = Fetch("download", w[1], w[2], cursor, cursor, found, {}, w, other)
  BY <1>3, <1>4 DEF Fetching, Fetch
<1>6. QED
  BY <1>1, <1>2, <1>5

LEMMA UpdateStartFacts ==
  ASSUME HistoryInv, store # {}
  PROVE  UpdateStart \in Nat
<1>1. store \in SUBSET Nat /\ IsFiniteSet(store)
  BY ListedFacts, FS_Subset DEF HistoryInv, SoundStore
<1>2. PICK b \in Nat : \A x \in store : x <= b
  BY <1>1, FiniteIsBounded
<1>3. Max(store) \in Nat
  BY <1>1, <1>2, MaxFacts
<1>4. QED
  BY <1>3 DEF UpdateStart

LEMMA UpdateJob ==
  ASSUME HistoryInv, NEW w \in Windows, Update(w[2])
  PROVE  \/ /\ job' = Idle
            /\ \E start \in Nat :
                 /\ start > w[2]
                 /\ outcome' = [ok |-> TRUE, kind |-> "update", window |-> <<start, w[2]>>,
                                first |-> start, resumed |-> FALSE, suspect |-> FALSE]
         \/ /\ outcome' = NoOutcome
            /\ \E start \in Nat :
                 job' = Fetch("update", start, w[2], start, start, FALSE, {}, <<start, w[2]>>, FALSE)
<1>1. UpdateStart \in Nat
  BY UpdateStartFacts DEF Update
<1> DEFINE start == UpdateStart
<1>2. CASE start > w[2]
  <2>1. Ended([Fetching("update", start, w[2], start, {}) EXCEPT !.window = <<start, w[2]>>], TRUE)
    BY <1>2 DEF Update
  <2> HIDE DEF start
  <2>2. QED
    BY <1>1, <1>2, <2>1 DEF Ended, Fetching, start
<1>3. CASE ~(start > w[2])
  <2>1. job' = Fetching("update", start, w[2], start, {}) /\ outcome' = NoOutcome
    BY <1>3 DEF Update
  <2>2. QED
    BY <1>1, <2>1 DEF Fetching, Fetch
<1>4. QED
  BY <1>2, <1>3

\* What a repair of this window has to fetch.
GapsOf(w) == MissingRanges(Between(store, w[1], w[2]), w[1], w[2])

LEMMA RepairJob ==
  ASSUME HistoryInv, NEW w \in Windows, Repair(w)
  PROVE  /\ Apart(GapsOf(w))
         /\ \/ /\ GapsOf(w) = {} /\ job' = Idle
               /\ outcome' = [ok |-> TRUE, kind |-> "repair", window |-> w, first |-> w[1],
                              resumed |-> FALSE, suspect |-> FALSE]
            \/ /\ outcome' = NoOutcome
               /\ \E g \in GapsOf(w) :
                    /\ \A q \in GapsOf(w) \ {g} : g[2] + 1 < q[1]
                    /\ job' = Fetch("repair", g[1], g[2], g[1], w[1], FALSE, GapsOf(w) \ {g}, w, FALSE)
<1> DEFINE gaps == GapsOf(w)
           j == [Fetching("repair", w[1], w[2], w[1], gaps) EXCEPT !.window = w]
<1>1. Apart(gaps)
  BY RangesApart, WindowFacts DEF GapsOf
<1>2. CASE gaps = {}
  <2>1. Ended(j, TRUE)
    BY <1>2 DEF Repair, GapsOf
  <2> HIDE DEF gaps
  <2>2. QED
    BY <1>1, <1>2, <2>1 DEF Ended, Fetching, gaps
<1>3. CASE gaps # {}
  <2> DEFINE g == CHOOSE r \in gaps : \A q \in gaps : r[1] <= q[1]
  <2>1. g \in gaps /\ \A q \in gaps \ {g} : g[2] + 1 < q[1]
    BY <1>1, <1>3, FirstGap
  <2>2. /\ job' = [Fetching("repair", g[1], g[2], g[1], gaps \ {g})
                     EXCEPT !.window = w, !.first = w[1]]
        /\ outcome' = NoOutcome
    BY <1>3 DEF Repair, GapsOf
  <2> HIDE DEF g, gaps
  <2>3. job' = Fetch("repair", g[1], g[2], g[1], w[1], FALSE, gaps \ {g}, w, FALSE)
    BY <2>2 DEF Fetching, Fetch
  <2>4. QED
    BY <1>1, <2>1, <2>2, <2>3 DEF gaps
<1>4. QED
  BY <1>2, <1>3

LEMMA ServicesSound ==
  ASSUME HistoryInv, NEW w \in Windows,
         (\E resume \in BOOLEAN : Download(w, resume)) \/ Update(w[2]) \/ Repair(w)
  PROVE  HistoryInv'
<1>1. UNCHANGED <<store, torn, checkpoint>>
  BY DEF Download, Update, Repair
<1>2. job' # Idle => Sound(job')
  <2>1. CASE \E resume \in BOOLEAN : Download(w, resume)
    BY <2>1, DownloadJob, FetchSound, WindowFacts, EmptyApart
  <2>2. CASE Update(w[2])
    <3>1. SUFFICES ASSUME NEW start \in Nat,
                          job' = Fetch("update", start, w[2], start, start, FALSE, {}, <<start, w[2]>>, FALSE)
                   PROVE  Sound(job')
      BY <2>2, UpdateJob
    <3>2. w[2] \in Nat /\ <<start, w[2]>> \in Nat \X Nat /\ FALSE \in BOOLEAN
      BY WindowFacts
    <3>3. QED
      BY <3>1, <3>2, FetchSound, EmptyApart
  <2>3. CASE Repair(w)
    <3>1. SUFFICES ASSUME NEW g \in GapsOf(w), \A q \in GapsOf(w) \ {g} : g[2] + 1 < q[1],
                          job' = Fetch("repair", g[1], g[2], g[1], w[1], FALSE, GapsOf(w) \ {g}, w, FALSE)
                   PROVE  Sound(job')
      BY <2>3, RepairJob
    <3>2. Apart(GapsOf(w))
      BY <2>3, RepairJob
    <3>3. g[1] \in Nat /\ g[2] \in Nat /\ Apart(GapsOf(w) \ {g})
      BY <3>2 DEF Apart, Gap
    <3>4. QED
      BY <3>1, <3>3, FetchSound, WindowFacts
  <2>4. QED
    BY <2>1, <2>2, <2>3
<1>3. QED
  BY <1>1, <1>2 DEF HistoryInv

LEMMA HistoryInit == Init => HistoryInv
BY DEF Init, HistoryInv, SoundStore

LEMMA HistoryStep ==
  ASSUME HistoryInv, [Next]_vars
  PROVE  HistoryInv'
<1>1. CASE \E w \in Windows, resume \in BOOLEAN : Download(w, resume)
  BY <1>1, ServicesSound
<1>2. CASE \E w \in Windows : Update(w[2])
  BY <1>2, ServicesSound
<1>3. CASE \E w \in Windows : Repair(w)
  BY <1>3, ServicesSound
<1>4. CASE NothingToFetch
  BY <1>4, LoopEndsSound DEF NothingToFetch, InLoop, HistoryInv, Sound, JobSet
<1>5. CASE FetchPage
  <2>1. job.cursor \in Nat /\ job.end \in Nat
    BY <1>5 DEF FetchPage, InLoop, HistoryInv, Sound, JobSet
  <2>2. QED
    BY <1>5, <2>1, PageIsListed, ArrivedSound DEF FetchPage
<1>6. CASE FetchStalePage
  <2>1. job.start \in Nat /\ job.end \in Nat
    BY <1>6 DEF FetchStalePage, InLoop, HistoryInv, Sound, JobSet
  <2>2. QED
    BY <1>6, <2>1, PageIsListed, ArrivedSound DEF FetchStalePage
<1>7. CASE FetchFails
  <2>1. UNCHANGED <<store, torn, checkpoint>> /\ Sound(job) /\ job \in JobSet
    BY <1>7 DEF FetchFails, InLoop, HistoryInv, Sound
  <2>2. CASE CanRetry(job.attempt)
    <3>1. job.attempt + 1 \in 1 .. MaxRetries
      BY <2>1, <2>2, HistoryAssumption DEF JobSet, CanRetry
    <3>2. job' = [job EXCEPT !.attempt = job.attempt + 1]
      BY <1>7, <2>2 DEF FetchFails
    <3>3. job' \in JobSet
      BY <2>1, <3>1, <3>2 DEF JobSet
    <3>4. Sound(job')
      BY <2>1, <3>2, <3>3 DEF Sound, JobSet
    <3>5. QED
      BY <2>1, <3>4 DEF HistoryInv
  <2>3. CASE ~CanRetry(job.attempt)
    BY <1>7, <2>1, <2>3 DEF FetchFails, Ended, HistoryInv
  <2>4. QED
    BY <2>2, <2>3
<1>8. CASE WritePartition
  <2> DEFINE d == NextDay
             rows == OfDay(job.collected, d)
             rest == job.collected \ rows
  <2>1. Sound(job) /\ job.collected \in SUBSET Listed /\ job.phase = "write"
    BY <1>8 DEF WritePartition, Writing, HistoryInv, Sound, JobSet
  <2>2. UNCHANGED <<torn, checkpoint>>
    BY <1>8 DEF WritePartition
  <2>3. SoundStore(store', torn')
    <3>1. rows \subseteq Listed /\ \A t \in rows : Day(t) = d
      BY <2>1 DEF OfDay
    <3>2. d \notin torn => store' = store \cup rows
      BY <1>8 DEF WritePartition, Merged
    <3>3. d \in torn => store' = store
      BY <1>8 DEF WritePartition
    <3> HIDE DEF d, rows
    <3>4. QED
      BY <2>2, <3>1, <3>2, <3>3 DEF HistoryInv, SoundStore
  <2>4. job' # Idle => Sound(job')
    <3>1. CASE d \in torn
      BY <1>8, <3>1 DEF WritePartition, Ended
    <3>2. CASE d \notin torn /\ rest = {}
      BY <1>8, <2>1, <3>2, NextGapSound DEF WritePartition
    <3>3. CASE d \notin torn /\ rest # {}
      <4>1. job' = [job EXCEPT !.collected = rest]
        BY <1>8, <3>3 DEF WritePartition
      <4>2. rest \in SUBSET Listed
        BY <2>1
      <4> HIDE DEF rest
      <4>3. [job EXCEPT !.collected = rest] = Written(job, rest)
        BY <2>1 DEF Sound, JobSet, Written
      <4>4. QED
        BY <2>1, <3>3, <4>1, <4>2, <4>3, WrittenSound
    <3>4. QED
      BY <3>1, <3>2, <3>3
  <2>5. QED
    BY <2>2, <2>3, <2>4 DEF HistoryInv
<1>9. CASE Crash
  <2> DEFINE d == NextDay
  <2>1. job' = Idle /\ checkpoint' = checkpoint
    BY <1>9 DEF Crash
  <2>2. \/ store' = store /\ torn' = torn
        \/ torn' = torn \cup {d} /\ store' = store \ OfDay(store, d)
    BY <1>9 DEF Crash
  <2> HIDE DEF d
  <2>3. SoundStore(store', torn')
    BY <2>2 DEF HistoryInv, SoundStore, OfDay
  <2>4. QED
    BY <2>1, <2>3 DEF HistoryInv
<1>10. CASE UNCHANGED vars
  BY <1>10 DEF vars, HistoryInv, SoundStore
<1>11. QED
  BY <1>1, <1>2, <1>3, <1>4, <1>5, <1>6, <1>7, <1>8, <1>9, <1>10 DEF Next

LEMMA HistoryInvariance == Spec => []HistoryInv
BY HistoryInit, HistoryStep, PTL DEF Spec

\* The store holds listed candles, none in a partition that a crash tore, checkpoints
\* point behind a candle of their window, and jobs have attempts, gaps and candles as
\* their phase asks, whatever pages, failures and crashes (HistoricalIngestor).
THEOREM HistoryTypes == Spec => []HistoryTypeOK
<1>1. HistoryInv => HistoryTypeOK
  BY InvIsTyped
<1>2. QED
  BY <1>1, HistoryInvariance, PTL

-----------------------------------------------------------------------------
(* The store.                                                              *)

\* Downloads, updates, repairs and crashes never lose a candle that was stored, except
\* with a partition that a crash tears for the first time (write_frame).
THEOREM StoredCandlesStay == Spec => StoreOnlyGrows
<1>1. ASSUME HistoryInv, [Next]_vars, torn' = torn
      PROVE  store \subseteq store'
  <2>1. CASE Crash
    <3>1. store' = store \/ (torn' = torn \cup {NextDay} /\ store' = store \ OfDay(store, NextDay))
      BY <2>1 DEF Crash
    <3>2. CASE torn' = torn \cup {NextDay} /\ store' = store \ OfDay(store, NextDay)
      <4>1. NextDay \in torn
        BY <1>1, <3>2
      <4>2. OfDay(store, NextDay) = {}
        BY <1>1, <4>1 DEF HistoryInv, SoundStore, OfDay
      <4>3. QED
        BY <3>2, <4>2
    <3>3. QED
      BY <3>1, <3>2
  <2>2. CASE WritePartition
    BY <2>2 DEF WritePartition, Merged
  <2>3. CASE ~Crash /\ ~WritePartition
    <3>1. store' = store
      BY <1>1, <2>3 DEF Next, Download, Update, Repair, NothingToFetch, FetchPage, FetchStalePage,
        FetchFails, Arrived, LoopEnds, vars
    <3>2. QED
      BY <3>1
  <2>4. QED
    BY <2>1, <2>2, <2>3
<1>2. ASSUME HistoryInv, [Next]_vars
      PROVE  [torn' = torn => store \subseteq store']_vars
  BY <1>1, <1>2
<1>3. QED
  BY <1>2, HistoryInvariance, PTL DEF Spec, StoreOnlyGrows

-----------------------------------------------------------------------------
(* What a call covers.                                                     *)

\* A listed candle of the window that is neither stored nor collected is still to be
\* fetched, or lies in a gap that is.
InGap(gaps, t) == \E g \in gaps : g[1] <= t /\ t <= g[2]
Asked(j, t) == t \in Listed /\ j.first <= t /\ t <= j.window[2]

Faithful(j, s) ==
  ~j.suspect =>
    /\ j.phase = "fetch" => j.start <= j.cursor
    /\ \A t : Asked(j, t) =>
         \/ t \in s \/ t \in j.collected
         \/ j.phase = "fetch" /\ j.cursor <= t /\ t <= j.end
         \/ InGap(j.gaps, t)

\* The same once the loop is over.
Gathered(j, collected, s) ==
  ~j.suspect => \A t : Asked(j, t) => t \in s \/ t \in collected \/ InGap(j.gaps, t)

CoverInv ==
  /\ job # Idle => outcome = NoOutcome /\ Faithful(job, store)
  /\ CallsCover

LEMMA NoOutcomeCovers ==
  ASSUME outcome = NoOutcome
  PROVE  CallsCover
BY DEF NoOutcome, CallsCover

LEMMA NextGapCovers ==
  ASSUME NEW j, Sound(j), NextGap(j), outcome = NoOutcome, Gathered(j, {}, store')
  PROVE  CoverInv'
<1>1. CASE j.gaps = {} /\ Ended(j, TRUE)
  <2>1. job' = Idle /\ outcome'.suspect = j.suspect /\ outcome'.first = j.first
        /\ outcome'.window = j.window
    BY <1>1 DEF Ended
  <2>2. ASSUME ~outcome'.suspect
        PROVE  Between(Listed, outcome'.first, outcome'.window[2]) \subseteq store'
    <3>1. ~j.suspect
      BY <2>1, <2>2
    <3>2. QED
      BY <1>1, <2>1, <3>1 DEF Gathered, Asked, InGap, Between
  <2>3. QED
    BY <2>1, <2>2 DEF CoverInv, CallsCover
<1>2. ASSUME NEW g \in j.gaps, \A q \in j.gaps \ {g} : g[2] + 1 < q[1],
             job' = OnGap(j, g), outcome' = outcome
      PROVE  CoverInv'
  <2>1. g[1] \in Nat
    BY DEF Sound, Apart, Gap
  <2>2. /\ job'.suspect = j.suspect /\ job'.start = g[1] /\ job'.cursor = g[1] /\ job'.end = g[2]
        /\ job'.phase = "fetch" /\ job'.first = j.first /\ job'.window = j.window
        /\ job'.gaps = j.gaps \ {g}
    BY <1>2 DEF OnGap
  <2>3. ASSUME ~j.suspect, NEW t, Asked(j, t)
        PROVE  t \in store' \/ (g[1] <= t /\ t <= g[2]) \/ InGap(j.gaps \ {g}, t)
    BY <2>3 DEF Gathered, InGap
  <2>4. Faithful(job', store')
    BY <2>1, <2>2, <2>3 DEF Faithful, Asked
  <2>5. QED
    BY <1>2, <2>4, NoOutcomeCovers DEF CoverInv, CallsCover, NoOutcome
<1>3. QED
  BY <1>1, <1>2, NextGapFacts DEF Sound

LEMMA LoopEndsCovers ==
  ASSUME NEW j, Sound(j), NEW collected \in SUBSET Listed, LoopEnds(j, collected),
         outcome = NoOutcome, Gathered(j, collected, store)
  PROVE  CoverInv'
<1>1. store' = store
  BY DEF LoopEnds
<1>2. CASE collected = {}
  BY <1>1, <1>2, NextGapCovers DEF LoopEnds
<1>3. CASE collected # {}
  <2>1. job' = Written(j, collected) /\ outcome' = NoOutcome
    BY <1>3 DEF LoopEnds, Written
  <2>2. /\ job'.suspect = j.suspect /\ job'.phase = "write" /\ job'.first = j.first
        /\ job'.window = j.window /\ job'.gaps = j.gaps /\ job'.collected = collected
    BY <2>1 DEF Written, Sound, JobSet
  <2>3. Faithful(job', store')
    BY <1>1, <2>2 DEF Faithful, Gathered, Asked
  <2>4. QED
    BY <2>1, <2>3 DEF CoverInv, CallsCover, NoOutcome
<1>4. QED
  BY <1>2, <1>3

\* A page of the exchange holds all that is listed up to its last candle.
LEMMA ArrivedCovers ==
  ASSUME HistoryInv, CoverInv, InLoop, NEW page \in SUBSET Listed, NEW b \in BOOLEAN, Arrived(page, b),
         ~b => ~SpanCapped /\ page = Page(job.cursor, job.end)
  PROVE  CoverInv'
<1> DEFINE j == Suspected(job, b)
           kept == Between(page, job.start, job.end)
           collected == job.collected \cup kept
           last == Max(kept)
           next == NextCursor(last, Cardinality(kept))
<1>1. Sound(job) /\ job \in JobSet /\ job.phase = "fetch" /\ outcome = NoOutcome /\ Faithful(job, store)
  BY DEF HistoryInv, CoverInv, InLoop, Sound
<1>2. /\ Sound(j) /\ j \in JobSet /\ j.phase = "fetch" /\ j.first = job.first /\ j.window = job.window
      /\ j.start = job.start /\ j.end = job.end /\ j.gaps = job.gaps
      /\ ~j.suspect => ~job.suspect /\ ~b
  BY <1>1, SuspectedSound DEF JobSet, Sound
<1>3. job.start \in Nat /\ job.end \in Nat /\ job.cursor \in Nat /\ job.collected \in SUBSET Listed
  BY <1>1 DEF JobSet
<1>4. /\ kept \in SUBSET Listed /\ Cardinality(kept) \in Nat
      /\ kept # {} => last \in kept /\ \A t \in kept : t <= last
  BY <1>3, KeptFacts
<1>5. collected \in SUBSET Listed
  BY <1>3, <1>4
<1>6. ASSUME ~j.suspect
      PROVE  /\ \A t \in kept : job.cursor <= t /\ t <= job.end
             /\ kept = {} => Between(Listed, job.cursor, job.end) = {}
             /\ \A t \in Between(Listed, job.cursor, job.end) : t <= last /\ kept # {} => t \in kept
  <2>1. job.start <= job.cursor /\ ~SpanCapped /\ page = Page(job.cursor, job.end)
    BY <1>1, <1>2, <1>6 DEF Faithful
  <2>2. page \subseteq Between(Listed, job.cursor, job.end)
    BY <1>3, <2>1, PageFacts
  <2>3. kept = page
    <3>1. \A t \in Nat : job.cursor <= t => job.start <= t
      BY <1>3, <2>1
    <3>2. \A t \in page : t \in Nat /\ job.cursor <= t /\ t <= job.end
      BY <2>2, ListedFacts DEF Between
    <3>3. QED
      BY <3>1, <3>2 DEF Between
  <2> HIDE DEF kept, last
  <2>4. kept = {} => Between(Listed, job.cursor, job.end) = {}
    BY <1>3, <2>1, <2>3, PageFacts
  <2>5. kept # {} => \A t \in Between(Listed, job.cursor, job.end) : t <= last => t \in kept
    BY <1>3, <1>4, <2>1, <2>3, PageFacts
  <2>6. \A t \in kept : job.cursor <= t /\ t <= job.end
    BY <2>2, <2>3 DEF Between
  <2>7. QED
    BY <2>4, <2>5, <2>6
<1>7. \A t : Asked(j, t) <=> Asked(job, t)
  BY <1>2 DEF Asked
<1>8. ASSUME ~j.suspect, NEW t, Asked(j, t)
      PROVE  \/ t \in store \/ t \in job.collected \/ InGap(j.gaps, t)
             \/ t \in Between(Listed, job.cursor, job.end)
  BY <1>1, <1>2, <1>7, <1>8 DEF Faithful, Asked, Between
<1>9. CASE kept = {}
  <2>1. LoopEnds(j, job.collected)
    BY <1>9 DEF Arrived, Suspected
  <2> HIDE DEF j, kept, last, next, collected
  <2>2. Gathered(j, job.collected, store)
    BY <1>6, <1>8, <1>9 DEF Gathered
  <2>3. QED
    BY <1>1, <1>2, <1>3, <2>1, <2>2, LoopEndsCovers
<1>10. CASE kept # {}
  <2>1. last \in kept /\ last \in Nat
    BY <1>4, <1>10, ListedFacts
  <2>2. ~j.suspect => next = last + 1 /\ job.cursor <= last
    <3> HIDE DEF j, kept, last
    <3>1. ~j.suspect => job.cursor <= last
      BY <1>6, <2>1
    <3>2. QED
      BY <1>3, <1>4, <2>1, <3>1, NextCursorFacts
  <2>3. next \in Nat
    BY <1>3, <1>4, <2>1, NextCursorFacts
  <2>4. CASE (Cardinality(kept) < PageLimit /\ last >= job.end) \/ next > job.end
    <3>1. LoopEnds(j, collected)
      BY <1>10, <2>4 DEF Arrived, Suspected
    <3>2. Gathered(j, collected, store)
      <4>1. ASSUME ~j.suspect, NEW t \in Between(Listed, job.cursor, job.end)
            PROVE  t \in kept
        <5>1. t \in Nat /\ t <= job.end
          BY <4>1, ListedFacts DEF Between
        <5> HIDE DEF j, kept, last
        <5>2. last >= job.end
          BY <1>3, <2>1, <2>2, <2>4, <4>1
        <5>3. t <= last
          BY <1>3, <2>1, <5>1, <5>2
        <5>4. QED
          BY <1>6, <1>10, <4>1, <5>3
      <4> HIDE DEF j, kept
      <4>2. QED
        BY <1>8, <4>1 DEF Gathered
    <3> HIDE DEF j, kept, last, next, collected
    <3>3. QED
      BY <1>1, <1>2, <1>5, <3>1, <3>2, LoopEndsCovers
  <2>5. CASE ~((Cardinality(kept) < PageLimit /\ last >= job.end) \/ next > job.end)
    <3>1. job' = Moved(j, next, collected) /\ outcome' = outcome /\ store' = store
      BY <1>10, <2>5 DEF Arrived, Suspected, Moved
    <3>2. collected = job.collected \cup kept
      OBVIOUS
    <3> HIDE DEF j, kept, last, next, collected
    <3>3. /\ job'.suspect = j.suspect /\ job'.phase = "fetch" /\ job'.first = j.first
          /\ job'.window = j.window /\ job'.gaps = j.gaps /\ job'.collected = collected
          /\ job'.cursor = next /\ job'.start = job.start /\ job'.end = job.end
      BY <1>2, <3>1 DEF Moved, JobSet
    <3>4. ASSUME ~j.suspect
          PROVE  /\ job'.start <= job'.cursor
                 /\ \A t : Asked(job', t) =>
                      \/ t \in store' \/ t \in job'.collected
                      \/ job'.cursor <= t /\ t <= job'.end
                      \/ InGap(job'.gaps, t)
      <4>1. next = last + 1 /\ job.cursor <= last /\ job.start <= job.cursor
        BY <1>1, <1>2, <2>2, <3>4 DEF Faithful
      <4>2. job.start <= next
        BY <1>3, <2>1, <4>1
      <4>3. ASSUME NEW t \in Between(Listed, job.cursor, job.end)
            PROVE  t \in kept \/ (next <= t /\ t <= job.end)
        <5>1. t \in Nat /\ t <= job.end
          BY ListedFacts DEF Between
        <5>2. t <= last => t \in kept
          BY <1>6, <1>10, <3>4
        <5>3. QED
          BY <2>1, <4>1, <5>1, <5>2
      <4>4. \A t : Asked(job', t) => Asked(j, t)
        BY <3>3 DEF Asked
      <4>5. QED
        BY <1>8, <3>1, <3>2, <3>3, <3>4, <4>2, <4>3, <4>4
    <3>5. Faithful(job', store')
      BY <3>3, <3>4 DEF Faithful
    <3>6. QED
      BY <1>1, <3>1, <3>5 DEF CoverInv, CallsCover, NoOutcome
  <2>6. QED
    BY <2>4, <2>5
<1>11. QED
  BY <1>9, <1>10

\* A call begins with nothing left out.
LEMMA FetchFaithful ==
  ASSUME NEW kind, NEW start \in Nat, NEW end, NEW cursor, NEW first, NEW resumed, NEW gaps,
         NEW window, NEW suspect, NEW s,
         ~suspect => start <= cursor,
         \A t \in Listed : first <= t /\ t <= window[2] =>
            t \in s \/ (cursor <= t /\ t <= end) \/ InGap(gaps, t)
  PROVE  Faithful(Fetch(kind, start, end, cursor, first, resumed, gaps, window, suspect), s)
<1> DEFINE j == Fetch(kind, start, end, cursor, first, resumed, gaps, window, suspect)
<1>1. /\ j.phase = "fetch" /\ j.start = start /\ j.end = end /\ j.cursor = cursor /\ j.first = first
      /\ j.gaps = gaps /\ j.window = window /\ j.suspect = suspect
  BY DEF Fetch
<1> HIDE DEF j
<1>2. Faithful(j, s)
  BY <1>1 DEF Faithful, Asked
<1>3. QED
  BY <1>2 DEF j

LEMMA DownloadCovers ==
  ASSUME HistoryInv, NEW w \in Windows, NEW resume \in BOOLEAN, Download(w, resume)
  PROVE  CoverInv'
<1>1. outcome' = NoOutcome
  BY DEF Download
<1>2. PICK cursor \in Nat, resumed \in BOOLEAN, suspect \in BOOLEAN :
        /\ job' = Fetch("download", w[1], w[2], cursor, cursor, resumed, {}, w, suspect)
        /\ ~suspect => w[1] <= cursor
  BY DownloadJob
<1>3. Faithful(job', store')
  BY <1>2, FetchFaithful, WindowFacts
<1>4. QED
  BY <1>1, <1>3 DEF CoverInv, CallsCover, NoOutcome

LEMMA UpdateCovers ==
  ASSUME HistoryInv, NEW w \in Windows, Update(w[2])
  PROVE  CoverInv'
<1>1. CASE /\ job' = Idle
           /\ \E start \in Nat :
                /\ start > w[2]
                /\ outcome' = [ok |-> TRUE, kind |-> "update", window |-> <<start, w[2]>>,
                               first |-> start, resumed |-> FALSE, suspect |-> FALSE]
  <2>1. PICK start \in Nat :
          /\ start > w[2]
          /\ outcome' = [ok |-> TRUE, kind |-> "update", window |-> <<start, w[2]>>,
                         first |-> start, resumed |-> FALSE, suspect |-> FALSE]
    BY <1>1
  <2>2. Between(Listed, start, w[2]) = {}
    <3>1. \A t \in Listed : t \in Nat /\ w[2] \in Nat
      BY ListedFacts, WindowFacts
    <3>2. QED
      BY <2>1, <3>1 DEF Between
  <2>3. outcome'.first = start /\ outcome'.window[2] = w[2]
    BY <2>1
  <2>4. QED
    BY <1>1, <2>2, <2>3 DEF CoverInv, CallsCover
<1>2. ASSUME outcome' = NoOutcome, NEW start \in Nat,
             job' = Fetch("update", start, w[2], start, start, FALSE, {}, <<start, w[2]>>, FALSE)
      PROVE  CoverInv'
  <2>1. \A t \in Listed : start <= t /\ t <= <<start, w[2]>>[2] =>
          t \in store' \/ (start <= t /\ t <= w[2]) \/ InGap({}, t)
    OBVIOUS
  <2>2. FALSE \/ start <= start
    OBVIOUS
  <2>3. Faithful(job', store')
    BY <1>2, <2>1, <2>2, FetchFaithful
  <2>4. QED
    BY <1>2, <2>3 DEF CoverInv, CallsCover, NoOutcome
<1>3. QED
  BY <1>1, <1>2, UpdateJob

LEMMA RepairCovers ==
  ASSUME HistoryInv, NEW w \in Windows, Repair(w)
  PROVE  CoverInv'
<1>1. store' = store
  BY DEF Repair
<1>2. ASSUME NEW t \in Listed, w[1] <= t, t <= w[2]
      PROVE  t \in store \/ InGap(GapsOf(w), t)
  <2>1. t \in w[1] .. w[2]
    BY <1>2, ListedFacts, WindowFacts
  <2>2. t \in Between(store, w[1], w[2]) => t \in store
    BY DEF Between
  <2>3. t \notin Between(store, w[1], w[2]) => InGap(GapsOf(w), t)
    BY <2>1, RangesCover, WindowFacts DEF InGap, GapsOf
  <2>4. QED
    BY <2>2, <2>3
<1>3. CASE /\ GapsOf(w) = {} /\ job' = Idle
           /\ outcome' = [ok |-> TRUE, kind |-> "repair", window |-> w, first |-> w[1],
                          resumed |-> FALSE, suspect |-> FALSE]
  <2>1. outcome'.first = w[1] /\ outcome'.window = w
    BY <1>3
  <2>2. Between(Listed, w[1], w[2]) \subseteq store'
    BY <1>1, <1>2, <1>3 DEF Between, InGap
  <2>3. QED
    BY <1>3, <2>1, <2>2 DEF CoverInv, CallsCover
<1>4. ASSUME outcome' = NoOutcome, NEW g \in GapsOf(w), \A q \in GapsOf(w) \ {g} : g[2] + 1 < q[1],
             job' = Fetch("repair", g[1], g[2], g[1], w[1], FALSE, GapsOf(w) \ {g}, w, FALSE)
      PROVE  CoverInv'
  <2>1. g[1] \in Nat
    BY RepairJob DEF Apart, Gap
  <2>2. \A t \in Listed : w[1] <= t /\ t <= w[2] =>
           t \in store' \/ (g[1] <= t /\ t <= g[2]) \/ InGap(GapsOf(w) \ {g}, t)
    BY <1>1, <1>2 DEF InGap
  <2>3. g[1] <= g[1]
    BY <2>1
  <2>4. Faithful(job', store')
    BY <1>4, <2>1, <2>2, <2>3, FetchFaithful
  <2>5. QED
    BY <1>4, <2>4 DEF CoverInv, CallsCover, NoOutcome
<1>5. QED
  BY <1>3, <1>4, RepairJob

LEMMA WriteCovers ==
  ASSUME HistoryInv, CoverInv, WritePartition
  PROVE  CoverInv'
<1> DEFINE rows == OfDay(job.collected, NextDay)
           rest == job.collected \ rows
<1>1. /\ Sound(job) /\ job \in JobSet /\ job.phase = "write" /\ job # Idle
      /\ outcome = NoOutcome /\ Faithful(job, store)
  BY DEF WritePartition, Writing, HistoryInv, CoverInv, Sound
<1>2. rows \subseteq job.collected
  BY DEF OfDay
<1>3. CASE NextDay \in torn
  <2>1. Ended(job, FALSE)
    BY <1>3 DEF WritePartition
  <2>2. QED
    BY <2>1 DEF Ended, CoverInv, CallsCover
<1>4. CASE NextDay \notin torn
  <2>1. store' = store \cup rows
    BY <1>4 DEF WritePartition, Merged
  <2>2. Gathered(job, rest, store')
    <3> HIDE DEF rows
    <3>1. QED
      BY <1>1, <1>2, <2>1 DEF Gathered, Faithful
  <2>3. CASE rest = {}
    <3>1. NextGap(job)
      BY <1>4, <2>3 DEF WritePartition
    <3>2. QED
      BY <1>1, <2>2, <2>3, <3>1, NextGapCovers
  <2>4. CASE rest # {}
    <3>1. job' = [job EXCEPT !.collected = rest] /\ outcome' = outcome
      BY <1>4, <2>4 DEF WritePartition
    <3> HIDE DEF rest
    <3>2. /\ job'.suspect = job.suspect /\ job'.phase = "write" /\ job'.first = job.first
          /\ job'.window = job.window /\ job'.gaps = job.gaps /\ job'.collected = rest
      BY <1>1, <3>1 DEF JobSet
    <3>3. Faithful(job', store')
      BY <2>2, <3>2 DEF Faithful, Gathered, Asked
    <3>4. QED
      BY <1>1, <3>1, <3>3 DEF CoverInv, CallsCover, NoOutcome
  <2>5. QED
    BY <2>3, <2>4
<1>5. QED
  BY <1>3, <1>4

LEMMA CoverStep ==
  ASSUME ~SpanCapped, HistoryInv, CoverInv, [Next]_vars
  PROVE  CoverInv'
<1>1. CASE \E w \in Windows, resume \in BOOLEAN : Download(w, resume)
  BY <1>1, DownloadCovers
<1>2. CASE \E w \in Windows : Update(w[2])
  BY <1>2, UpdateCovers
<1>3. CASE \E w \in Windows : Repair(w)
  BY <1>3, RepairCovers
<1>4. CASE NothingToFetch
  <2>1. /\ Sound(job) /\ job \in JobSet /\ outcome = NoOutcome /\ Faithful(job, store)
        /\ job.phase = "fetch"
    BY <1>4 DEF NothingToFetch, InLoop, HistoryInv, CoverInv, Sound
  <2>2. job.collected \in SUBSET Listed /\ job.cursor \in Nat /\ job.end \in Nat /\ job.cursor > job.end
    BY <1>4, <2>1 DEF NothingToFetch, JobSet
  <2>3. Gathered(job, job.collected, store)
    <3>1. \A t \in Listed : ~(job.cursor <= t /\ t <= job.end)
      <4>1. \A t \in Nat : ~(job.cursor <= t /\ t <= job.end)
        BY <2>2
      <4>2. QED
        BY <4>1, ListedFacts
    <3>2. QED
      BY <2>1, <3>1 DEF Gathered, Faithful, Asked
  <2>4. QED
    BY <1>4, <2>1, <2>2, <2>3, LoopEndsCovers DEF NothingToFetch
<1>5. CASE FetchPage
  <2>1. job.cursor \in Nat /\ job.end \in Nat
    BY <1>5 DEF FetchPage, InLoop, HistoryInv, Sound, JobSet
  <2>2. QED
    BY <1>5, <2>1, PageIsListed, ArrivedCovers DEF FetchPage
<1>6. CASE FetchStalePage
  <2>1. job.start \in Nat /\ job.end \in Nat
    BY <1>6 DEF FetchStalePage, InLoop, HistoryInv, Sound, JobSet
  <2>2. QED
    BY <1>6, <2>1, PageIsListed, ArrivedCovers DEF FetchStalePage
<1>7. CASE FetchFails
  <2>1. /\ store' = store /\ job # Idle /\ outcome = NoOutcome /\ Faithful(job, store) /\ job \in JobSet
    BY <1>7 DEF FetchFails, InLoop, CoverInv, HistoryInv, Sound
  <2>2. CASE CanRetry(job.attempt)
    <3>1. job' = [job EXCEPT !.attempt = job.attempt + 1] /\ outcome' = outcome
      BY <1>7, <2>2 DEF FetchFails
    <3>2. /\ job'.suspect = job.suspect /\ job'.phase = job.phase /\ job'.first = job.first
          /\ job'.window = job.window /\ job'.gaps = job.gaps /\ job'.collected = job.collected
          /\ job'.cursor = job.cursor /\ job'.start = job.start /\ job'.end = job.end
      BY <2>1, <3>1 DEF JobSet
    <3>3. Faithful(job', store')
      BY <2>1, <3>2 DEF Faithful, Asked
    <3>4. QED
      BY <2>1, <3>1, <3>3 DEF CoverInv, CallsCover, NoOutcome
  <2>3. CASE ~CanRetry(job.attempt)
    BY <1>7, <2>3 DEF FetchFails, Ended, CoverInv, CallsCover
  <2>4. QED
    BY <2>2, <2>3
<1>8. CASE WritePartition
  BY <1>8, WriteCovers
<1>9. CASE Crash
  BY <1>9 DEF Crash, CoverInv, CallsCover, NoOutcome
<1>10. CASE UNCHANGED vars
  BY <1>10 DEF vars, CoverInv, CallsCover, Faithful, Asked
<1>11. QED
  BY <1>1, <1>2, <1>3, <1>4, <1>5, <1>6, <1>7, <1>8, <1>9, <1>10 DEF Next

LEMMA CoverInit == Init => CoverInv
BY DEF Init, CoverInv, CallsCover, NoOutcome

\* With an adapter that truncates pages and not ranges, a call that returns has stored
\* every listed candle from the cursor it began at, for any windows, holes, page sizes,
\* retries, failed calls and crashes before it (download_candles, update_candles,
\* repair_candles).
THEOREM ReturnedCallsCover ==
  ASSUME ~SpanCapped
  PROVE  Spec => []CallsCover
<1>1. HistoryInv /\ CoverInv /\ [Next]_vars => CoverInv'
  BY CoverStep
<1>2. CoverInv => CallsCover
  BY DEF CoverInv
<1>3. QED
  BY <1>1, <1>2, CoverInit, HistoryInvariance, PTL DEF Spec

=============================================================================
