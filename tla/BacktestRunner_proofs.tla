------------------------ MODULE BacktestRunner_proofs ------------------------
(***************************************************************************)
(* Proofs about a backtest, for any instruments, data sets, horizons,      *)
(* portfolios, costs, pauses and processes.                                *)
(***************************************************************************)
EXTENDS BacktestRunner, EventEngine_proofs

-----------------------------------------------------------------------------
(* The invariant.                                                          *)

Pending == queue \cup batch

\* Handlers still have events to come.
Live == engineState \in {"CREATED", "RUNNING"}

\* The bars of a MARKET event are those of its instant.
Fed(e) == e.type = "MARKET" /\ ~LooksAhead(e)

\* The cascade of an instant is carried on by one event at a time; fills come beside it.
Carries(e) == e.type # "FILL" /\ ~LooksAhead(e)

\* No jobs; events are numbered below seq, each with a number of its own.
NumberedInv ==
    /\ jobs = [j \in Job |-> Unscheduled]
    /\ queue \cap batch = {}
    /\ \A e \in Pending : e.job = NoJob /\ e.seq < seq /\ e.ts \in Time
    /\ \A e, f \in Pending : e.seq = f.seq => e = f
    /\ DOMAIN payload \subseteq 0 .. seq - 1

\* The events that carry data have it.
PayloadInv ==
    \A e \in Pending :
        /\ e.type = "MARKET" =>
              /\ e.seq \in DOMAIN payload
              /\ payload[e.seq] \in [bars : Time, rows : SUBSET Instrument]
              /\ payload[e.seq].bars >= e.ts
        /\ e.type \in {"ORDER", "EXECUTION"} =>
              e.seq \in DOMAIN payload /\ payload[e.seq] \in [Instrument -> Int]
        /\ e.type = "FILL" => e.seq \in DOMAIN payload /\ payload[e.seq] \in Fill

\* What the runner, the context and the checkpoint hold.
RunnerTypeInv ==
    /\ lifecycle \in Lifecycle
    /\ {prepared, running, resumeFrom} \subseteq BOOLEAN
    /\ frame \in Frames
    /\ ctx \in Context
    /\ file # NoFile => file \in Context

Contexts == {ctx} \cup ({file} \ {NoFile})

\* The signed costs of all positions.
CostSum(b) == SumFunction([i \in Instrument |-> Sign(b.position[i].qty) * b.position[i].cost])

\* Books that agree: an open position has a cost, and what was paid for the positions and
\* in fees is what left the cash.
Balanced(b) ==
    /\ \A i \in Instrument : b.position[i].qty = 0 <=> b.position[i].cost = 0
    /\ b.cash + CostSum(b) = Capital + b.realized - b.fees
    /\ FillsReplay(b)
BooksInv == \A c \in Contexts : Balanced(c.books)

\* A curve has its points in the order of time, none later than the context.
Ordered(c) ==
    /\ \A m, n \in DOMAIN c.curve : m < n => c.curve[m].ts < c.curve[n].ts
    /\ \A n \in DOMAIN c.curve : c.time # NoTime /\ c.curve[n].ts <= c.time

\* One event carries each instant on: bars that are still to come lie after the
\* context's time, everything else belongs to that time; fills come before their
\* POSITION and bars that look ahead before their FEATURE, in the same batch; and what
\* is to come of an instant precedes its point of the curve, except for RISK_UPDATE.
CascadeInv ==
    Live =>
    /\ \A e, f \in Pending : Carries(e) /\ Carries(f) /\ e.ts = f.ts => e = f
    /\ \A e \in Pending :
           IF Fed(e) THEN ctx.time = NoTime \/ e.ts > ctx.time
           ELSE ctx.time # NoTime /\ e.ts = ctx.time
    /\ \A e \in Pending : e.type = "FILL" => \E f \in Pending : f.type = "POSITION"
    /\ \A e \in Pending : LooksAhead(e) => \E f \in Pending : f.type = "FEATURE"
    /\ batch # {} => \A e \in queue : e.ts > clock
    /\ \A e \in Pending : e.type # "RISK_UPDATE" =>
           \A n \in DOMAIN ctx.curve : ctx.curve[n].ts < e.ts
CurveInv == (\A c \in Contexts : Ordered(c)) /\ CascadeInv

\* An engine has not begun until its first run; a prepared runner has a new engine, and
\* the context of its checkpoint or a new one.
PreparedInv ==
    /\ runs = 0 <=> engineState = "CREATED"
    /\ runs = 0 => ~loop.active /\ batch = {}
    /\ engineState = "RUNNING" => loop.active
    /\ loop.active => running /\ loop.end = Horizon /\ loop.cap = NoCap /\ ~loop.ticks
    /\ prepared /\ ~running /\ lifecycle \notin Terminal =>
           /\ runs = 0 /\ queue = {} /\ seq = 0
           /\ ctx.time \in ctx.resumedAt \cup {NoTime}
           /\ resumeFrom \/ ctx = NewContext

\* Lots that lead from a position towards a target, and not past it.
Towards(i, lots) ==
    \/ lots = 0
    \/ \E p \in Portfolios :
          LET gap == p[i] - ctx.books.position[i].qty
          IN  (0 <= lots /\ lots <= gap) \/ (gap <= lots /\ lots <= 0)
Inside(b) ==
    \A i \in Instrument : \E p, q \in Portfolios \cup {NoOrders} : b.position[i].qty \in p[i] .. q[i]
TradesInv ==
    Live =>
    /\ \A e \in Pending : e.type \in {"ORDER", "EXECUTION"} =>
           \A i \in Instrument : Towards(i, payload[e.seq][i])
    /\ \A e \in Pending : e.type = "FILL" => Towards(payload[e.seq].inst, payload[e.seq].qty)
    /\ \A e, f \in Pending :
           e.type = "FILL" /\ f.type = "FILL" /\ payload[e.seq].inst = payload[f.seq].inst => e = f
TargetInv == (\A c \in Contexts : Inside(c.books)) /\ TradesInv

\* An instant is accounted for, or it is one that a checkpoint was taken in.
Covered(c, t) == t \in c.resumedAt \/ \E n \in DOMAIN c.curve : c.curve[n].ts = t
Complete1(c) ==
    /\ c.time # NoTime => \A t \in Time : t < c.time => Covered(c, t)
    /\ \A n \in DOMAIN c.curve : c.curve[n].ts = c.time => c.curve[n].equity = Equity(c.books)
\* Or it is still to come.
ToCome(t) == \E e \in Pending : Carries(e) /\ e.type # "RISK_UPDATE" /\ e.ts = t
AccountedInv == running /\ Live => \A t \in Time : Covered(ctx, t) \/ ToCome(t)

CompleteInv ==
    /\ \A c \in Contexts : Complete1(c)
    /\ AccountedInv
    /\ engineState = "COMPLETED" => \A t \in Time : Covered(ctx, t)
    /\ engineState = "INVALIDATED" => ctx.invalidated
    /\ lifecycle = "COMPLETED" => ~running /\ CompletedIsComplete

-----------------------------------------------------------------------------
(* The engine without jobs, and its events.                                *)

LEMMA TimeFacts ==
    /\ Time \in SUBSET Nat /\ IsFiniteSet(Time)
    /\ Horizon \in Time /\ 0 \in Time /\ Horizon \in Nat
    /\ \A t \in Time : t \in Nat /\ t <= Horizon
    /\ NoTime \notin Time /\ NoTime \notin Nat
<1>1. Horizon \in Nat
  BY EngineAssumption
<1>2. IsFiniteSet(Time) /\ Time \in SUBSET Nat
  BY <1>1, FS_Interval DEF Time
<1>3. QED
  BY <1>1, <1>2, RunnerAssumption DEF Time

LEMMA RunnerFacts ==
    /\ EventType = CascadeTypes
    /\ \A f \in Frames : f \in [Time -> [Instrument -> Nat]]
    /\ Instrument \in SUBSET Nat /\ IsFiniteSet(Instrument) /\ Capital \in Nat
    /\ HalfSpread \in Nat /\ Fee \in Nat
    /\ \A p \in Portfolios : p \in [Instrument -> Int]
BY RunnerAssumption, AccountingAssumption

\* Nobody schedules a job, so there is never anything to seed or due.
LEMMA NothingScheduled ==
    ASSUME jobs = [j \in Job |-> Unscheduled], NEW t, NEW u
    PROVE  /\ JobEvents(Dues(t)) = {} /\ Numbers(Dues(t)) = 0 /\ DueJobs(t) = jobs
           /\ JobEvents(Seeds(t, u)) = {} /\ Numbers(Seeds(t, u)) = 0 /\ SeededJobs(t, u) = jobs
<1>1. ~Unscheduled.enabled
  BY DEF Unscheduled
<1>2. \A from, until : /\ Emitted(Unscheduled, from, until) = {}
                       /\ Advanced(Unscheduled, from, until) = Unscheduled
  BY <1>1 DEF Emitted, Count, Advanced
<1>3. \A j \in Job : jobs[j] = Unscheduled
  OBVIOUS
<1>4. \A j \in Job : /\ Dues(t)[j] = {} /\ DueJobs(t)[j] = jobs[j]
                     /\ Seeds(t, u)[j] = {} /\ SeededJobs(t, u)[j] = jobs[j]
  BY <1>2, <1>3 DEF Dues, DueJobs, Seeds, SeededJobs
<1>5. DueJobs(t) = jobs /\ SeededJobs(t, u) = jobs
  BY <1>4 DEF DueJobs, SeededJobs
<1>6. QED
  BY <1>4, <1>5 DEF JobEvents, Numbers

\* One MARKET event for each instant that is fed, in the order of time.
LEMMA MarketsFacts ==
    ASSUME seq = 0, NEW after \in Time \cup {NoTime}, NEW M, M = Markets(after)
    PROVE  /\ Cardinality(M) \in Nat
           /\ \A m \in M :
                 /\ m.event \in Event /\ m.event.type = "MARKET" /\ m.event.job = NoJob
                 /\ m.event.ts \in ToFeed(after) /\ m.event.ts \in Time
                 /\ m.event.seq \in 0 .. Cardinality(M) - 1
                 /\ m.data = [bars |-> m.event.ts, rows |-> Rows(m.event.ts)]
           /\ \A t \in ToFeed(after) : \E m \in M : m.event.ts = t
           /\ \A m, n \in M : m.event.seq = n.event.seq \/ m.event.ts = n.event.ts => m = n
           /\ DOMAIN Payloads(M) = {m.event.seq : m \in M}
           /\ \A m \in M : Payloads(M)[m.event.seq] = m.data
<1> DEFINE S == ToFeed(after)
           f == [t \in S |-> Market(t, Rows(t), seq + Cardinality({u \in S : u < t}))]
<1>1. S \in SUBSET Time /\ S \in SUBSET Int /\ IsFiniteSet(S)
  <2>1. S \in SUBSET Time
    BY DEF ToFeed
  <2> HIDE DEF S
  <2>2. QED
    <3>1. S \in SUBSET Int
      BY <2>1, TimeFacts
    <3>2. IsFiniteSet(S)
      BY <2>1, TimeFacts, FS_Subset
    <3>3. QED
      BY <2>1, <3>1, <3>2
<1> HIDE DEF S
<1>2. /\ Cardinality(S) \in Nat
      /\ \A i \in S : Rank(S, i) \in Nat /\ Rank(S, i) < Cardinality(S)
      /\ \A i, j \in S : Rank(S, i) = Rank(S, j) => i = j
  BY <1>1, RankFacts
<1>3. \A t \in S : /\ f[t].event = [ts |-> t, type |-> "MARKET", seq |-> Rank(S, t), job |-> NoJob]
                   /\ f[t].event.ts = t /\ f[t].event.seq = Rank(S, t)
                   /\ f[t].data = [bars |-> t, rows |-> Rows(t)]
  BY <1>2 DEF Market, Rank
<1>4. M = {f[t] : t \in S}
  BY DEF Markets, S
<1> HIDE DEF f
<1>5. \A s, t \in S : f[s].event.seq = f[t].event.seq \/ f[s].event.ts = f[t].event.ts => s = t
  <2>1. TAKE s, t \in S
  <2>2. f[s].event.seq = Rank(S, s) /\ f[t].event.seq = Rank(S, t)
    BY <1>3
  <2>3. f[s].event.ts = s /\ f[t].event.ts = t
    BY <1>3
  <2>4. QED
    BY <1>2, <2>2, <2>3
<1>6. Cardinality(M) = Cardinality(S)
  <2>1. \A s, t \in S : f[s] = f[t] => s = t
    BY <1>5
  <2>2. \A T : T = {f[t] : t \in S} => Cardinality(T) = Cardinality(S)
    BY <1>1, <2>1, ImageSize
  <2>3. QED
    BY <1>4, <2>2
<1>7. "MARKET" \in EventType
  BY RunnerFacts DEF CascadeTypes
<1>8. ASSUME NEW m \in M
      PROVE  /\ m.event \in Event /\ m.event.type = "MARKET" /\ m.event.job = NoJob
             /\ m.event.ts \in S /\ m.event.ts \in Time
             /\ m.event.seq \in 0 .. Cardinality(M) - 1
             /\ m.data = [bars |-> m.event.ts, rows |-> Rows(m.event.ts)]
  <2>1. PICK t \in S : m = f[t]
    BY <1>4
  <2>2. t \in Nat /\ t \in Time /\ Rank(S, t) \in 0 .. Cardinality(M) - 1 /\ Rank(S, t) \in Nat
    BY <1>1, <1>2, <1>6, TimeFacts
  <2>3. /\ m.event = [ts |-> t, type |-> "MARKET", seq |-> Rank(S, t), job |-> NoJob]
        /\ m.data = [bars |-> t, rows |-> Rows(t)]
    BY <1>3, <2>1
  <2>4. m.event \in Event
    BY <1>7, <2>2, <2>3 DEF Event
  <2>5. QED
    BY <2>2, <2>3, <2>4
<1>9. \A t \in S : \E m \in M : m.event.ts = t
  BY <1>3, <1>4
<1>10. \A m, n \in M : m.event.seq = n.event.seq \/ m.event.ts = n.event.ts => m = n
  BY <1>4, <1>5
<1>11. DOMAIN Payloads(M) = {m.event.seq : m \in M}
  BY DEF Payloads
<1>12. ASSUME NEW m \in M
       PROVE  Payloads(M)[m.event.seq] = m.data
  <2>1. Payloads(M)[m.event.seq] = (CHOOSE n \in M : n.event.seq = m.event.seq).data
    BY DEF Payloads
  <2>2. (CHOOSE n \in M : n.event.seq = m.event.seq) = m
    BY <1>10
  <2>3. QED
    BY <2>1, <2>2
<1>13. QED
  BY <1>2, <1>6, <1>8, <1>9, <1>10, <1>11, <1>12 DEF S

-----------------------------------------------------------------------------
(* What the handlers put.                                                  *)

\* Events of the instant, numbered from seq on, with the data they need.
WellPut(puts, data) ==
    LET next == seq + Cardinality(puts)
    IN  /\ puts \in SUBSET Event /\ Cardinality(puts) \in Nat
        /\ \A p \in puts : p.ts = clock /\ p.job = NoJob /\ p.seq \in seq .. next - 1
        /\ \A p, q \in puts : p.seq = q.seq => p = q
        /\ DOMAIN data \subseteq seq .. next - 1
        /\ \A p \in puts :
              /\ p.type = "MARKET" =>
                    /\ p.seq \in DOMAIN data
                    /\ data[p.seq] \in [bars : Time, rows : SUBSET Instrument]
                    /\ data[p.seq].bars > clock
              /\ p.type \in {"ORDER", "EXECUTION"} =>
                    p.seq \in DOMAIN data /\ data[p.seq] \in [Instrument -> Int]
              /\ p.type = "FILL" => p.seq \in DOMAIN data /\ data[p.seq] \in Fill

LEMMA PutsNothing ==
    ASSUME seq \in Nat
    PROVE  WellPut({}, <<>>)
BY FS_EmptySet DEF WellPut

LEMMA PutsOne ==
    ASSUME seq \in Nat, clock \in Nat, NEW type \in CascadeTypes \ {"MARKET", "FILL"}, NEW data,
           IF type \in {"ORDER", "EXECUTION"}
           THEN \E d \in [Instrument -> Int] : data = One(seq, d)
           ELSE data = <<>>
    PROVE  /\ WellPut({Put(type, 0)}, data)
           /\ Put(type, 0) = [ts |-> clock, type |-> type, seq |-> seq, job |-> NoJob]
<1> DEFINE p == Put(type, 0)
<1>1. p = [ts |-> clock, type |-> type, seq |-> seq, job |-> NoJob]
  BY DEF Put
<1>2. p \in Event
  BY <1>1, RunnerFacts DEF Event
<1>3. Cardinality({p}) = 1
  BY FS_Singleton
<1>4. DOMAIN data \subseteq {seq}
  BY DEF One
<1>5. type \in {"ORDER", "EXECUTION"} => seq \in DOMAIN data /\ data[seq] \in [Instrument -> Int]
  BY DEF One
<1> HIDE DEF p
<1>6. WellPut({p}, data)
  <2>1. p.ts = clock /\ p.job = NoJob /\ p.seq = seq /\ p.type = type
    BY <1>1
  <2>2. \A x \in {p} : x = p
    OBVIOUS
  <2>3. /\ seq .. (seq + Cardinality({p})) - 1 = {seq} /\ Cardinality({p}) \in Nat
        /\ {p} \in SUBSET Event
    BY <1>2, <1>3
  <2>4. type # "MARKET" /\ type # "FILL"
    OBVIOUS
  <2>5. \A x \in {p} : x.type = "MARKET" => FALSE
    BY <2>1, <2>4
  <2>6. QED
    BY <1>4, <1>5, <2>1, <2>2, <2>3, <2>4, <2>5 DEF WellPut
<1>7. QED
  BY <1>1, <1>6 DEF p

\* A MARKET event with a later bar, before the FEATURE of the instant.
LEMMA PutsAhead ==
    ASSUME seq \in Nat, clock \in Nat, NEW t \in Time, t > clock
    PROVE  /\ WellPut({Put("MARKET", 0), Put("FEATURE", 1)}, One(seq, [bars |-> t, rows |-> Rows(t)]))
           /\ Put("MARKET", 0) = [ts |-> clock, type |-> "MARKET", seq |-> seq, job |-> NoJob]
           /\ Put("FEATURE", 1) = [ts |-> clock, type |-> "FEATURE", seq |-> seq + 1, job |-> NoJob]
<1> DEFINE p == Put("MARKET", 0)
           q == Put("FEATURE", 1)
           d == [bars |-> t, rows |-> Rows(t)]
           data == One(seq, d)
<1>1. /\ p = [ts |-> clock, type |-> "MARKET", seq |-> seq, job |-> NoJob]
      /\ q = [ts |-> clock, type |-> "FEATURE", seq |-> seq + 1, job |-> NoJob]
  BY DEF Put
<1>2. p \in Event /\ q \in Event
  BY <1>1, RunnerFacts DEF Event, CascadeTypes
<1>3. p # q /\ p.seq = seq /\ q.seq = seq + 1
  BY <1>1
<1>4. Cardinality({p, q}) = 2
  <2> HIDE DEF p, q
  <2> DEFINE S == {p} \cup {q}
  <2>1. {p, q} = S
    OBVIOUS
  <2>2. Cardinality({p}) = 1 /\ IsFiniteSet({p})
    BY FS_Singleton
  <2>3. q \notin {p}
    BY <1>3
  <2>4. Cardinality(S) = 2
    BY <2>2, <2>3, FS_AddElement
  <2> HIDE DEF S
  <2>5. QED
    BY <2>1, <2>4
<1>5. d \in [bars : Time, rows : SUBSET Instrument] /\ d.bars > clock
  BY DEF Rows
<1>6. DOMAIN data = {seq} /\ data[seq] = d
  BY DEF One
<1> HIDE DEF p, q, d, data
<1>7. {seq, seq + 1} \subseteq seq .. seq + 2 - 1
  OBVIOUS
<1>8. WellPut({p, q}, data)
  BY <1>1, <1>2, <1>3, <1>4, <1>5, <1>6, <1>7 DEF WellPut
<1>9. QED
  BY <1>1, <1>8 DEF p, q, d, data

\* An execution is no larger than its order and on the same side.
LEMMA ExecutionsFacts ==
    ASSUME NEW orders \in [Instrument -> Int], NEW done \in Executions(orders)
    PROVE  /\ done \in [Instrument -> Int]
           /\ \A i \in Instrument : \/ 0 <= done[i] /\ done[i] <= orders[i]
                                    \/ orders[i] <= done[i] /\ done[i] <= 0
<1> DEFINE largest == Max({Magnitude(orders[i]) : i \in Instrument})
<1>1. PICK lots \in [Instrument -> 0 .. largest] :
         /\ \A i \in Instrument : lots[i] <= Magnitude(orders[i])
         /\ done = [i \in Instrument |-> Sign(orders[i]) * lots[i]]
  BY DEF Executions
<1> HIDE DEF largest
<1>2. ASSUME NEW i \in Instrument
      PROVE  /\ done[i] \in Int
             /\ \/ 0 <= done[i] /\ done[i] <= orders[i]
                \/ orders[i] <= done[i] /\ done[i] <= 0
  <2>1. lots[i] \in Int /\ lots[i] >= 0 /\ lots[i] <= Magnitude(orders[i])
    BY <1>1
  <2>2. done[i] = Sign(orders[i]) * lots[i] /\ orders[i] \in Int
    BY <1>1
  <2>3. QED
    BY <2>1, <2>2 DEF Sign, Magnitude
<1>3. QED
  BY <1>1, <1>2

\* A FILL for every instrument that is filled, and POSITION after them.
Filled(done) == {i \in Instrument : done[i] # 0 /\ ExecutionPrice(i, done[i]) > 0}
FillPut(done, i) == Put("FILL", Rank(Filled(done), i))
LastPut(done) == Put("POSITION", Cardinality(Filled(done)))
FillPuts(done) == {FillPut(done, i) : i \in Filled(done)} \cup {LastPut(done)}
FillOf(done, i) ==
    [inst |-> i, qty |-> done[i], price |-> ExecutionPrice(i, done[i]), fee |-> Fee]
FillData(done) ==
    [n \in {seq + Rank(Filled(done), i) : i \in Filled(done)} |->
        FillOf(done, CHOOSE i \in Filled(done) : seq + Rank(Filled(done), i) = n)]

LEMMA PutsFills ==
    ASSUME seq \in Nat, clock \in Nat, ctx \in Context, NEW done \in [Instrument -> Int]
    PROVE  /\ WellPut(FillPuts(done), FillData(done))
           /\ LastPut(done) \in FillPuts(done) /\ LastPut(done).type = "POSITION"
           /\ \A i \in Filled(done) :
                 /\ FillPut(done, i).type = "FILL"
                 /\ FillData(done)[FillPut(done, i).seq] = FillOf(done, i)
           /\ \A p \in FillPuts(done) :
                 p = LastPut(done) \/ \E i \in Filled(done) : p = FillPut(done, i)
<1> DEFINE S == Filled(done)
           k == Cardinality(S)
           F(i) == FillPut(done, i)
           L == LastPut(done)
           fills == {F(i) : i \in S}
           P == fills \cup {L}
           D == FillData(done)
<1>1. S \in SUBSET Int /\ IsFiniteSet(S) /\ S \in SUBSET Instrument
  <2>1. S \in SUBSET Instrument
    BY DEF Filled
  <2> HIDE DEF S
  <2>2. IsFiniteSet(S)
    BY <2>1, RunnerFacts, FS_Subset
  <2>3. S \in SUBSET Int
    BY <2>1, RunnerFacts
  <2>4. QED
    BY <2>1, <2>2, <2>3
<1> HIDE DEF S
<1>2. /\ k \in Nat
      /\ \A i \in S : Rank(S, i) \in Nat /\ Rank(S, i) < k
      /\ \A i, j \in S : Rank(S, i) = Rank(S, j) => i = j
  BY <1>1, RankFacts
<1> HIDE DEF k
<1>3. \A i \in S :
         F(i) = [ts |-> clock, type |-> "FILL", seq |-> seq + Rank(S, i), job |-> NoJob]
  BY DEF FillPut, Put, S
<1>4. L = [ts |-> clock, type |-> "POSITION", seq |-> seq + k, job |-> NoJob]
  BY DEF LastPut, Put, S, k
<1>5. /\ \A i \in S : /\ F(i) \in Event /\ F(i).seq = seq + Rank(S, i) /\ F(i).type = "FILL"
                      /\ F(i).ts = clock /\ F(i).job = NoJob
      /\ L \in Event /\ L.seq = seq + k /\ L.type = "POSITION" /\ L.ts = clock /\ L.job = NoJob
  <2>1. ASSUME NEW i \in S PROVE F(i) \in Event
    <3>1. seq + Rank(S, i) \in Nat
      BY <1>2
    <3> HIDE DEF F
    <3>2. QED
      BY <1>3, <3>1, RunnerFacts DEF Event, CascadeTypes
  <2>2. L \in Event
    <3>1. seq + k \in Nat
      BY <1>2
    <3> HIDE DEF L
    <3>2. QED
      BY <1>4, <3>1, RunnerFacts DEF Event, CascadeTypes
  <2> HIDE DEF F, L
  <2>3. QED
    BY <1>3, <1>4, <2>1, <2>2
<1>6. \A i, j \in S : F(i).seq = F(j).seq => i = j
  <2>1. TAKE i, j \in S
  <2> HIDE DEF F
  <2>2. QED
    BY <1>2, <1>5
<1>7. Cardinality(P) = k + 1
  <2> DEFINE f == [i \in S |-> F(i)]
  <2>1. fills = {f[i] : i \in S}
    OBVIOUS
  <2>2. \A i, j \in S : f[i] = f[j] => i = j
    BY <1>6
  <2> HIDE DEF f, fills
  <2>3. IsFiniteSet(fills) /\ Cardinality(fills) = k
    BY <1>1, <2>1, <2>2, ImageSize, Zenon DEF k
  <2>4. L \notin fills
    BY <1>5 DEF fills
  <2> HIDE DEF L
  <2>5. QED
    BY <1>2, <2>3, <2>4, FS_AddElement
<1>8. \A i \in S : FillOf(done, i) \in Fill
  <2>1. TAKE i \in S
  <2>2. i \in Instrument /\ done[i] \in Int \ {0} /\ ExecutionPrice(i, done[i]) > 0
    BY <1>1 DEF S, Filled
  <2>3. ExecutionPrice(i, done[i]) \in Int
    BY <2>2, RunnerFacts DEF Context, Books, ExecutionPrice, Sign
  <2>4. QED
    BY <2>2, <2>3, RunnerFacts DEF FillOf, Fill
<1>9. /\ DOMAIN D = {seq + Rank(S, i) : i \in S}
      /\ \A i \in S : D[seq + Rank(S, i)] = FillOf(done, i)
  <2>1. DOMAIN D = {seq + Rank(S, i) : i \in S}
    BY DEF FillData, S
  <2>2. ASSUME NEW i \in S PROVE D[seq + Rank(S, i)] = FillOf(done, i)
    <3> DEFINE c == CHOOSE j \in S : seq + Rank(S, j) = seq + Rank(S, i)
    <3>1. c = i
      BY <1>2
    <3>2. D[seq + Rank(S, i)] = FillOf(done, c)
      BY DEF FillData, S
    <3>3. QED
      BY <3>1, <3>2
  <2>3. QED
    BY <2>1, <2>2
<1> HIDE DEF F, L, D
<1>10. \A p \in P : p = L \/ \E i \in S : p = F(i)
  OBVIOUS
<1>11. \A p \in P : /\ p \in Event /\ p.ts = clock /\ p.job = NoJob
                    /\ p.seq \in seq .. seq + Cardinality(P) - 1
                    /\ p.type \in {"FILL", "POSITION"}
                    /\ p.type = "FILL" => p.seq \in DOMAIN D /\ D[p.seq] \in Fill
  <2>1. TAKE p \in P
  <2>2. CASE p = L
    <3>1. seq + k \in seq .. seq + (k + 1) - 1
      BY <1>2
    <3>2. QED
      BY <1>5, <1>7, <2>2, <3>1
  <2>3. ASSUME NEW i \in S, p = F(i)
        PROVE  /\ p \in Event /\ p.ts = clock /\ p.job = NoJob
               /\ p.seq \in seq .. seq + Cardinality(P) - 1
               /\ p.type \in {"FILL", "POSITION"}
               /\ p.type = "FILL" => p.seq \in DOMAIN D /\ D[p.seq] \in Fill
    <3>1. seq + Rank(S, i) \in seq .. seq + (k + 1) - 1
      BY <1>2
    <3>2. QED
      BY <1>5, <1>7, <1>8, <1>9, <2>3, <3>1
  <2>4. QED
    BY <1>10, <2>2, <2>3
<1>12. \A p, q \in P : p.seq = q.seq => p = q
  <2>1. \A i \in S : F(i).seq # L.seq
    BY <1>2, <1>5
  <2>2. QED
    BY <1>6, <1>10, <2>1
<1>13. DOMAIN D \subseteq seq .. seq + Cardinality(P) - 1
  <2>1. \A i \in S : seq + Rank(S, i) \in seq .. seq + (k + 1) - 1
    BY <1>2
  <2>2. QED
    BY <1>7, <1>9, <2>1
<1>14. P \in SUBSET Event /\ Cardinality(P) \in Nat
  <2>1. Cardinality(P) \in Nat
    BY <1>2, <1>7
  <2> HIDE DEF P
  <2>2. QED
    BY <1>11, <2>1
<1>15. WellPut(P, D)
  <2> HIDE DEF P
  <2>1. QED
    BY <1>11, <1>12, <1>13, <1>14 DEF WellPut
<1>16. P = FillPuts(done)
  BY DEF FillPuts, F, L, S
<1>17. L \in P
  OBVIOUS
<1> HIDE DEF P
<1>18. QED
  BY <1>5, <1>9, <1>10, <1>15, <1>16, <1>17 DEF F, L, D, S

-----------------------------------------------------------------------------
(* Handlers and the queue.                                                 *)

Basics == EngineTypeOK /\ NumberedInv /\ PayloadInv

LEMMA BatchFacts ==
    ASSUME Basics, NEW e \in batch
    PROVE  /\ e \in Event /\ e.ts = clock /\ clock \in Time /\ clock \in Nat /\ seq \in Nat
           /\ e.job = NoJob /\ e.seq \in Nat /\ e.seq < seq /\ e.type \in CascadeTypes
           /\ e \in Pending /\ loop.active
<1>1. e \in Event /\ e.ts = clock /\ clock \in Nat /\ seq \in Nat /\ loop.active
  BY DEF Basics, EngineTypeOK
<1>2. e.job = NoJob /\ e.seq < seq /\ e.ts \in Time /\ e \in Pending
  BY DEF Basics, NumberedInv, Pending
<1>3. e.seq \in Nat /\ e.type \in CascadeTypes
  BY <1>1, RunnerFacts DEF Event
<1>4. QED
  BY <1>1, <1>2, <1>3

\* After a handler its event is gone, what it put is there, and all others are as they were.
LEMMA HandledFacts ==
    ASSUME Basics, NEW e \in batch, NEW puts, NEW data, WellPut(puts, data), Handled(e, puts, data)
    PROVE  /\ NumberedInv' /\ PayloadInv'
           /\ Pending' = (Pending \ {e}) \cup puts
           /\ \A p \in puts : p \notin Pending
           /\ \A f \in Pending \ {e} : f.seq \in DOMAIN payload =>
                 f.seq \in DOMAIN payload' /\ payload'[f.seq] = payload[f.seq]
           /\ \A n \in DOMAIN data : n \in DOMAIN payload' /\ payload'[n] = data[n]
           /\ \A f \in Pending \ {e} : LooksAhead(f)' <=> LooksAhead(f)
<1> DEFINE next == seq + Cardinality(puts)
<1>1. /\ e.ts = clock /\ clock \in Time /\ seq \in Nat /\ e \in Pending
      /\ e.seq \in Nat /\ e.seq < seq
  BY BatchFacts
<1>2. /\ queue' = queue \cup puts /\ batch' = batch \ {e} /\ seq' = next
      /\ jobs' = jobs
      /\ payload' = [n \in (DOMAIN payload \ {e.seq}) \cup DOMAIN data |->
                       IF n \in DOMAIN data THEN data[n] ELSE payload[n]]
  BY DEF Handled, Delivered
<1>3. /\ \A f \in Pending : f.job = NoJob /\ f.seq \in Nat /\ f.seq < seq /\ f.ts \in Time
      /\ \A f, g \in Pending : f.seq = g.seq => f = g
      /\ queue \cap batch = {} /\ DOMAIN payload \subseteq 0 .. seq - 1
      /\ jobs = [j \in Job |-> Unscheduled]
  BY DEF Basics, NumberedInv, EngineTypeOK, Event, Pending
<1>4. /\ Cardinality(puts) \in Nat
      /\ \A p \in puts : p.ts = clock /\ p.job = NoJob /\ p.seq \in seq .. next - 1
      /\ \A p, q \in puts : p.seq = q.seq => p = q
      /\ DOMAIN data \subseteq seq .. next - 1
  BY DEF WellPut
<1>5. next \in Nat /\ next >= seq
  BY <1>1, <1>4
<1> HIDE DEF next
<1>6. \A p \in puts : p.seq >= seq /\ p.seq < next /\ p.seq \in Nat /\ p \notin Pending
  BY <1>1, <1>3, <1>4, <1>5
<1>7. Pending' = (Pending \ {e}) \cup puts
  <2>1. e \notin queue
    BY <1>3
  <2>2. QED
    BY <1>2, <2>1 DEF Pending
<1>8. /\ DOMAIN payload' = (DOMAIN payload \ {e.seq}) \cup DOMAIN data
      /\ \A n \in DOMAIN data : payload'[n] = data[n]
      /\ \A n \in DOMAIN payload \ {e.seq} : n \notin DOMAIN data => payload'[n] = payload[n]
  BY <1>2
<1>9. NumberedInv'
  <2>1. queue' \cap batch' = {}
    BY <1>2, <1>3, <1>6 DEF Pending
  <2>2. \A f \in Pending' : f.job = NoJob /\ f.seq < seq' /\ f.ts \in Time
    BY <1>1, <1>2, <1>3, <1>4, <1>5, <1>6, <1>7
  <2>3. \A f, g \in Pending' : f.seq = g.seq => f = g
    <3>1. \A f \in Pending, g \in puts : f.seq # g.seq
      BY <1>1, <1>3, <1>6
    <3>2. QED
      BY <1>3, <1>4, <1>7, <3>1
  <2>4. DOMAIN payload' \subseteq 0 .. seq' - 1
    BY <1>1, <1>2, <1>3, <1>4, <1>5, <1>8
  <2>5. QED
    BY <1>2, <1>3, <2>1, <2>2, <2>3, <2>4 DEF NumberedInv
<1>10. ASSUME NEW f \in Pending \ {e}, f.seq \in DOMAIN payload
       PROVE  f.seq \in DOMAIN payload' /\ payload'[f.seq] = payload[f.seq]
  <2>1. f.seq # e.seq /\ f.seq < seq /\ f.seq \in Nat
    BY <1>1, <1>3
  <2>2. f.seq \notin DOMAIN data
    BY <1>1, <1>4, <1>5, <2>1
  <2>3. QED
    BY <1>8, <1>10, <2>1, <2>2
<1>11. PayloadInv'
  <2>1. ASSUME NEW f \in Pending \ {e}
        PROVE  /\ f.type = "MARKET" =>
                     /\ f.seq \in DOMAIN payload'
                     /\ payload'[f.seq] \in [bars : Time, rows : SUBSET Instrument]
                     /\ payload'[f.seq].bars >= f.ts
               /\ f.type \in {"ORDER", "EXECUTION"} =>
                     f.seq \in DOMAIN payload' /\ payload'[f.seq] \in [Instrument -> Int]
               /\ f.type = "FILL" => f.seq \in DOMAIN payload' /\ payload'[f.seq] \in Fill
    BY <1>10, <2>1 DEF Basics, PayloadInv
  <2>2. ASSUME NEW p \in puts
        PROVE  /\ p.type = "MARKET" =>
                     /\ p.seq \in DOMAIN payload'
                     /\ payload'[p.seq] \in [bars : Time, rows : SUBSET Instrument]
                     /\ payload'[p.seq].bars >= p.ts
               /\ p.type \in {"ORDER", "EXECUTION"} =>
                     p.seq \in DOMAIN payload' /\ payload'[p.seq] \in [Instrument -> Int]
               /\ p.type = "FILL" => p.seq \in DOMAIN payload' /\ payload'[p.seq] \in Fill
    <3>1. p.type = "MARKET" => data[p.seq].bars >= p.ts
      <4>1. p.type = "MARKET" => data[p.seq].bars \in Nat /\ data[p.seq].bars > clock
        BY TimeFacts DEF WellPut
      <4>2. QED
        BY <1>1, <1>4, <4>1, TimeFacts
    <3>2. QED
      BY <1>8, <3>1 DEF WellPut
  <2>3. QED
    BY <1>7, <2>1, <2>2 DEF PayloadInv
<1>12. ASSUME NEW f \in Pending \ {e}
       PROVE  LooksAhead(f)' <=> LooksAhead(f)
  <2>1. f.type = "MARKET" => f.seq \in DOMAIN payload
    BY DEF Basics, PayloadInv
  <2>2. QED
    BY <1>10, <2>1 DEF LooksAhead
<1>13. QED
  BY <1>6, <1>7, <1>8, <1>9, <1>10, <1>11, <1>12

\* After a handler that raises, its batch is gone and nothing is put.
LEMMA RaiseFacts ==
    ASSUME Basics, NEW e \in batch, Raise(e, {}), payload' = payload
    PROVE  /\ EngineTypeOK' /\ NumberedInv' /\ PayloadInv'
           /\ Pending' = queue /\ engineState' = "FAILED" /\ ~loop'.active
<1>1. {} \in Puts
  BY DEF Puts
<1>2. EngineTypeOK'
  <2>1. EngineNext
    BY <1>1 DEF EngineNext, LoopStep
  <2>2. QED
    BY <2>1, TypeStep DEF Basics
<1>3. /\ queue' = queue /\ batch' = {} /\ seq' = seq /\ jobs' = jobs /\ engineState' = "FAILED"
  <2>1. seq \in Nat /\ Cardinality({}) = 0
    BY FS_EmptySet DEF Basics, EngineTypeOK
  <2>2. QED
    BY <2>1 DEF Raise, Delivered
<1>4. ~loop'.active
  BY DEF Raise, Basics, EngineTypeOK, Loop
<1>5. Pending' = queue /\ Pending' \subseteq Pending
  BY <1>3 DEF Pending
<1>6. NumberedInv'
  BY <1>3, <1>5 DEF NumberedInv, Basics
<1>7. PayloadInv'
  BY <1>5 DEF PayloadInv, Basics
<1>8. QED
  BY <1>2, <1>3, <1>4, <1>5, <1>6, <1>7

-----------------------------------------------------------------------------
(* The books.                                                              *)

\* The market value is what would be realised and what the positions cost.
LEMMA ValueFacts ==
    ASSUME NEW b \in Books
    PROVE  /\ MarketValue(b) \in Int /\ Unrealized(b) \in Int /\ CostSum(b) \in Int
           /\ MarketValue(b) = Unrealized(b) + CostSum(b)
           /\ Equity(b) \in Int /\ Equity(b) = b.cash + MarketValue(b)
<1> DEFINE v == [i \in Instrument |-> b.position[i].qty * b.price[i]]
           u == [i \in Instrument |->
                    b.position[i].qty * b.price[i] - Sign(b.position[i].qty) * b.position[i].cost]
           c == [i \in Instrument |-> Sign(b.position[i].qty) * b.position[i].cost]
<1>1. \A i \in Instrument : u[i] \in Int /\ c[i] \in Int /\ v[i] \in Int /\ v[i] = u[i] + c[i]
  <2>1. TAKE i \in Instrument
  <2>2. /\ b.position[i].qty \in Int /\ b.position[i].cost \in Int /\ b.price[i] \in Int
        /\ Sign(b.position[i].qty) \in Int
    BY DEF Books, Position, Sign
  <2> DEFINE x == b.position[i].qty * b.price[i]
             y == Sign(b.position[i].qty) * b.position[i].cost
  <2>3. x \in Int /\ y \in Int
    BY <2>2
  <2>4. u[i] = x - y /\ c[i] = y /\ v[i] = x
    OBVIOUS
  <2> HIDE DEF x, y, u, c, v
  <2>5. QED
    BY <2>3, <2>4
<1>2. /\ MarketValue(b) = SumFunctionOnSet(v, Instrument)
      /\ Unrealized(b) = SumFunctionOnSet(u, Instrument)
      /\ CostSum(b) = SumFunctionOnSet(c, Instrument)
  BY DEF MarketValue, Unrealized, CostSum, SumFunction
<1> HIDE DEF v, u, c
<1>3. IsFiniteSet(Instrument)
  BY RunnerFacts
<1>4. /\ SumFunctionOnSet(v, Instrument) \in Int /\ SumFunctionOnSet(u, Instrument) \in Int
      /\ SumFunctionOnSet(c, Instrument) \in Int
  BY <1>1, <1>3, SumIsInt
<1>5. SumFunctionOnSet(v, Instrument) = SumFunctionOnSet(u, Instrument) + SumFunctionOnSet(c, Instrument)
  BY <1>1, <1>3, SumPlus
<1>6. b.cash \in Int
  BY DEF Books
<1>7. QED
  BY <1>2, <1>4, <1>5, <1>6 DEF Equity

\* What a fill does to a position: the signed cost and the realised profit change by what
\* the lots are worth together, through partial fills, reductions and flips.
LEMMA PositionFacts ==
    ASSUME NEW p \in Position, p.qty = 0 <=> p.cost = 0, NEW f,
           f.qty \in Int \ {0}, f.price \in Nat \ {0}
    PROVE  /\ PositionAfter(p, f).qty = p.qty + f.qty
           /\ PositionAfter(p, f).cost \in Nat
           /\ PositionAfter(p, f).qty = 0 <=> PositionAfter(p, f).cost = 0
           /\ RealizedBy(p, f) \in Int
           /\ Sign(PositionAfter(p, f).qty) * PositionAfter(p, f).cost - RealizedBy(p, f)
                = Sign(p.qty) * p.cost + f.qty * f.price
<1> DEFINE q == p.qty
           c == p.cost
           after == PositionAfter(p, f)
           cc == ClosedCost(p, f)
           l == f.qty
           u == f.price
<1>0. q \in Int /\ c \in Nat /\ (q = 0 <=> c = 0)
  BY DEF Position
<1>1. after.qty = q + l
  BY DEF PositionAfter
<1>2. CASE Adds(p, f)
  <2>1. after.cost = c + Magnitude(l) * u /\ Closed(p, f) = 0
    BY <1>0, <1>2 DEF PositionAfter, Closed
  <2>2. cc = 0
    BY <1>0, <2>1, Share DEF ClosedCost, Magnitude
  <2>3. RealizedBy(p, f) = 0
    BY <1>0, <2>1, <2>2 DEF RealizedBy, Sign
  <2>4. Magnitude(l) * u \in Nat \ {0} /\ Sign(l) * (Magnitude(l) * u) = l * u
    BY DEF Magnitude, Sign
  <2>5. (q >= 0 /\ l > 0) \/ (q <= 0 /\ l < 0)
    BY <1>0, <1>2 DEF Adds, Sign
  <2>6. QED
    BY <1>0, <1>1, <2>1, <2>3, <2>4, <2>5 DEF Sign
<1>3. CASE ~Adds(p, f)
  <2>1. (q > 0 /\ l < 0) \/ (q < 0 /\ l > 0)
    BY <1>0, <1>3 DEF Adds, Sign
  <2>2. c \in Nat \ {0} /\ Magnitude(q) \in Nat \ {0} /\ Magnitude(l) \in Nat \ {0}
    BY <1>0, <2>1 DEF Magnitude
  <2> DEFINE k == Lesser(Magnitude(q), Magnitude(l))
  <2>3. Closed(p, f) = k /\ k \in 0 .. Magnitude(q) /\ k > 0
    BY <1>0, <1>3, <2>2 DEF Closed, Lesser
  <2>4. cc = (c * k) \div Magnitude(q)
    BY <1>0, <2>1, <2>3 DEF ClosedCost
  <2>5. /\ cc \in 0 .. c /\ (k = Magnitude(q) => cc = c) /\ (k < Magnitude(q) => cc < c)
    <3> DEFINE m == Magnitude(q)
    <3>1. c \in Nat /\ m \in Nat \ {0} /\ k \in 0 .. m /\ cc = (c * k) \div m
      BY <1>0, <2>2, <2>3, <2>4
    <3> HIDE DEF k, cc, m
    <3>2. /\ (c * k) \div m \in 0 .. c
          /\ k = m => (c * k) \div m = c
          /\ k < m /\ c > 0 => (c * k) \div m < c
      BY <1>0, <3>1, Share
    <3>3. QED
      BY <1>0, <2>2, <3>1, <3>2 DEF m
  <2>6. RealizedBy(p, f) = Sign(q) * (u * k - cc)
    BY <1>0, <2>3 DEF RealizedBy
  <2>7. u * k \in Int
    BY <1>0, <2>3
  <2>8. CASE Magnitude(l) <= Magnitude(q)
    <3>1. k = Magnitude(l) /\ after.cost = c - cc
      BY <1>0, <1>3, <2>1, <2>8 DEF PositionAfter, Lesser, Sign, Magnitude
    <3>2. Sign(q) * (u * k) = -(l * u)
      BY <1>0, <2>1, <3>1 DEF Sign, Magnitude
    <3>3. q + l = 0 <=> k = Magnitude(q)
      BY <1>0, <2>1, <3>1 DEF Magnitude
    <3>4. Sign(q + l) = IF q + l = 0 THEN 0 ELSE Sign(q)
      BY <1>0, <2>1, <2>8 DEF Sign, Magnitude
    <3> DEFINE worth == u * k
               paid == l * u
    <3>5. worth \in Int /\ paid \in Int /\ RealizedBy(p, f) = Sign(q) * (worth - cc)
          /\ Sign(q) * worth = -paid
      BY <1>0, <2>6, <2>7, <3>2
    <3>6. cc \in 0 .. c /\ (q + l = 0 => cc = c) /\ (q + l # 0 => cc < c)
      <4> HIDE DEF k, cc
      <4> QED BY <2>2, <2>3, <2>5, <3>3
    <3>7. Sign(q + l) * (c - cc) = Sign(q) * c - Sign(q) * cc
      <4> HIDE DEF q, c, k, cc, l
      <4>1. CASE q > 0
        BY <1>0, <4>1, <2>1, <3>4, <3>6 DEF Sign
      <4>2. CASE q < 0
        BY <1>0, <4>2, <2>1, <3>4, <3>6 DEF Sign
      <4>3. QED
        BY <2>1, <4>1, <4>2
    <3> HIDE DEF k, cc, worth, paid, after, q, c, l
    <3>8. after.cost \in Nat /\ (q + l = 0 <=> after.cost = 0)
      BY <1>0, <3>1, <3>6
    <3>9. RealizedBy(p, f) \in Int
          /\ Sign(q + l) * after.cost - RealizedBy(p, f) = Sign(q) * c + paid
      <4>1. Sign(q) \in Int /\ Sign(q) * (worth - cc) = Sign(q) * worth - Sign(q) * cc
            /\ Sign(q) * cc \in Int /\ Sign(q) * c \in Int
        BY <1>0, <2>1, <3>5, <3>6 DEF Sign
      <4>2. Sign(q + l) * after.cost = Sign(q) * c - Sign(q) * cc
        BY <3>1, <3>7
      <4>3. RealizedBy(p, f) = -paid - Sign(q) * cc
        BY <3>5, <4>1
      <4>4. QED
        BY <3>5, <4>1, <4>2, <4>3
    <3>10. QED
      BY <1>0, <1>1, <3>8, <3>9 DEF after, paid, q, c, l
  <2>9. CASE Magnitude(l) > Magnitude(q)
    <3>1. k = Magnitude(q) /\ Sign(q + l) = -Sign(q) /\ q + l # 0
      BY <1>0, <2>1, <2>9 DEF Lesser, Sign, Magnitude
    <3>2. after.cost = Magnitude(q + l) * u
      BY <1>0, <1>3, <3>1 DEF PositionAfter
    <3>3. Magnitude(q + l) * u \in Nat \ {0} /\ Sign(q + l) * (Magnitude(q + l) * u) = (q + l) * u
      BY <1>0, <3>1 DEF Sign, Magnitude
    <3>4. Sign(q) * (u * k) = q * u /\ (q + l) * u = q * u + l * u
      BY <1>0, <3>1 DEF Sign, Magnitude
    <3> HIDE DEF k, cc
    <3>5. QED
      BY <1>0, <1>1, <2>1, <2>3, <2>5, <2>6, <2>7, <3>1, <3>2, <3>3, <3>4 DEF Sign
  <2>10. QED
    BY <1>0, <2>2, <2>8, <2>9
<1>4. QED
  BY <1>0, <1>2, <1>3

\* What a fill adds to the replay of cash and positions.
LEMMA ReplayFacts ==
    ASSUME NEW fills \in Seq(Fill), NEW f \in Fill
    PROVE  /\ ReplayedCash(fills) \in Int
           /\ ReplayedCash(Append(fills, f)) = ReplayedCash(fills) - (f.qty * f.price + f.fee)
           /\ \A i \in Instrument :
                 /\ ReplayedQty(fills, i) \in Int
                 /\ ReplayedQty(Append(fills, f), i) =
                        ReplayedQty(fills, i) + (IF f.inst = i THEN f.qty ELSE 0)
<1> DEFINE n == Len(fills)
           g == Append(fills, f)
           Paid(s) == [k \in DOMAIN s |-> s[k].qty * s[k].price + s[k].fee]
<1>1. /\ n \in Nat /\ DOMAIN fills = 1 .. n /\ DOMAIN g = 1 .. n + 1
      /\ g[n + 1] = f
      /\ \A k \in 1 .. n : g[k] = fills[k] /\ fills[k] \in Fill
      /\ \A k \in 1 .. n + 1 : g[k] \in Fill
  OBVIOUS
<1> HIDE DEF n, g
<1>2. \A h \in Fill : h.qty * h.price + h.fee \in Int /\ h.qty \in Int
  BY DEF Fill
<1>3. IsFiniteSet(1 .. n)
  BY <1>1, FS_Interval
<1>4. /\ ReplayedCash(fills) \in Int
      /\ ReplayedCash(g) = ReplayedCash(fills) - (f.qty * f.price + f.fee)
  <2> DEFINE p == Paid(fills)
             q == Paid(g)
             w == f.qty * f.price + f.fee
  <2>1. /\ \A k \in 1 .. n : p[k] = fills[k].qty * fills[k].price + fills[k].fee
        /\ \A k \in 1 .. n + 1 : q[k] = g[k].qty * g[k].price + g[k].fee
        /\ DOMAIN p = 1 .. n /\ DOMAIN q = 1 .. n + 1
    BY <1>1
  <2> HIDE DEF p, q
  <2>2. /\ \A k \in 1 .. n : p[k] = q[k] /\ p[k] \in Int
        /\ \A k \in 1 .. n + 1 : q[k] \in Int
        /\ q[n + 1] = w
    <3>1. n + 1 \in 1 .. n + 1 /\ \A k \in 1 .. n : k \in 1 .. n + 1
      BY <1>1
    <3>2. QED
      BY <1>1, <1>2, <2>1, <3>1
  <2>3. SumFunctionOnSet(q, 1 .. n + 1) = SumFunctionOnSet(p, 1 .. n) + q[n + 1]
    BY <1>1, <2>2, SumAppends
  <2>4. SumFunctionOnSet(p, 1 .. n) \in Int
    BY <1>3, <2>2, SumIsInt
  <2>5. /\ ReplayedCash(fills) = Capital - SumFunctionOnSet(p, 1 .. n)
        /\ ReplayedCash(g) = Capital - SumFunctionOnSet(q, 1 .. n + 1)
    BY <2>1 DEF ReplayedCash, SumFunction, p, q
  <2>6. w \in Int /\ Capital \in Int
    BY <1>2, RunnerFacts
  <2> HIDE DEF w
  <2>7. QED
    BY <2>2, <2>3, <2>4, <2>5, <2>6 DEF w
<1>5. ASSUME NEW i \in Instrument
      PROVE  /\ ReplayedQty(fills, i) \in Int
             /\ ReplayedQty(g, i) = ReplayedQty(fills, i) + (IF f.inst = i THEN f.qty ELSE 0)
  <2> DEFINE p == [k \in DOMAIN fills |-> IF fills[k].inst = i THEN fills[k].qty ELSE 0]
             q == [k \in DOMAIN g |-> IF g[k].inst = i THEN g[k].qty ELSE 0]
             w == IF f.inst = i THEN f.qty ELSE 0
  <2>1. /\ \A k \in 1 .. n : p[k] = IF fills[k].inst = i THEN fills[k].qty ELSE 0
        /\ \A k \in 1 .. n + 1 : q[k] = IF g[k].inst = i THEN g[k].qty ELSE 0
        /\ DOMAIN p = 1 .. n /\ DOMAIN q = 1 .. n + 1
    BY <1>1
  <2> HIDE DEF p, q
  <2>2. /\ \A k \in 1 .. n : p[k] = q[k] /\ p[k] \in Int
        /\ \A k \in 1 .. n + 1 : q[k] \in Int
        /\ q[n + 1] = w
    <3>1. n + 1 \in 1 .. n + 1 /\ \A k \in 1 .. n : k \in 1 .. n + 1
      BY <1>1
    <3>2. \A k \in 1 .. n : p[k] = q[k]
      BY <1>1, <2>1, <3>1
    <3>3. \A k \in 1 .. n + 1 : q[k] \in Int
      <4>1. \A k \in 1 .. n + 1 : g[k].qty \in Int
        BY <1>1, <1>2
      <4>2. QED
        BY <2>1, <4>1
    <3>4. q[n + 1] = w
      BY <1>1, <2>1, <3>1
    <3>5. QED
      BY <3>1, <3>2, <3>3, <3>4
  <2>3. SumFunctionOnSet(q, 1 .. n + 1) = SumFunctionOnSet(p, 1 .. n) + q[n + 1]
    BY <1>1, <2>2, SumAppends
  <2>4. SumFunctionOnSet(p, 1 .. n) \in Int
    BY <1>3, <2>2, SumIsInt
  <2>5. /\ ReplayedQty(fills, i) = SumFunctionOnSet(p, 1 .. n)
        /\ ReplayedQty(g, i) = SumFunctionOnSet(q, 1 .. n + 1)
    BY <2>1 DEF ReplayedQty, SumFunction, p, q
  <2> HIDE DEF w
  <2>6. QED
    BY <2>2, <2>3, <2>4, <2>5 DEF w
<1>6. QED
  BY <1>4, <1>5 DEF g

\* Without fills nothing is replayed, and without positions nothing has a cost.
LEMMA EmptyFacts == EmptyBooks \in Books /\ Balanced(EmptyBooks) /\ Equity(EmptyBooks) \in Int
<1> DEFINE b == EmptyBooks
           c == [i \in Instrument |-> Sign(b.position[i].qty) * b.position[i].cost]
<1>1. b \in Books
  BY RunnerFacts DEF EmptyBooks, Books, Position, Flat
<1>2. /\ b.cash = Capital /\ b.realized = 0 /\ b.fees = 0 /\ b.fills = <<>>
      /\ \A i \in Instrument : b.position[i].qty = 0 /\ b.position[i].cost = 0
  BY DEF EmptyBooks, Flat
<1>3. CostSum(b) = 0
  <2>1. \A i \in Instrument : c[i] = 0
    BY <1>2 DEF Sign
  <2>2. CostSum(b) = SumFunctionOnSet(c, Instrument)
    BY DEF CostSum, SumFunction
  <2> HIDE DEF c
  <2>3. QED
    BY <2>1, <2>2, RunnerFacts, SumOfZeros
<1>4. FillsReplay(b)
  <2>1. \A h : DOMAIN h = {} => SumFunction(h) = 0
    BY SumOfNone DEF SumFunction
  <2>2. ReplayedCash(<<>>) = Capital
    BY <2>1, RunnerFacts DEF ReplayedCash
  <2>3. \A i \in Instrument : ReplayedQty(<<>>, i) = 0
    BY <2>1 DEF ReplayedQty
  <2> HIDE DEF b
  <2>4. QED
    BY <1>2, <2>2, <2>3 DEF FillsReplay
<1>5. Equity(b) \in Int
  BY <1>1, ValueFacts
<1> HIDE DEF b
<1>6. Balanced(b)
  BY <1>2, <1>3, <1>4, RunnerFacts DEF Balanced
<1>7. QED
  BY <1>1, <1>5, <1>6 DEF b

\* New prices leave the books in agreement.
LEMMA RepricedFacts ==
    ASSUME NEW b \in Books, Balanced(b), NEW price \in [Instrument -> Nat]
    PROVE  /\ [b EXCEPT !.price = price] \in Books
           /\ Balanced([b EXCEPT !.price = price])
           /\ [b EXCEPT !.price = price].position = b.position
<1> DEFINE r == [b EXCEPT !.price = price]
<1>1. /\ r \in Books /\ r.position = b.position /\ r.cash = b.cash /\ r.realized = b.realized
      /\ r.fees = b.fees /\ r.fills = b.fills
  BY DEF Books
<1> HIDE DEF r
<1>2. Balanced(r)
  BY <1>1 DEF Balanced, CostSum, FillsReplay
<1>3. QED
  BY <1>1, <1>2 DEF r

\* on_fill leaves the books in agreement, and adds the lots to one position.
LEMMA BookedFacts ==
    ASSUME NEW b \in Books, Balanced(b), NEW f \in Fill
    PROVE  /\ Booked(b, f) \in Books /\ Balanced(Booked(b, f))
           /\ \A i \in Instrument : Booked(b, f).position[i].qty =
                  b.position[i].qty + (IF i = f.inst THEN f.qty ELSE 0)
<1> DEFINE k == f.inst
           p == b.position[k]
           after == PositionAfter(p, f)
           gain == RealizedBy(p, f)
           paid == f.qty * f.price
           r == Booked(b, f)
<1>1. /\ f.inst \in Instrument /\ f.qty \in Int \ {0} /\ f.price \in Nat \ {0} /\ f.fee \in Nat
      /\ paid \in Int
  BY DEF Fill
<1>2. /\ b.cash \in Int /\ b.realized \in Int /\ b.fees \in Nat
      /\ b.position \in [Instrument -> Position] /\ b.price \in [Instrument -> Nat]
      /\ b.fills \in Seq(Fill)
  BY DEF Books
<1>3. p \in Position /\ (p.qty = 0 <=> p.cost = 0)
  BY <1>1, <1>2 DEF Balanced
<1>4. /\ after.qty = p.qty + f.qty /\ after.cost \in Nat /\ (after.qty = 0 <=> after.cost = 0)
      /\ gain \in Int
      /\ Sign(after.qty) * after.cost - gain = Sign(p.qty) * p.cost + paid
  <2> HIDE DEF p
  <2>1. QED
    BY <1>1, <1>3, PositionFacts
<1>5. after \in Position
  <2>1. after.qty \in Int
    BY <1>1, <1>3, <1>4 DEF Position
  <2>2. after = [qty |-> after.qty, cost |-> after.cost]
    BY DEF PositionAfter
  <2> HIDE DEF after
  <2>3. QED
    BY <1>4, <2>1, <2>2 DEF Position
<1>6. r = [b EXCEPT !.cash = b.cash - paid - f.fee, !.realized = b.realized + gain,
                    !.fees = b.fees + f.fee, !.position = [b.position EXCEPT ![k] = after],
                    !.price = [b.price EXCEPT ![k] = f.price], !.fills = Append(b.fills, f)]
  BY <1>1, <1>2 DEF Booked, Books
<1> HIDE DEF after, gain, paid, r, p
<1>7. /\ r.cash = b.cash - paid - f.fee /\ r.realized = b.realized + gain /\ r.fees = b.fees + f.fee
      /\ r.position = [b.position EXCEPT ![k] = after]
      /\ r.price = [b.price EXCEPT ![k] = f.price] /\ r.fills = Append(b.fills, f)
      /\ r \in Books
  <2>1. /\ b.cash - paid - f.fee \in Int /\ b.realized + gain \in Int /\ b.fees + f.fee \in Nat
        /\ [b.position EXCEPT ![k] = after] \in [Instrument -> Position]
        /\ [b.price EXCEPT ![k] = f.price] \in [Instrument -> Nat]
        /\ Append(b.fills, f) \in Seq(Fill)
    <3>1. b.cash - paid - f.fee \in Int /\ b.realized + gain \in Int /\ b.fees + f.fee \in Nat
      <4>1. b.cash \in Int /\ b.realized \in Int /\ b.fees \in Nat /\ gain \in Int
        BY <1>2, <1>4
      <4>2. paid \in Int /\ f.fee \in Nat
        BY <1>1
      <4>3. QED
        BY <4>1, <4>2
    <3>2. /\ [b.position EXCEPT ![k] = after] \in [Instrument -> Position]
          /\ [b.price EXCEPT ![k] = f.price] \in [Instrument -> Nat]
      <4>1. k \in Instrument /\ f.price \in Nat
        BY <1>1
      <4> HIDE DEF k
      <4>2. QED
        BY <1>2, <1>5, <4>1
    <3>3. Append(b.fills, f) \in Seq(Fill)
      BY <1>2
    <3>4. QED
      BY <3>1, <3>2, <3>3
  <2>2. QED
    BY <1>6, <2>1 DEF Books
<1>8. /\ r.position[k] = after
      /\ \A i \in Instrument : i # k => r.position[i] = b.position[i]
  BY <1>1, <1>2, <1>7
<1>9. \A i \in Instrument : r.position[i].qty = b.position[i].qty + (IF i = k THEN f.qty ELSE 0)
  <2>1. TAKE i \in Instrument
  <2>2. b.position[i].qty \in Int
    BY <1>2 DEF Position
  <2>3. CASE i = k
    BY <1>4, <1>8, <2>3 DEF p
  <2>4. CASE i # k
    BY <1>8, <2>2, <2>4
  <2>5. QED
    BY <2>3, <2>4
<1>10. \A i \in Instrument : r.position[i].qty = 0 <=> r.position[i].cost = 0
  BY <1>4, <1>8 DEF Balanced
<1>11. CostSum(r) = CostSum(b) + paid + gain
  <2> DEFINE c == [i \in Instrument |-> Sign(b.position[i].qty) * b.position[i].cost]
             d == [i \in Instrument |-> Sign(r.position[i].qty) * r.position[i].cost]
  <2>1. \A i \in Instrument : c[i] \in Int /\ d[i] \in Int
    <3>1. r.position \in [Instrument -> Position]
      BY <1>7 DEF Books
    <3>2. \A x \in Position : Sign(x.qty) * x.cost \in Int
      BY DEF Position, Sign
    <3>3. QED
      BY <1>2, <3>1, <3>2
  <2>2. \A i \in Instrument : i # k => d[i] = c[i]
    BY <1>8
  <2>3. d[k] = c[k] + paid + gain
    <3> DEFINE new == Sign(after.qty) * after.cost
               old == Sign(p.qty) * p.cost
    <3>1. d[k] = new /\ c[k] = old
      BY <1>1, <1>8 DEF p
    <3>2. new \in Int /\ old \in Int /\ new - gain = old + paid
      <4>1. d[k] \in Int /\ c[k] \in Int
        BY <1>1, <2>1
      <4> HIDE DEF c, d
      <4>2. QED
        BY <1>4, <3>1, <4>1
    <3> HIDE DEF new, old, c, d
    <3>3. QED
      BY <1>1, <1>4, <3>1, <3>2
  <2>4. CostSum(b) = SumFunctionOnSet(c, Instrument) /\ CostSum(r) = SumFunctionOnSet(d, Instrument)
    BY DEF CostSum, SumFunction
  <2> HIDE DEF c, d
  <2>5. SumFunctionOnSet(d, Instrument) = SumFunctionOnSet(c, Instrument) - c[k] + d[k]
    <3>1. /\ IsFiniteSet(Instrument) /\ k \in Instrument
          /\ \A i \in Instrument : c[i] \in Int /\ d[i] \in Int /\ (i # k => d[i] = c[i])
      BY <1>1, <2>1, <2>2, RunnerFacts
    <3> HIDE DEF k
    <3>2. \A g, h, S, e :
              /\ IsFiniteSet(S) /\ e \in S
              /\ \A x \in S : g[x] \in Int /\ h[x] \in Int /\ (x # e => h[x] = g[x])
              => SumFunctionOnSet(h, S) = SumFunctionOnSet(g, S) - g[e] + h[e]
      BY SumUpdates
    <3>3. QED
      BY <3>1, <3>2
  <2>6. SumFunctionOnSet(c, Instrument) \in Int /\ c[k] \in Int
    BY <1>1, <2>1, RunnerFacts, SumIsInt
  <2>7. QED
    BY <1>1, <1>4, <2>3, <2>4, <2>5, <2>6
<1>12. r.cash + CostSum(r) = Capital + r.realized - r.fees
  <2>1. b.cash + CostSum(b) = Capital + b.realized - b.fees
    BY DEF Balanced
  <2>2. CostSum(b) \in Int /\ Capital \in Int
    BY ValueFacts, RunnerFacts
  <2>3. /\ r.cash = b.cash - paid - f.fee /\ r.realized = b.realized + gain
        /\ r.fees = b.fees + f.fee
    BY <1>7
  <2> DEFINE old == CostSum(b)
             new == CostSum(r)
             fee == f.fee
  <2>4. /\ old \in Int /\ fee \in Int /\ gain \in Int /\ paid \in Int /\ b.cash \in Int
        /\ b.realized \in Int /\ b.fees \in Int /\ new = old + paid + gain
    BY <1>1, <1>2, <1>4, <1>11, <2>2
  <2> HIDE DEF old, new, fee
  <2>5. (b.cash - paid - fee) + new = Capital + (b.realized + gain) - (b.fees + fee)
    BY <2>1, <2>2, <2>4 DEF old
  <2>6. QED
    BY <2>3, <2>5 DEF new, fee
<1>13. FillsReplay(r)
  <2>1. /\ b.cash = ReplayedCash(b.fills)
        /\ \A i \in Instrument : b.position[i].qty = ReplayedQty(b.fills, i)
    BY DEF Balanced, FillsReplay
  <2>2. /\ ReplayedCash(r.fills) = ReplayedCash(b.fills) - (paid + f.fee)
        /\ \A i \in Instrument : ReplayedQty(r.fills, i) =
               ReplayedQty(b.fills, i) + (IF f.inst = i THEN f.qty ELSE 0)
    BY <1>2, <1>7, ReplayFacts DEF paid
  <2>3. r.cash = ReplayedCash(r.fills)
    BY <1>1, <1>2, <1>7, <2>1, <2>2
  <2>4. \A i \in Instrument : r.position[i].qty = ReplayedQty(r.fills, i)
    BY <1>9, <2>1, <2>2
  <2>5. QED
    BY <2>3, <2>4 DEF FillsReplay
<1>14. Balanced(r)
  BY <1>10, <1>12, <1>13 DEF Balanced
<1>15. QED
  BY <1>7, <1>9, <1>14 DEF r

-----------------------------------------------------------------------------
(* What a handler does, in terms of the cascade.                           *)

\* The handler of the event returned, having put these events.
Returned(e, puts) ==
    /\ engineState = "RUNNING" /\ loop.active /\ IsFirst(e, batch)
    /\ UNCHANGED <<clock, loop, runs, runner, frame>>
    /\ batch' = batch \ {e} /\ queue' = queue \cup puts
    /\ Pending' = (Pending \ {e}) \cup puts
    /\ \A p \in puts : p \notin Pending /\ p.ts = clock
    /\ \A f \in Pending \ {e} : LooksAhead(f)' <=> LooksAhead(f)
    /\ \A f \in Pending \ {e} :
           f.type \in {"ORDER", "EXECUTION", "FILL"} => payload'[f.seq] = payload[f.seq]

\* One of them carries the instant on; what it put besides is seen to before.
CarriesOn(e, puts, q) ==
    /\ Returned(e, puts) /\ engineState' = "RUNNING"
    /\ Carries(e) /\ q \in puts /\ q.type \notin {"MARKET", "FILL"}
    /\ \A p \in puts : \/ p = q
                       \/ p.type = "FILL" /\ q.type = "POSITION"
                       \/ p.type = "MARKET" /\ LooksAhead(p)' /\ q.type = "FEATURE"

MarketStep(e, puts, q) ==
    /\ CarriesOn(e, puts, q)
    /\ e.type = "MARKET" /\ q.type = "FEATURE"
    /\ ctx' = Marked(e)

PlanStep(e, puts, q) ==
    /\ CarriesOn(e, puts, q)
    /\ e.type \notin {"MARKET", "PNL", "RISK_UPDATE"} /\ q.type # "RISK_UPDATE"
    /\ \A p \in puts :
          /\ p.type = "ORDER" =>
                payload'[p.seq] \in {NoOrders} \cup {OrdersTo(t) : t \in Portfolios}
          /\ p.type = "EXECUTION" => e.type = "ORDER" /\ payload'[p.seq] = payload[e.seq]
          /\ p.type = "FILL" =>
                /\ e.type = "EXECUTION"
                /\ LET i == payload'[p.seq].inst
                       lots == payload'[p.seq].qty
                   IN  \/ 0 <= lots /\ lots <= payload[e.seq][i]
                       \/ payload[e.seq][i] <= lots /\ lots <= 0
    /\ \A p, r \in puts :
           p.type = "FILL" /\ r.type = "FILL" /\ payload'[p.seq].inst = payload'[r.seq].inst => p = r
    /\ ctx' = ctx

FillStep(e) ==
    /\ Returned(e, {}) /\ engineState' = "RUNNING"
    /\ e.type = "FILL"
    /\ ctx' = [ctx EXCEPT !.books = Booked(@, payload[e.seq])]

PnlStep(e, puts, q) ==
    /\ CarriesOn(e, puts, q)
    /\ e.type = "PNL" /\ q.type = "RISK_UPDATE" /\ puts = {q}
    /\ ctx' = [ctx EXCEPT !.curve = Append(@, [ts |-> e.ts, equity |-> Equity(ctx.books)])]

RiskStep(e) ==
    /\ Returned(e, {}) /\ engineState' \in {"RUNNING", "INVALIDATED"}
    /\ e.type = "RISK_UPDATE"
    /\ \E flag \in BOOLEAN :
          /\ ctx' = [ctx EXCEPT !.invalidated = flag]
          /\ engineState' = "INVALIDATED" => flag

\* It raised.
RaiseStep(e) ==
    /\ engineState = "RUNNING" /\ loop.active /\ IsFirst(e, batch)
    /\ engineState' = "FAILED" /\ ~loop'.active /\ batch' = {} /\ Pending' \subseteq Pending
    /\ UNCHANGED <<runs, runner, frame, payload>>
    /\ \/ ctx' = ctx
       \/ LooksAhead(e) /\ ctx' = [ctx EXCEPT !.time = e.ts, !.invalidated = TRUE]
       \/ Fed(e) /\ ctx' = Marked(e)

Stepped(e) ==
    \/ \E puts, q : MarketStep(e, puts, q) \/ PlanStep(e, puts, q) \/ PnlStep(e, puts, q)
    \/ FillStep(e) \/ RiskStep(e) \/ RaiseStep(e)

LEMMA ReturnedFacts ==
    ASSUME Basics, NEW e \in batch, NEW puts, NEW data, WellPut(puts, data), Handled(e, puts, data),
           engineState' \in {"RUNNING", "INVALIDATED"}
    PROVE  /\ Basics' /\ Returned(e, puts)
           /\ \A n \in DOMAIN data : payload'[n] = data[n]
           /\ \A p \in puts : LooksAhead(p)' <=> p.type = "MARKET"
<1>1. Delivered(e, puts)
  BY DEF Handled
<1>2. puts \in SUBSET Event /\ Cardinality(puts) \in Nat
  BY DEF WellPut
<1>3. NumberedInv' /\ PayloadInv'
  BY HandledFacts
<1>4. /\ Pending' = (Pending \ {e}) \cup puts
      /\ \A p \in puts : p \notin Pending
      /\ \A f \in Pending \ {e} : f.seq \in DOMAIN payload =>
            f.seq \in DOMAIN payload' /\ payload'[f.seq] = payload[f.seq]
      /\ \A n \in DOMAIN data : n \in DOMAIN payload' /\ payload'[n] = data[n]
      /\ \A f \in Pending \ {e} : LooksAhead(f)' <=> LooksAhead(f)
  BY HandledFacts
<1>5. EngineTypeOK'
  <2>1. /\ queue' \subseteq Event /\ seq' \in Nat
        /\ last' \in [event : Event, mark : Nat]
        /\ fired' \in [Job -> SUBSET Nat] /\ due' \in [Job -> SUBSET Nat]
        /\ clock' \in Nat /\ runs' \in Nat
    BY <1>1, <1>2, TypeDelivered DEF Basics
  <2>2. /\ batch' = batch \ {e} /\ processed' = processed + 1 /\ clock' = clock
        /\ UNCHANGED <<jobs, loop, submitted, clean>>
    BY DEF Handled, Delivered
  <2>3. EngineTypeOK
    BY DEF Basics
  <2>4. processed' \in Nat /\ submitted' \in Nat
    BY <2>2, <2>3 DEF EngineTypeOK
  <2>5. /\ batch' \subseteq Event /\ \A f \in batch' : loop'.active /\ f.ts = clock'
        /\ jobs' \in [Job -> ScheduledJob] /\ loop' \in Loop /\ clean' \in BOOLEAN
    BY <2>2, <2>3 DEF EngineTypeOK
  <2>6. QED
    BY <2>1, <2>4, <2>5 DEF EngineTypeOK
<1>6. \A p \in puts : p.ts = clock
  BY DEF WellPut
<1>7. \A f \in Pending \ {e} :
         f.type \in {"ORDER", "EXECUTION", "FILL"} => payload'[f.seq] = payload[f.seq]
  BY <1>4 DEF Basics, PayloadInv
<1>8. Returned(e, puts)
  BY <1>4, <1>6, <1>7 DEF Handled, Delivered, Returned
<1>9. \A p \in puts : LooksAhead(p)' <=> p.type = "MARKET"
  <2>1. \A p \in puts : p.type = "MARKET" => p.seq \in DOMAIN data /\ data[p.seq].bars > clock
    BY DEF WellPut
  <2>2. QED
    BY <1>4, <1>6, <2>1 DEF LooksAhead
<1>10. QED
  BY <1>3, <1>4, <1>5, <1>8, <1>9 DEF Basics

LEMMA OnMarketStep ==
    ASSUME Basics, NEW e \in batch, OnMarket(e)
    PROVE  Basics' /\ Stepped(e)
<1>1. /\ seq \in Nat /\ clock \in Nat /\ e.ts = clock /\ e.type = "MARKET"
      /\ Carries(e) /\ ctx' = Marked(e) /\ engineState' = engineState
  BY BatchFacts DEF OnMarket, Carries
<1>2. ASSUME NEW puts, NEW data, NEW q \in puts, WellPut(puts, data), Handled(e, puts, data),
             q.type = "FEATURE", \A p \in puts : p = q \/ p.type = "MARKET"
      PROVE  Basics' /\ Stepped(e)
  <2>1. engineState = "RUNNING" /\ engineState' = "RUNNING"
    BY <1>1, <1>2 DEF Handled, Delivered
  <2>2. /\ Basics' /\ Returned(e, puts)
        /\ \A p \in puts : LooksAhead(p)' <=> p.type = "MARKET"
    BY <1>2, <2>1, ReturnedFacts
  <2>3. CarriesOn(e, puts, q)
    BY <1>1, <1>2, <2>1, <2>2 DEF CarriesOn
  <2>4. MarketStep(e, puts, q)
    BY <1>1, <1>2, <2>3 DEF MarketStep
  <2>5. QED
    BY <2>2, <2>4 DEF Stepped
<1>3. CASE Handled(e, {Put("FEATURE", 0)}, <<>>)
  <2> DEFINE q == Put("FEATURE", 0)
  <2>1. WellPut({q}, <<>>) /\ q.type = "FEATURE"
    <3> DEFINE type == "FEATURE"
               data == <<>>
    <3>1. /\ type \in CascadeTypes \ {"MARKET", "FILL"}
          /\ IF type \in {"ORDER", "EXECUTION"}
             THEN \E d \in [Instrument -> Int] : data = One(seq, d)
             ELSE data = <<>>
      BY DEF CascadeTypes
    <3> HIDE DEF type, data
    <3>2. WellPut({Put(type, 0)}, data)
          /\ Put(type, 0) = [ts |-> clock, type |-> type, seq |-> seq, job |-> NoJob]
      BY <1>1, <3>1, PutsOne, Zenon
    <3>3. QED
      BY <3>2 DEF type, data
  <2> HIDE DEF q
  <2>2. q \in {q} /\ \A p \in {q} : p = q
    OBVIOUS
  <2>3. Handled(e, {q}, <<>>)
    BY <1>3 DEF q
  <2>4. QED
    BY <1>2, <2>1, <2>2, <2>3
<1>4. ASSUME NEW t \in Time, t > e.ts,
             Handled(e, {Put("MARKET", 0), Put("FEATURE", 1)}, One(seq, [bars |-> t, rows |-> Rows(t)]))
      PROVE  Basics' /\ Stepped(e)
  <2> DEFINE p == Put("MARKET", 0)
             q == Put("FEATURE", 1)
             data == One(seq, [bars |-> t, rows |-> Rows(t)])
  <2>1. WellPut({p, q}, data) /\ p.type = "MARKET" /\ q.type = "FEATURE"
    BY <1>1, <1>4, PutsAhead
  <2>2. Handled(e, {p, q}, data)
    BY <1>4
  <2> HIDE DEF p, q, data
  <2>3. q \in {p, q} /\ \A r \in {p, q} : r = q \/ r.type = "MARKET"
    BY <2>1
  <2>4. QED
    BY <1>2, <2>1, <2>2, <2>3
<1>5. QED
  BY <1>3, <1>4 DEF OnMarket

\* What a handler that puts one event of its type comes to.
LEMMA OnePutStep ==
    ASSUME Basics, NEW e \in batch, NEW type \in CascadeTypes \ {"MARKET", "FILL"}, NEW data,
           IF type \in {"ORDER", "EXECUTION"}
           THEN \E d \in [Instrument -> Int] : data = One(seq, d)
           ELSE data = <<>>,
           Handled(e, {Put(type, 0)}, data), engineState' = engineState, e.type # "MARKET"
    PROVE  /\ Basics'
           /\ Put(type, 0).type = type /\ Put(type, 0).seq = seq
           /\ e.type # "FILL" => CarriesOn(e, {Put(type, 0)}, Put(type, 0))
           /\ \A d : data = One(seq, d) => payload'[seq] = d
<1> DEFINE q == Put(type, 0)
<1>1. seq \in Nat /\ clock \in Nat
  BY BatchFacts
<1>2. WellPut({q}, data) /\ q.type = type /\ q.seq = seq
  <2>1. WellPut({q}, data) /\ q = [ts |-> clock, type |-> type, seq |-> seq, job |-> NoJob]
    BY <1>1, PutsOne, Zenon
  <2> HIDE DEF q
  <2>2. QED
    BY <2>1
<1>3. engineState = "RUNNING" /\ engineState' = "RUNNING"
  BY DEF Handled, Delivered
<1>4. Handled(e, {q}, data)
  OBVIOUS
<1> HIDE DEF q
<1>5. Basics' /\ Returned(e, {q}) /\ \A n \in DOMAIN data : payload'[n] = data[n]
  BY <1>2, <1>3, <1>4, ReturnedFacts
<1>6. e.type # "FILL" => Carries(e)
  BY DEF Carries, LooksAhead
<1>7. e.type # "FILL" => CarriesOn(e, {q}, q)
  BY <1>2, <1>3, <1>5, <1>6 DEF CarriesOn
<1>8. \A d : data = One(seq, d) => payload'[seq] = d
  BY <1>5 DEF One
<1>9. QED
  BY <1>2, <1>5, <1>7, <1>8 DEF q

LEMMA PassOnStep ==
    ASSUME Basics, NEW e \in batch, PassOn(e)
    PROVE  Basics' /\ Stepped(e)
<1> DEFINE type == PassesOn[e.type]
           data == IF e.type = "ORDER" THEN One(seq, payload[e.seq]) ELSE <<>>
           q == Put(type, 0)
<1>1. /\ e.type \in {"FEATURE", "SIGNAL", "FORECAST", "RISK", "ORDER", "POSITION"}
      /\ type \in {"SIGNAL", "FORECAST", "RISK", "PORTFOLIO", "EXECUTION", "PNL"}
      /\ (e.type = "ORDER") <=> (type = "EXECUTION")
  BY DEF PassOn, PassesOn
<1>2. e.type = "ORDER" => payload[e.seq] \in [Instrument -> Int]
  BY DEF Basics, PayloadInv, Pending
<1>3. /\ Handled(e, {q}, data) /\ ctx' = ctx /\ engineState' = engineState
  BY DEF PassOn
<1> HIDE DEF type
<1>4. /\ type \in CascadeTypes \ {"MARKET", "FILL"}
      /\ IF type \in {"ORDER", "EXECUTION"}
         THEN \E d \in [Instrument -> Int] : data = One(seq, d)
         ELSE data = <<>>
  BY <1>1, <1>2 DEF CascadeTypes
<1>5. e.type # "MARKET" /\ e.type # "FILL"
  BY <1>1
<1> HIDE DEF data
<1>6. /\ Basics' /\ q.type = type /\ q.seq = seq /\ CarriesOn(e, {q}, q)
      /\ \A d : data = One(seq, d) => payload'[seq] = d
  BY <1>3, <1>4, <1>5, OnePutStep, SMTT(60)
<1>7. type = "EXECUTION" => e.type = "ORDER" /\ payload'[q.seq] = payload[e.seq]
  BY <1>1, <1>6 DEF data
<1> HIDE DEF q
<1>8. PlanStep(e, {q}, q)
  BY <1>1, <1>3, <1>6, <1>7 DEF PlanStep
<1>9. QED
  BY <1>6, <1>8 DEF Stepped

LEMMA OnPortfolioStep ==
    ASSUME Basics, ctx \in Context, NEW e \in batch, OnPortfolio(e)
    PROVE  Basics' /\ Stepped(e)
<1>1. PICK orders \in {NoOrders} \cup {OrdersTo(t) : t \in Portfolios} :
         Handled(e, {Put("ORDER", 0)}, One(seq, orders))
  BY DEF OnPortfolio
<1>2. e.type = "PORTFOLIO" /\ ctx' = ctx /\ engineState' = engineState
  BY DEF OnPortfolio
<1>3. orders \in [Instrument -> Int]
  <2>1. NoOrders \in [Instrument -> Int]
    BY DEF NoOrders
  <2>2. ASSUME NEW t \in Portfolios PROVE OrdersTo(t) \in [Instrument -> Int]
    BY RunnerFacts DEF OrdersTo, Context, Books, Position
  <2>3. QED
    BY <2>1, <2>2
<1> DEFINE q == Put("ORDER", 0)
<1>4. /\ Basics' /\ q.type = "ORDER" /\ q.seq = seq /\ CarriesOn(e, {q}, q)
      /\ payload'[seq] = orders
  BY <1>1, <1>2, <1>3, OnePutStep DEF CascadeTypes
<1> HIDE DEF q
<1>5. PlanStep(e, {q}, q)
  BY <1>2, <1>4 DEF PlanStep
<1>6. QED
  BY <1>4, <1>5 DEF Stepped

LEMMA OnExecutionStep ==
    ASSUME Basics, ctx \in Context, NEW e \in batch, OnExecution(e)
    PROVE  Basics' /\ Stepped(e)
<1>1. /\ seq \in Nat /\ clock \in Nat /\ e.type = "EXECUTION" /\ ctx' = ctx /\ engineState' = engineState
      /\ Carries(e) /\ payload[e.seq] \in [Instrument -> Int]
  BY BatchFacts DEF OnExecution, Carries, LooksAhead, Basics, PayloadInv
<1>2. PICK done \in Executions(payload[e.seq]) : Handled(e, FillPuts(done), FillData(done))
  BY DEF OnExecution, FillPuts, FillData, FillPut, LastPut, FillOf, Filled, Rank
<1>3. /\ done \in [Instrument -> Int]
      /\ \A i \in Instrument : \/ 0 <= done[i] /\ done[i] <= payload[e.seq][i]
                               \/ payload[e.seq][i] <= done[i] /\ done[i] <= 0
  BY <1>1, ExecutionsFacts
<1> DEFINE puts == FillPuts(done)
           data == FillData(done)
           q == LastPut(done)
<1>4. /\ WellPut(puts, data) /\ q \in puts /\ q.type = "POSITION"
      /\ \A i \in Filled(done) : /\ FillPut(done, i).type = "FILL"
                                 /\ data[FillPut(done, i).seq] = FillOf(done, i)
      /\ \A p \in puts : p = q \/ \E i \in Filled(done) : p = FillPut(done, i)
  BY <1>1, <1>3, PutsFills
<1>5. engineState = "RUNNING" /\ engineState' = "RUNNING"
  BY <1>1, <1>2 DEF Handled, Delivered
<1>6. Handled(e, puts, data)
  BY <1>2
<1> HIDE DEF puts, data, q
<1>7. Basics' /\ Returned(e, puts) /\ \A n \in DOMAIN data : payload'[n] = data[n]
  BY <1>4, <1>5, <1>6, ReturnedFacts
<1>8. CarriesOn(e, puts, q)
  BY <1>1, <1>4, <1>5, <1>7 DEF CarriesOn
<1>9. ASSUME NEW p \in puts, p.type = "FILL"
      PROVE  \E i \in Filled(done) : /\ p = FillPut(done, i) /\ i \in Instrument
                                     /\ payload'[p.seq].inst = i /\ payload'[p.seq].qty = done[i]
  <2>1. PICK i \in Filled(done) : p = FillPut(done, i)
    BY <1>4, <1>9
  <2>2. p.seq \in DOMAIN data
    BY <1>4, <1>9 DEF WellPut
  <2>3. payload'[p.seq] = FillOf(done, i)
    BY <1>4, <1>7, <2>1, <2>2
  <2>4. i \in Instrument
    BY DEF Filled
  <2>5. QED
    BY <2>1, <2>3, <2>4 DEF FillOf
<1>10. PlanStep(e, puts, q)
  <2>1. \A p \in puts : p.type \in {"FILL", "POSITION"}
    BY <1>4
  <2>2. ASSUME NEW p \in puts, p.type = "FILL"
        PROVE  LET i == payload'[p.seq].inst
                   lots == payload'[p.seq].qty
               IN  \/ 0 <= lots /\ lots <= payload[e.seq][i]
                   \/ payload[e.seq][i] <= lots /\ lots <= 0
    BY <1>3, <1>9, <2>2
  <2>3. \A p, r \in puts :
           p.type = "FILL" /\ r.type = "FILL" /\ payload'[p.seq].inst = payload'[r.seq].inst => p = r
    BY <1>9
  <2>4. \A p \in puts : p.type # "ORDER" /\ p.type # "EXECUTION"
    BY <2>1
  <2>5. QED
    BY <1>1, <1>4, <1>8, <2>2, <2>3, <2>4 DEF PlanStep
<1>11. QED
  BY <1>7, <1>10 DEF Stepped

LEMMA OnFillStep ==
    ASSUME Basics, NEW e \in batch, OnFill(e)
    PROVE  Basics' /\ Stepped(e)
<1>1. /\ seq \in Nat /\ Handled(e, {}, <<>>) /\ engineState' = engineState
      /\ e.type = "FILL" /\ ctx' = [ctx EXCEPT !.books = Booked(@, payload[e.seq])]
  BY BatchFacts DEF OnFill
<1>2. engineState = "RUNNING" /\ engineState' = "RUNNING"
  BY <1>1 DEF Handled, Delivered
<1>3. Basics' /\ Returned(e, {})
  BY <1>1, <1>2, PutsNothing, ReturnedFacts
<1>4. FillStep(e)
  BY <1>1, <1>2, <1>3 DEF FillStep
<1>5. QED
  BY <1>3, <1>4 DEF Stepped

LEMMA OnPnlStep ==
    ASSUME Basics, NEW e \in batch, OnPnl(e)
    PROVE  Basics' /\ Stepped(e)
<1> DEFINE q == Put("RISK_UPDATE", 0)
<1>1. /\ Handled(e, {q}, <<>>) /\ engineState' = engineState /\ e.type = "PNL"
      /\ ctx' = [ctx EXCEPT !.curve = Append(@, [ts |-> e.ts, equity |-> Equity(ctx.books)])]
  BY DEF OnPnl
<1>2. Basics' /\ q.type = "RISK_UPDATE" /\ CarriesOn(e, {q}, q)
  <2> DEFINE type == "RISK_UPDATE"
             data == <<>>
  <2>1. /\ type \in CascadeTypes \ {"MARKET", "FILL"}
        /\ IF type \in {"ORDER", "EXECUTION"}
           THEN \E d \in [Instrument -> Int] : data = One(seq, d)
           ELSE data = <<>>
        /\ Handled(e, {Put(type, 0)}, data) /\ e.type # "MARKET" /\ e.type # "FILL"
    BY <1>1 DEF CascadeTypes
  <2> HIDE DEF type, data
  <2>2. Basics' /\ Put(type, 0).type = type /\ CarriesOn(e, {Put(type, 0)}, Put(type, 0))
    BY <1>1, <2>1, OnePutStep
  <2>3. QED
    BY <2>2 DEF type
<1> HIDE DEF q
<1>3. PnlStep(e, {q}, q)
  BY <1>1, <1>2 DEF PnlStep
<1>4. QED
  BY <1>2, <1>3 DEF Stepped

LEMMA OnRiskUpdateStep ==
    ASSUME Basics, ctx \in Context, NEW e \in batch, OnRiskUpdate(e)
    PROVE  Basics' /\ Stepped(e)
<1> DEFINE breached == Breached
           flag == ctx.invalidated \/ breached
<1>1. /\ seq \in Nat /\ Handled(e, {}, <<>>) /\ e.type = "RISK_UPDATE"
      /\ ctx' = [ctx EXCEPT !.invalidated = flag]
      /\ engineState' = IF breached THEN "INVALIDATED" ELSE "RUNNING"
  BY BatchFacts DEF OnRiskUpdate, Context
<1>2. breached \in BOOLEAN /\ flag \in BOOLEAN /\ (breached => flag)
  BY DEF Context, Breached
<1> HIDE DEF breached, flag
<1>3. engineState' \in {"RUNNING", "INVALIDATED"} /\ (engineState' = "INVALIDATED" => flag)
  BY <1>1, <1>2
<1>4. Basics' /\ Returned(e, {})
  BY <1>1, <1>3, PutsNothing, ReturnedFacts
<1>5. RiskStep(e)
  BY <1>1, <1>2, <1>3, <1>4 DEF RiskStep
<1>6. QED
  BY <1>4, <1>5 DEF Stepped

\* Every handler is one of these steps, and leaves the engine in order.
LEMMA HandleSteps ==
    ASSUME Basics, ctx \in Context, NEW e \in batch, Handle(e)
    PROVE  Basics' /\ Stepped(e)
<1>1. ASSUME Raise(e, {}), UNCHANGED <<payload, runner, frame>>,
             \/ ctx' = ctx
             \/ LooksAhead(e) /\ ctx' = [ctx EXCEPT !.time = e.ts, !.invalidated = TRUE]
             \/ Fed(e) /\ ctx' = Marked(e)
      PROVE  Basics' /\ Stepped(e)
  <2>1. /\ EngineTypeOK' /\ NumberedInv' /\ PayloadInv'
        /\ Pending' = queue /\ engineState' = "FAILED" /\ ~loop'.active
    BY <1>1, RaiseFacts
  <2>2. /\ engineState = "RUNNING" /\ loop.active /\ IsFirst(e, batch) /\ batch' = {} /\ runs' = runs
    BY <1>1 DEF Raise, Delivered
  <2>3. RaiseStep(e)
    BY <1>1, <2>1, <2>2 DEF RaiseStep, Pending
  <2>4. QED
    BY <2>1, <2>3 DEF Stepped, Basics
<1>2. CASE OnMarketLookahead(e)
  BY <1>1, <1>2 DEF OnMarketLookahead
<1>3. CASE HookRaises(e)
  <2>1. /\ Raise(e, {}) /\ UNCHANGED <<payload, runner, frame>> /\ ~LooksAhead(e)
        /\ ctx' = IF e.type = "MARKET" THEN Marked(e) ELSE ctx
    BY <1>3 DEF HookRaises
  <2>2. QED
    BY <1>1, <2>1 DEF Fed
<1>4. QED
  BY <1>2, <1>3, OnMarketStep, PassOnStep, OnPortfolioStep, OnExecutionStep, OnFillStep,
     OnPnlStep, OnRiskUpdateStep DEF Handle

-----------------------------------------------------------------------------
(* What the engine does between handlers, and what the runner does to it.  *)

Begins ==
    /\ runs = 0 /\ runs' = runs + 1 /\ ~loop.active
    /\ engineState # "INVALIDATED" /\ engineState' = "RUNNING"
    /\ queue' = queue /\ batch' = batch
    /\ loop'.active /\ loop'.end = Horizon /\ loop'.cap = NoCap /\ ~loop'.ticks

Drains ==
    /\ AtTurn /\ engineState' = engineState /\ runs' = runs
    /\ loop'.active /\ loop'.end = loop.end /\ loop'.cap = loop.cap /\ loop'.ticks = loop.ticks
    /\ \A f \in queue' : f.ts > clock'

Completes ==
    /\ AtTurn /\ engineState' = "COMPLETED" /\ runs' = runs /\ ~loop'.active
    /\ queue' = queue /\ batch' = {}
    /\ loop.cap = NoCap => \A f \in queue : f.ts > loop.end

Drops ==
    /\ engineState = "INVALIDATED" /\ engineState' = "INVALIDATED" /\ runs' = runs
    /\ ~loop'.active /\ queue' = queue /\ batch' = {}

LEMMA EngineStepFacts ==
    ASSUME Basics, EngineStep
    PROVE  /\ Basics' /\ Pending' \subseteq Pending
           /\ engineState # "INVALIDATED" => Pending' = Pending
           /\ running /\ UNCHANGED <<runner, ctx, payload, frame>>
           /\ Begins \/ Drains \/ Completes \/ Drops
<1> USE DEF Pending
<1>0. /\ EngineTypeOK /\ loop \in Loop /\ running /\ UNCHANGED <<runner, ctx, payload, frame>>
      /\ jobs = [j \in Job |-> Unscheduled] /\ seq \in Nat
      /\ \A e \in queue : e.ts \in Time /\ e.ts \in Nat
      /\ ~loop.active => batch = {}
  BY DEF Basics, EngineTypeOK, NumberedInv, EngineStep, Event
<1>1. ASSUME EngineTypeOK', Pending' \subseteq Pending, queue' \cap batch' = {}, seq' = seq, jobs' = jobs
      PROVE  Basics'
  <2>1. NumberedInv'
    BY <1>0, <1>1 DEF Basics, NumberedInv
  <2>2. PayloadInv'
    BY <1>0, <1>1 DEF Basics, PayloadInv
  <2>3. QED
    BY <1>1, <2>1, <2>2 DEF Basics
<1>2. CASE runs = 0 /\ Begin(0, Horizon, NoCap, FALSE)
  <2>1. /\ queue' = queue /\ seq' = seq /\ jobs' = jobs /\ batch' = batch
    BY <1>0, <1>2, NothingScheduled DEF Begin
  <2>2. loop' = [Stopped EXCEPT !.active = TRUE, !.end = Horizon, !.cap = NoCap, !.ticks = FALSE]
    BY <1>2 DEF Begin
  <2>3. /\ loop'.active /\ loop'.end = Horizon /\ loop'.cap = NoCap /\ ~loop'.ticks /\ loop' \in Loop
    BY <2>2, TimeFacts DEF Stopped, Loop
  <2>4. due' \in [Job -> SUBSET Nat]
    <3>1. \A j \in Job : Owed(jobs[j], 0, Horizon) \in SUBSET Nat
      BY TimeFacts DEF Owed
    <3>2. QED
      BY <1>2, <3>1 DEF Begin
  <2>5. /\ clock' = 0 /\ engineState' = "RUNNING" /\ last' = NoEvent /\ runs' = runs + 1
        /\ UNCHANGED <<batch, processed, submitted, fired>> /\ clean' \in BOOLEAN
        /\ ~loop.active /\ engineState # "INVALIDATED"
    BY <1>2 DEF Begin
  <2>6. EngineTypeOK'
    BY <1>0, <1>2, <2>1, <2>3, <2>4, <2>5 DEF EngineTypeOK
  <2>7. Begins
    BY <1>2, <2>1, <2>3, <2>5 DEF Begins
  <2>8. QED
    BY <1>0, <1>1, <2>1, <2>6, <2>7 DEF Basics, NumberedInv
<1>3. CASE Drain
  <2>1. PICK e \in queue :
           /\ IsFirst(e, queue)
           /\ clock' = e.ts
           /\ batch' = DrainAt(queue \cup JobEvents(Dues(e.ts)), e.ts)
           /\ queue' = (queue \cup JobEvents(Dues(e.ts))) \ batch'
           /\ jobs' = DueJobs(e.ts)
           /\ seq' = seq + Numbers(Dues(e.ts))
    BY <1>3 DEF Drain
  <2>2. batch' = DrainAt(queue, e.ts) /\ queue' = queue \ batch' /\ jobs' = jobs /\ seq' = seq
    <3>1. /\ JobEvents(Dues(e.ts)) = {} /\ Numbers(Dues(e.ts)) = 0 /\ DueJobs(e.ts) = jobs
      BY <1>0, NothingScheduled
    <3>2. queue \cup JobEvents(Dues(e.ts)) = queue
      BY <3>1
    <3>3. batch' = DrainAt(queue, e.ts) /\ queue' = queue \ batch'
      BY <2>1, <3>2, Zenon
    <3>4. QED
      BY <1>0, <2>1, <3>1, <3>3
  <2>3. \A f \in queue : f.ts >= e.ts
    BY <1>0, <2>1 DEF IsFirst, Before
  <2>4. batch' = {f \in queue : f.ts = e.ts}
    BY <1>0, <2>2, <2>3 DEF DrainAt
  <2>5. \A f \in queue' : f.ts > clock'
    BY <1>0, <2>1, <2>2, <2>3, <2>4
  <2>6. AtTurn /\ batch = {} /\ engineState' = engineState /\ engineState # "INVALIDATED" /\ runs' = runs
        /\ loop' = [loop EXCEPT !.mark = seq']
    BY <1>3 DEF Drain, AtTurn
  <2>7. loop'.active /\ loop'.end = loop.end /\ loop'.cap = loop.cap /\ loop'.ticks = loop.ticks
    BY <1>0, <2>6 DEF Loop, AtTurn
  <2>8. Drains
    BY <2>5, <2>6, <2>7 DEF Drains
  <2>9. EngineTypeOK'
    BY <1>0, <1>3, TypeStep DEF EngineNext, LoopStep
  <2>10. Pending' = Pending /\ queue' \cap batch' = {}
    BY <2>2, <2>4, <2>6
  <2>11. QED
    BY <1>0, <1>1, <2>2, <2>8, <2>9, <2>10
<1>4. CASE Complete
  <2>1. /\ AtTurn /\ batch = {} /\ engineState # "INVALIDATED" /\ engineState' = "COMPLETED"
        /\ UNCHANGED <<queue, seq, batch, jobs, runs>>
        /\ loop' = [loop EXCEPT !.active = FALSE, !.capped = Capped]
    BY <1>4 DEF Complete, AtTurn
  <2>2. ~loop'.active
    BY <1>0, <2>1 DEF Loop
  <2>3. loop.cap = NoCap => \A f \in queue : f.ts > loop.end
    <3>1. loop.end \in Nat
      BY <1>0 DEF Loop
    <3>2. QED
      BY <1>0, <1>4, <3>1 DEF Complete, Capped, Ready
  <2>4. EngineTypeOK'
    BY <1>0, <1>4, TypeStep DEF EngineNext, LoopStep
  <2>5. Completes
    BY <2>1, <2>2, <2>3 DEF Completes
  <2>6. QED
    BY <1>0, <1>1, <2>1, <2>4, <2>5
<1>5. CASE DropBatch
  <2>1. /\ engineState = "INVALIDATED" /\ engineState' = "INVALIDATED" /\ batch' = {}
        /\ UNCHANGED <<queue, seq, jobs, runs>> /\ loop' = [loop EXCEPT !.active = FALSE]
    BY <1>5 DEF DropBatch
  <2>2. ~loop'.active
    BY <1>0, <2>1 DEF Loop
  <2>3. EngineTypeOK'
    BY <1>0, <1>5, TypeStep DEF EngineNext, LoopStep
  <2>4. Drops
    BY <2>1, <2>2 DEF Drops
  <2>5. QED
    BY <1>0, <1>1, <2>1, <2>3, <2>4
<1>6. QED
  BY <1>2, <1>3, <1>4, <1>5 DEF EngineStep

LEMMA NewEngineFacts ==
    ASSUME NewEngine, payload' = <<>>
    PROVE  /\ Basics' /\ Pending' = {}
           /\ engineState' = "CREATED" /\ runs' = 0 /\ ~loop'.active /\ seq' = 0
<1>1. Unscheduled \in ScheduledJob /\ Stopped \in Loop /\ ~Stopped.active
  BY EnvironmentFacts DEF Stopped
<1>2. /\ queue' = {} /\ batch' = {} /\ seq' = 0 /\ engineState' = "CREATED" /\ runs' = 0
      /\ jobs' = [j \in Job |-> Unscheduled] /\ ~loop'.active
  BY <1>1 DEF NewEngine
<1>3. EngineTypeOK'
  BY <1>1 DEF NewEngine, EngineTypeOK
<1>4. Pending' = {} /\ queue' \cap batch' = {}
  BY <1>2 DEF Pending
<1>5. NumberedInv' /\ PayloadInv'
  BY <1>2, <1>4 DEF NumberedInv, PayloadInv
<1>6. QED
  BY <1>2, <1>3, <1>4, <1>5 DEF Basics

\* The steps that leave the engine and its events as they are.
LEMMA BasicsUnchanged ==
    ASSUME Basics, UNCHANGED <<engineVars, payload>>
    PROVE  Basics' /\ Pending' = Pending
<1>1. EngineTypeOK'
  BY TypeStep DEF Basics
<1>2. UNCHANGED <<queue, batch, seq, jobs, payload>>
  BY DEF engineVars, engine
<1>3. Pending' = Pending
  BY <1>2 DEF Pending
<1>4. NumberedInv' /\ PayloadInv'
  BY <1>2, <1>3 DEF Basics, NumberedInv, PayloadInv
<1>5. QED
  BY <1>1, <1>3, <1>4 DEF Basics

-----------------------------------------------------------------------------
(* Types and books.                                                        *)

SafeInv == Basics /\ RunnerTypeInv /\ BooksInv

LEMMA ContextFacts ==
    ASSUME NEW c \in Context
    PROVE  /\ c.time \in Time \cup {NoTime} /\ c.books \in Books /\ c.curve \in Seq(Point)
           /\ c.invalidated \in BOOLEAN /\ c.resumedAt \in SUBSET Time
           /\ \A flag \in BOOLEAN : [c EXCEPT !.invalidated = flag] \in Context
BY DEF Context

\* The context after the bars of an instant: its time and prices, and nothing else.
LEMMA MarkedFacts ==
    ASSUME SafeInv, NEW e \in batch, Fed(e)
    PROVE  LET c == Marked(e)
           IN  /\ c \in Context /\ Balanced(c.books)
               /\ c.time = e.ts /\ e.ts = clock /\ e.ts \in Time
               /\ c.curve = ctx.curve /\ c.invalidated = ctx.invalidated /\ c.resumedAt = ctx.resumedAt
               /\ c.books.position = ctx.books.position
<1> DEFINE price == [i \in Instrument |->
                        IF i \in payload[e.seq].rows THEN frame[e.ts][i] ELSE ctx.books.price[i]]
           b == [ctx.books EXCEPT !.price = price]
           c == Marked(e)
<1>1. /\ e.ts = clock /\ e.ts \in Time
  BY BatchFacts DEF SafeInv
<1>2. /\ ctx \in Context /\ ctx.books \in Books /\ Balanced(ctx.books) /\ frame \in Frames
  BY ContextFacts DEF SafeInv, RunnerTypeInv, BooksInv, Contexts
<1>3. price \in [Instrument -> Nat]
  BY <1>1, <1>2, RunnerFacts DEF Books
<1>4. c = [ctx EXCEPT !.time = e.ts, !.books = b]
  BY <1>2 DEF Marked, Context, Books
<1> HIDE DEF price, c
<1>5. b \in Books /\ Balanced(b) /\ b.position = ctx.books.position
  BY <1>2, <1>3, RepricedFacts
<1> HIDE DEF b
<1>6. c \in Context /\ c.time = e.ts /\ c.books = b
      /\ c.curve = ctx.curve /\ c.invalidated = ctx.invalidated /\ c.resumedAt = ctx.resumedAt
  BY <1>1, <1>2, <1>4, <1>5 DEF Context
<1>7. QED
  BY <1>1, <1>5, <1>6 DEF c

\* Handlers leave a context with balanced books.
LEMMA SteppedContext ==
    ASSUME SafeInv, NEW e \in batch, Stepped(e)
    PROVE  ctx' \in Context /\ Balanced(ctx'.books)
<1>1. /\ ctx \in Context /\ ctx.books \in Books /\ Balanced(ctx.books)
      /\ e.ts \in Time /\ e \in Pending
  BY ContextFacts, BatchFacts DEF SafeInv, RunnerTypeInv, BooksInv, Contexts
<1>2. CASE ctx' = ctx
  BY <1>1, <1>2
<1>3. CASE Fed(e) /\ ctx' = Marked(e)
  BY <1>3, MarkedFacts
<1>4. CASE LooksAhead(e) /\ ctx' = [ctx EXCEPT !.time = e.ts, !.invalidated = TRUE]
  <2>1. ctx' \in Context /\ ctx'.books = ctx.books
    BY <1>1, <1>4 DEF Context
  <2>2. QED
    BY <1>1, <2>1
<1>5. CASE FillStep(e)
  <2>1. payload[e.seq] \in Fill /\ ctx' = [ctx EXCEPT !.books = Booked(ctx.books, payload[e.seq])]
    BY <1>1, <1>5 DEF FillStep, SafeInv, Basics, PayloadInv
  <2> DEFINE b == Booked(ctx.books, payload[e.seq])
  <2>2. b \in Books /\ Balanced(b)
    BY <1>1, <2>1, BookedFacts
  <2> HIDE DEF b
  <2>3. ctx' \in Context /\ ctx'.books = b
    BY <1>1, <2>1, <2>2 DEF Context, b
  <2>4. QED
    BY <2>2, <2>3
<1>6. CASE \E puts, q : PnlStep(e, puts, q)
  <2>1. ctx' = [ctx EXCEPT !.curve = Append(ctx.curve, [ts |-> e.ts, equity |-> Equity(ctx.books)])]
    BY <1>6 DEF PnlStep
  <2>2. Equity(ctx.books) \in Int
    BY <1>1, ValueFacts
  <2>3. Append(ctx.curve, [ts |-> e.ts, equity |-> Equity(ctx.books)]) \in Seq(Point)
    <3> DEFINE equity == Equity(ctx.books)
               point == [ts |-> e.ts, equity |-> equity]
    <3>1. ctx.curve \in Seq(Point) /\ equity \in Int /\ e.ts \in Time
      BY <1>1, <2>2, ContextFacts
    <3> HIDE DEF equity
    <3>2. point \in Point
      BY <3>1 DEF Point
    <3> HIDE DEF point
    <3>3. Append(ctx.curve, point) \in Seq(Point)
      BY <3>1, <3>2
    <3>4. QED
      BY <3>3 DEF point, equity
  <2>4. ctx' \in Context /\ ctx'.books = ctx.books
    BY <1>1, <2>1, <2>3 DEF Context
  <2>5. QED
    BY <1>1, <2>4
<1>7. CASE RiskStep(e)
  <2>1. ctx' \in Context /\ ctx'.books = ctx.books
    BY <1>1, <1>7 DEF Context, RiskStep
  <2>2. QED
    BY <1>1, <2>1
<1>8. QED
  <2>1. ASSUME NEW puts, NEW q, MarketStep(e, puts, q)
        PROVE  Fed(e) /\ ctx' = Marked(e)
    BY <2>1 DEF MarketStep, CarriesOn, Carries, Fed
  <2>2. QED
    BY <1>2, <1>3, <1>4, <1>5, <1>6, <1>7, <2>1 DEF Stepped, PlanStep, RaiseStep

LEMMA NewContextFacts == NewContext \in Context /\ Balanced(NewContext.books)
<1>1. EmptyBooks \in Books /\ Balanced(EmptyBooks)
  BY EmptyFacts
<1> HIDE DEF EmptyBooks
<1>2. QED
  BY <1>1 DEF NewContext, Context

\* A checkpoint that is restored, and one that is written.
LEMMA RestoredFacts ==
    ASSUME file \in Context
    PROVE  /\ Restored \in Context
           /\ Restored.time = file.time /\ Restored.books = file.books /\ Restored.curve = file.curve
           /\ Restored.invalidated = file.invalidated
           /\ Restored.resumedAt = file.resumedAt \cup ({file.time} \ {NoTime})
BY ContextFacts DEF Restored, Context

LEMMA WrittenFacts ==
    ASSUME ctx \in Context
    PROVE  LET c == [ctx EXCEPT !.invalidated = FALSE]
           IN  /\ c \in Context
               /\ c.time = ctx.time /\ c.books = ctx.books /\ c.curve = ctx.curve
               /\ c.resumedAt = ctx.resumedAt
BY DEF Context

-----------------------------------------------------------------------------
(* Runs are prepared.                                                      *)

BaseInv == SafeInv /\ PreparedInv

\* Where a run starts.
After == IF resumeFrom THEN ctx.time ELSE NoTime

LEMMA SteppedKeeps ==
    ASSUME NEW e, Stepped(e)
    PROVE  /\ UNCHANGED <<runner, frame, runs>> /\ engineState = "RUNNING" /\ loop.active
           /\ \/ engineState' \in {"RUNNING", "INVALIDATED"} /\ loop' = loop
              \/ engineState' = "FAILED" /\ ~loop'.active /\ batch' = {}
BY DEF Stepped, MarketStep, PlanStep, PnlStep, FillStep, RiskStep, RaiseStep, CarriesOn, Returned

LEMMA RunFacts ==
    ASSUME BaseInv, Run
    PROVE  /\ Basics' /\ batch' = {} /\ Pending = {} /\ runs = 0 /\ After \in Time \cup {NoTime}
           /\ \A f \in Pending' : Fed(f)' /\ f.ts \in ToFeed(After) /\ f.ts \in Time
           /\ \A t \in ToFeed(After) : \E f \in Pending' : f.ts = t
           /\ \A f, g \in Pending' : f.ts = g.ts => f = g
<1> DEFINE M == Markets(After)
<1>1. /\ runs = 0 /\ queue = {} /\ batch = {} /\ seq = 0 /\ ~loop.active
  BY DEF BaseInv, PreparedInv, Run
<1>2. After \in Time \cup {NoTime}
  BY ContextFacts DEF After, BaseInv, SafeInv, RunnerTypeInv
<1>3. /\ queue' = {m.event : m \in M} /\ seq' = Cardinality(M) /\ payload' = Payloads(M)
      /\ UNCHANGED <<clock, batch, engineState, jobs, processed, loop, submitted, runs, last, fired, due, clean>>
  BY DEF Run, After
<1> HIDE DEF M
<1>4. /\ Cardinality(M) \in Nat
      /\ \A m \in M :
            /\ m.event \in Event /\ m.event.type = "MARKET" /\ m.event.job = NoJob
            /\ m.event.ts \in ToFeed(After) /\ m.event.ts \in Time
            /\ m.event.seq \in 0 .. Cardinality(M) - 1
            /\ m.data = [bars |-> m.event.ts, rows |-> Rows(m.event.ts)]
      /\ \A t \in ToFeed(After) : \E m \in M : m.event.ts = t
      /\ \A m, n \in M : m.event.seq = n.event.seq \/ m.event.ts = n.event.ts => m = n
      /\ DOMAIN Payloads(M) = {m.event.seq : m \in M}
      /\ \A m \in M : Payloads(M)[m.event.seq] = m.data
  BY <1>1, <1>2, MarketsFacts DEF M
<1>5. Pending = {} /\ batch' = {} /\ Pending' = {m.event : m \in M}
  BY <1>1, <1>3 DEF Pending
<1>6. /\ EngineTypeOK /\ jobs = [j \in Job |-> Unscheduled]
  BY DEF BaseInv, SafeInv, Basics, NumberedInv
<1>7. EngineTypeOK'
  <2>1. queue' \subseteq Event /\ seq' \in Nat
    BY <1>3, <1>4
  <2>2. QED
    BY <1>1, <1>3, <1>6, <2>1 DEF EngineTypeOK
<1>8. ASSUME NEW f \in Pending'
      PROVE  /\ f.type = "MARKET" /\ f.job = NoJob /\ f.ts \in ToFeed(After) /\ f.ts \in Time
             /\ f.seq < seq' /\ f.seq \in DOMAIN payload'
             /\ payload'[f.seq] = [bars |-> f.ts, rows |-> Rows(f.ts)]
  <2>1. PICK m \in M : f = m.event
    BY <1>5
  <2>2. m.event.seq < Cardinality(M)
    <3> DEFINE n == m.event.seq
    <3>1. n \in 0 .. Cardinality(M) - 1 /\ Cardinality(M) \in Nat
      BY <1>4
    <3> HIDE DEF n
    <3>2. n < Cardinality(M)
      BY <3>1
    <3>3. QED
      BY <3>2 DEF n
  <2>3. m.event.seq \in DOMAIN Payloads(M) /\ Payloads(M)[m.event.seq] = m.data
    BY <1>4
  <2>4. /\ m.event.type = "MARKET" /\ m.event.job = NoJob
        /\ m.event.ts \in ToFeed(After) /\ m.event.ts \in Time
        /\ m.data = [bars |-> m.event.ts, rows |-> Rows(m.event.ts)]
    BY <1>4
  <2>5. QED
    BY <1>3, <2>1, <2>2, <2>3, <2>4
<1>9. NumberedInv'
  <2>1. \A f, g \in Pending' : f.seq = g.seq => f = g
    BY <1>4, <1>5
  <2>2. DOMAIN payload' \subseteq 0 .. seq' - 1
    BY <1>3, <1>4
  <2>3. QED
    BY <1>3, <1>5, <1>6, <1>8, <2>1, <2>2 DEF NumberedInv
<1>10. PayloadInv'
  <2>1. ASSUME NEW f \in Pending'
        PROVE  /\ payload'[f.seq] \in [bars : Time, rows : SUBSET Instrument]
               /\ payload'[f.seq].bars >= f.ts
    <3> DEFINE t == f.ts
               rows == Rows(t)
    <3>1. rows \in SUBSET Instrument
      BY DEF Rows
    <3>2. t \in Time /\ payload'[f.seq] = [bars |-> t, rows |-> rows]
      BY <1>8
    <3> HIDE DEF t, rows
    <3>3. t >= t
      BY <3>2, TimeFacts
    <3>4. /\ payload'[f.seq] \in [bars : Time, rows : SUBSET Instrument]
          /\ payload'[f.seq].bars >= t
      BY <3>1, <3>2, <3>3
    <3>5. QED
      BY <3>4 DEF t
  <2>2. QED
    BY <1>8, <2>1 DEF PayloadInv
<1>11. \A f \in Pending' : Fed(f)' /\ f.ts \in ToFeed(After)
  <2> TAKE f \in Pending'
  <2> DEFINE t == f.ts
  <2>1. /\ t \in Time /\ f.type = "MARKET" /\ t \in ToFeed(After)
        /\ payload'[f.seq] = [bars |-> t, rows |-> Rows(t)]
    BY <1>8
  <2> HIDE DEF t
  <2>2. payload'[f.seq].bars = t /\ ~(t > t)
    BY <2>1, TimeFacts
  <2> USE DEF t
  <2>3. QED
    BY <2>1, <2>2 DEF Fed, LooksAhead
<1>12. /\ \A t \in ToFeed(After) : \E f \in Pending' : f.ts = t
       /\ \A f, g \in Pending' : f.ts = g.ts => f = g
  BY <1>4, <1>5
<1>13. QED
  BY <1>1, <1>2, <1>5, <1>7, <1>8, <1>9, <1>10, <1>11, <1>12 DEF Basics

LEMMA BaseInit == RunnerInit => BaseInv
<1> SUFFICES ASSUME RunnerInit PROVE BaseInv
  OBVIOUS
<1>1. EngineTypeOK
  BY TypeInit DEF RunnerInit
<1>2. /\ queue = {} /\ batch = {} /\ seq = 0 /\ payload = <<>> /\ runs = 0 /\ engineState = "CREATED"
      /\ jobs = [j \in Job |-> Unscheduled] /\ loop = Stopped /\ ~loop.active
  BY DEF RunnerInit, EngineInit, Stopped
<1>3. Pending = {}
  BY <1>2 DEF Pending
<1>4. NumberedInv /\ PayloadInv
  BY <1>2, <1>3 DEF NumberedInv, PayloadInv
<1>5. /\ ctx = NewContext /\ file = NoFile /\ frame \in Frames /\ lifecycle = "CREATED"
      /\ prepared = FALSE /\ running = FALSE /\ resumeFrom = FALSE
  BY DEF RunnerInit
<1>6. RunnerTypeInv
  BY <1>5, NewContextFacts DEF RunnerTypeInv, Lifecycle
<1>7. BooksInv
  BY <1>5, NewContextFacts DEF BooksInv, Contexts
<1>8. PreparedInv
  BY <1>2, <1>5 DEF PreparedInv
<1>9. QED
  BY <1>1, <1>4, <1>6, <1>7, <1>8 DEF BaseInv, SafeInv, Basics

\* A handler.
LEMMA BaseHandle ==
    ASSUME BaseInv, NEW e \in batch, Handle(e)
    PROVE  BaseInv'
<1>1. SafeInv /\ PreparedInv /\ Basics /\ RunnerTypeInv /\ BooksInv /\ ctx \in Context
  BY DEF BaseInv, SafeInv, RunnerTypeInv
<1>2. Basics' /\ Stepped(e)
  BY <1>1, HandleSteps
<1>3. ctx' \in Context /\ Balanced(ctx'.books)
  BY <1>1, <1>2, SteppedContext
<1>4. /\ UNCHANGED <<runner, frame, runs>> /\ engineState = "RUNNING" /\ loop.active
      /\ \/ engineState' \in {"RUNNING", "INVALIDATED"} /\ loop' = loop
         \/ engineState' = "FAILED" /\ ~loop'.active /\ batch' = {}
  BY <1>2, SteppedKeeps
<1>5. RunnerTypeInv'
  BY <1>1, <1>3, <1>4 DEF RunnerTypeInv, runner
<1>6. BooksInv'
  BY <1>1, <1>3, <1>4 DEF BooksInv, Contexts, runner
<1>7. PreparedInv'
  BY <1>1, <1>4 DEF PreparedInv, runner
<1>8. QED
  BY <1>2, <1>5, <1>6, <1>7 DEF BaseInv, SafeInv

\* The engine.
LEMMA BaseEngine ==
    ASSUME BaseInv, EngineStep
    PROVE  BaseInv'
<1>1. PreparedInv /\ Basics /\ RunnerTypeInv /\ BooksInv /\ EngineTypeOK
  BY DEF BaseInv, SafeInv, Basics
<1>2. /\ Basics' /\ running /\ UNCHANGED <<runner, ctx, payload, frame>>
      /\ Begins \/ Drains \/ Completes \/ Drops
  BY <1>1, EngineStepFacts
<1>3. RunnerTypeInv' /\ BooksInv'
  BY <1>1, <1>2 DEF RunnerTypeInv, BooksInv, Contexts, runner
<1>4. PreparedInv'
  <2>1. runs \in Nat /\ running'
    BY <1>1, <1>2 DEF EngineTypeOK, runner
  <2>2. CASE Begins
    BY <1>1, <2>1, <2>2 DEF PreparedInv, Begins
  <2>3. CASE Drains
    BY <1>1, <2>1, <2>3 DEF PreparedInv, Drains, AtTurn
  <2>4. CASE Completes
    BY <1>1, <2>1, <2>4 DEF PreparedInv, Completes, AtTurn
  <2>5. CASE Drops
    BY <1>1, <2>1, <2>5 DEF PreparedInv, Drops
  <2>6. QED
    BY <1>2, <2>2, <2>3, <2>4, <2>5
<1>5. QED
  BY <1>2, <1>3, <1>4 DEF BaseInv, SafeInv

\* Preparing a run, from a checkpoint or anew.
LEMMA BasePrepare ==
    ASSUME BaseInv, NEW resuming \in BOOLEAN, PrepareFrom(resuming)
    PROVE  BaseInv' /\ Pending' = {}
<1>1. PreparedInv /\ RunnerTypeInv /\ BooksInv
  BY DEF BaseInv, SafeInv
<1>2. /\ lifecycle' = "PREPARING" /\ prepared' = TRUE /\ resumeFrom' = resuming /\ ~running
      /\ NewEngine /\ payload' = <<>>
      /\ ctx' = IF resuming /\ file # NoFile THEN Restored ELSE NewContext
      /\ UNCHANGED <<running, file, pauses, processes, frame>>
  BY DEF PrepareFrom
<1>3. /\ Basics' /\ Pending' = {}
      /\ engineState' = "CREATED" /\ runs' = 0 /\ ~loop'.active /\ seq' = 0
  BY <1>2, NewEngineFacts
<1>4. file # NoFile => /\ file \in Context /\ Balanced(file.books) /\ Restored \in Context
                       /\ Restored.books = file.books
                       /\ Restored.time \in Restored.resumedAt \cup {NoTime}
  BY <1>1, RestoredFacts DEF RunnerTypeInv, BooksInv, Contexts
<1>5. /\ ctx' \in Context /\ Balanced(ctx'.books) /\ ctx'.time \in ctx'.resumedAt \cup {NoTime}
      /\ resuming \/ ctx' = NewContext
  <2>1. NewContext.time = NoTime
    BY DEF NewContext
  <2>2. QED
    BY <1>2, <1>4, <2>1, NewContextFacts
<1>6. RunnerTypeInv'
  BY <1>1, <1>2, <1>5 DEF RunnerTypeInv, Lifecycle
<1>7. BooksInv'
  BY <1>1, <1>2, <1>5 DEF BooksInv, Contexts
<1>8. PreparedInv'
  BY <1>2, <1>3, <1>5 DEF PreparedInv, Pending
<1>9. QED
  BY <1>3, <1>6, <1>7, <1>8 DEF BaseInv, SafeInv

\* Calls that change nothing but the lifecycle and the checkpoint.
LEMMA BaseCalls ==
    ASSUME BaseInv, Validate \/ Cancel \/ Pause \/ Conclude \/ UNCHANGED runnerVars
    PROVE  BaseInv' /\ Pending' = Pending /\ UNCHANGED <<engineVars, payload>>
<1>1. PreparedInv /\ Basics /\ RunnerTypeInv /\ BooksInv /\ ctx \in Context
  BY DEF BaseInv, SafeInv, RunnerTypeInv
<1>2. UNCHANGED <<engineVars, payload, ctx, frame>>
  BY DEF Validate, Cancel, Pause, Conclude, runnerVars
<1>3. Basics' /\ Pending' = Pending
  BY <1>1, <1>2, BasicsUnchanged
<1>4. UNCHANGED <<runs, engineState, loop, batch, queue, seq>>
  BY <1>2 DEF engineVars, engine
<1>5. CASE Validate \/ Cancel \/ UNCHANGED runnerVars
  <2>1. UNCHANGED <<prepared, running, resumeFrom, file>> /\ lifecycle' \in Lifecycle
        /\ (lifecycle' \notin Terminal => lifecycle \notin Terminal)
    BY <1>1, <1>5 DEF Validate, Cancel, runnerVars, runner, Lifecycle, Terminal, RunnerTypeInv
  <2>2. RunnerTypeInv' /\ BooksInv'
    BY <1>1, <1>2, <2>1 DEF RunnerTypeInv, BooksInv, Contexts
  <2>3. PreparedInv'
    BY <1>1, <1>2, <1>4, <2>1 DEF PreparedInv
  <2>4. QED
    BY <1>2, <1>3, <2>2, <2>3 DEF BaseInv, SafeInv
<1>6. CASE Pause
  <2>1. /\ UNCHANGED <<prepared, running, resumeFrom>> /\ lifecycle' \in Lifecycle
        /\ (lifecycle' \notin Terminal => lifecycle \notin Terminal)
        /\ file' = [ctx EXCEPT !.invalidated = FALSE]
    BY <1>1, <1>6 DEF Pause, MovedTo, Lifecycle, Terminal, RunnerTypeInv
  <2>2. file' \in Context /\ file'.books = ctx.books
    BY <1>1, <2>1, WrittenFacts
  <2>3. RunnerTypeInv' /\ BooksInv'
    BY <1>1, <1>2, <2>1, <2>2 DEF RunnerTypeInv, BooksInv, Contexts
  <2>4. PreparedInv'
    BY <1>1, <1>2, <1>4, <2>1 DEF PreparedInv
  <2>5. QED
    BY <1>2, <1>3, <2>3, <2>4 DEF BaseInv, SafeInv
<1>7. CASE Conclude
  <2>1. /\ UNCHANGED <<prepared, resumeFrom, file>> /\ lifecycle' \in Terminal
        /\ running' = FALSE /\ ~loop.active
    BY <1>7 DEF Conclude, MovedTo, Terminal
  <2>2. RunnerTypeInv' /\ BooksInv'
    BY <1>1, <1>2, <2>1 DEF RunnerTypeInv, BooksInv, Contexts, Lifecycle
  <2>3. PreparedInv'
    BY <1>1, <1>2, <1>4, <2>1 DEF PreparedInv
  <2>4. QED
    BY <1>2, <1>3, <2>2, <2>3 DEF BaseInv, SafeInv
<1>8. QED
  BY <1>5, <1>6, <1>7

LEMMA BaseRun ==
    ASSUME BaseInv, Run
    PROVE  BaseInv'
<1>1. PreparedInv /\ RunnerTypeInv /\ BooksInv
  BY DEF BaseInv, SafeInv
<1>2. Basics'
  BY RunFacts
<1>3. /\ lifecycle' = "RUNNING" /\ running' = TRUE
      /\ UNCHANGED <<engineState, loop, batch, runs, prepared, resumeFrom, ctx, file, frame>>
  BY DEF Run
<1>4. RunnerTypeInv' /\ BooksInv'
  BY <1>1, <1>3 DEF RunnerTypeInv, BooksInv, Contexts, Lifecycle
<1>5. PreparedInv'
  BY <1>1, <1>3 DEF PreparedInv, Run
<1>6. QED
  BY <1>2, <1>4, <1>5 DEF BaseInv, SafeInv

LEMMA BaseNewProcess ==
    ASSUME BaseInv, NewProcess
    PROVE  BaseInv' /\ Pending' = {}
<1>1. RunnerTypeInv /\ BooksInv
  BY DEF BaseInv, SafeInv
<1>2. /\ lifecycle' = "CREATED" /\ prepared' = FALSE /\ running' = FALSE /\ resumeFrom' \in BOOLEAN
      /\ NewEngine /\ payload' = <<>> /\ ctx' = NewContext /\ UNCHANGED <<file, frame>>
  BY DEF NewProcess
<1>3. /\ Basics' /\ Pending' = {}
      /\ engineState' = "CREATED" /\ runs' = 0 /\ ~loop'.active /\ seq' = 0
  BY <1>2, NewEngineFacts
<1>4. RunnerTypeInv' /\ BooksInv'
  BY <1>1, <1>2, NewContextFacts DEF RunnerTypeInv, BooksInv, Contexts, Lifecycle
<1>5. PreparedInv'
  BY <1>2, <1>3 DEF PreparedInv, Pending
<1>6. QED
  BY <1>3, <1>4, <1>5 DEF BaseInv, SafeInv

LEMMA BaseStep == BaseInv /\ [RunnerNext]_runnerVars => BaseInv'
<1> SUFFICES ASSUME BaseInv, [RunnerNext]_runnerVars PROVE BaseInv'
  OBVIOUS
<1>1. resumeFrom \in BOOLEAN
  BY DEF BaseInv, SafeInv, RunnerTypeInv
<1>2. ASSUME NEW e \in batch, Handle(e) PROVE BaseInv'
  BY <1>2, BaseHandle
<1>3. CASE EngineStep
  BY <1>3, BaseEngine
<1>4. CASE Prepare
  BY <1>1, <1>4, BasePrepare DEF Prepare
<1>5. CASE Resume
  BY <1>5, BasePrepare DEF Resume
<1>6. CASE Run
  BY <1>6, BaseRun
<1>7. CASE NewProcess
  BY <1>7, BaseNewProcess
<1>8. CASE Validate \/ Cancel \/ Pause \/ Conclude \/ UNCHANGED runnerVars
  BY <1>8, BaseCalls
<1>9. QED
  BY <1>2, <1>3, <1>4, <1>5, <1>6, <1>7, <1>8 DEF RunnerNext, RunStep

LEMMA BaseHolds == RunnerSpec => []BaseInv
BY BaseInit, BaseStep, PTL DEF RunnerSpec

\* The runner, its context, its checkpoint, the engine and the payloads keep their types
\* through any pauses, crashes and resumptions (PipelineContext, EventDrivenEngine).
THEOREM BacktestTypes == RunnerSpec => []BacktestTypeOK
<1>1. ASSUME BaseInv PROVE BacktestTypeOK
  <2>1. EngineTypeOK /\ DOMAIN payload \subseteq 0 .. seq - 1 /\ RunnerTypeInv /\ ctx \in Context
    BY <1>1 DEF BaseInv, SafeInv, Basics, NumberedInv, RunnerTypeInv
  <2>2. ctx.time \in Time \cup {NoTime} /\ ctx.curve \in Seq(Point) /\ ctx.books \in Books
    BY <2>1, ContextFacts
  <2>3. /\ ctx.books.fills \in Seq(Fill) /\ ctx.books.position \in [Instrument -> Position]
        /\ ctx.books.price \in [Instrument -> Nat]
    BY <2>2 DEF Books
  <2>4. seq \in Nat
    BY <2>1 DEF EngineTypeOK
  <2>5. DOMAIN payload \subseteq 0 .. seq
    BY <2>1, <2>4
  <2>6. QED
    BY <2>1, <2>2, <2>3, <2>5 DEF BacktestTypeOK, RunnerTypeInv
<1>2. QED
  BY <1>1, BaseHolds, PTL

\* After every handler and in every checkpoint, equity by cash and market value is equity
\* by profits and fees, and the fills replay to the cash and the positions: for any data,
\* strategy, partial fills, flips, pauses and crashes (on_fill, apply_fill, reconciliation).
THEOREM BacktestBooksReconcile == RunnerSpec => []BooksReconcile
<1>1. ASSUME BaseInv PROVE BooksReconcile
  <2>1. ASSUME NEW c \in {ctx} \cup ({file} \ {NoFile})
        PROVE  /\ Equity(c.books) = Capital + c.books.realized + Unrealized(c.books) - c.books.fees
               /\ FillsReplay(c.books)
    <3> DEFINE b == c.books
    <3>1. c \in Context /\ Balanced(b)
      BY <1>1 DEF BaseInv, SafeInv, RunnerTypeInv, BooksInv, Contexts
    <3>2. b \in Books
      BY <3>1, ContextFacts
    <3> HIDE DEF b
    <3>3. b.cash \in Int /\ b.realized \in Int /\ b.fees \in Int /\ Capital \in Int
      BY <3>2, RunnerFacts DEF Books
    <3>4. /\ MarketValue(b) \in Int /\ Unrealized(b) \in Int /\ CostSum(b) \in Int
          /\ MarketValue(b) = Unrealized(b) + CostSum(b) /\ Equity(b) = b.cash + MarketValue(b)
      BY <3>2, ValueFacts
    <3>5. b.cash + CostSum(b) = Capital + b.realized - b.fees /\ FillsReplay(b)
      BY <3>1 DEF Balanced
    <3>6. Equity(b) = Capital + b.realized + Unrealized(b) - b.fees
      <4> DEFINE value == MarketValue(b)
                 gain == Unrealized(b)
                 cost == CostSum(b)
                 cash == b.cash
                 realized == b.realized
                 fees == b.fees
      <4>1. /\ value \in Int /\ gain \in Int /\ cost \in Int /\ value = gain + cost
            /\ Equity(b) = cash + value /\ cash + cost = Capital + realized - fees
            /\ cash \in Int /\ realized \in Int /\ fees \in Int /\ Capital \in Int
        BY <3>3, <3>4, <3>5
      <4> HIDE DEF value, gain, cost, cash, realized, fees
      <4>2. cash + value = Capital + realized + gain - fees
        BY <4>1
      <4>3. QED
        BY <4>1, <4>2 DEF gain, realized, fees
    <3>7. QED
      BY <3>5, <3>6 DEF b
  <2>2. QED
    BY <2>1 DEF BooksReconcile
<1>2. QED
  BY <1>1, BaseHolds, PTL

-----------------------------------------------------------------------------
(* One cascade for each instant.                                           *)

\* An event that carries its instant on is delivered alone, and what is left is bars of
\* later instants: fills come before their POSITION, bars that look ahead before their
\* FEATURE, and both are of the instant that this event is the carrier of.
LEMMA Alone ==
    ASSUME BaseInv, CascadeInv, NEW e \in batch, engineState = "RUNNING", IsFirst(e, batch), Carries(e)
    PROVE  /\ batch = {e} /\ Pending \ {e} = queue
           /\ \A f \in queue : Fed(f) /\ f.ts > clock
           /\ e.ts = clock /\ clock \in Time
           /\ \A f \in Pending : f.ts >= clock
<1>1. /\ Basics /\ e.ts = clock /\ clock \in Time /\ clock \in Nat /\ e \in Pending /\ Live
      /\ queue \cap batch = {} /\ \A f \in batch : f \in Pending /\ f.ts = clock /\ f.type \in CascadeTypes
  <2>1. Basics /\ Live
    BY DEF BaseInv, SafeInv, Live
  <2>2. queue \cap batch = {}
    BY <2>1 DEF Basics, NumberedInv
  <2>3. QED
    BY <2>1, <2>2, BatchFacts
<1>2. /\ \A f, g \in Pending : Carries(f) /\ Carries(g) /\ f.ts = g.ts => f = g
      /\ \A f \in Pending :
             IF Fed(f) THEN ctx.time = NoTime \/ f.ts > ctx.time
             ELSE ctx.time # NoTime /\ f.ts = ctx.time
      /\ \A f \in Pending : f.type = "FILL" => \E g \in Pending : g.type = "POSITION"
      /\ \A f \in Pending : LooksAhead(f) => \E g \in Pending : g.type = "FEATURE"
      /\ \A f \in queue : f.ts > clock
  BY <1>1 DEF CascadeInv
<1>3. ASSUME NEW g \in Pending, g.type \in {"POSITION", "FEATURE"}, NEW f \in batch, ~Fed(f)
      PROVE  g = e
  <2>1. Carries(g) /\ ~Fed(g)
    BY <1>3 DEF Carries, Fed, LooksAhead
  <2>2. g.ts = ctx.time /\ f.ts = ctx.time
    BY <1>1, <1>2, <1>3, <2>1
  <2>3. QED
    BY <1>1, <1>2, <2>1, <2>2
<1>4. ASSUME NEW f \in batch, f # e
      PROVE  FALSE
  <2>1. f.ts = e.ts /\ f \in Pending /\ Before(e, f)
    BY <1>1, <1>4 DEF IsFirst
  <2>2. CASE f.type = "FILL"
    <3>1. PICK g \in Pending : g.type = "POSITION"
      BY <1>2, <2>1, <2>2
    <3>2. ~Fed(f)
      BY <2>2 DEF Fed
    <3>3. e.type = "POSITION"
      BY <1>3, <3>1, <3>2
    <3>4. Priority["POSITION"] = 100 /\ Priority["FILL"] = 90
      BY RunnerAssumption DEF CascadePriority
    <3>5. ~(clock < clock)
      BY <1>1
    <3>6. QED
      BY <1>1, <2>1, <2>2, <3>3, <3>4, <3>5 DEF Before
  <2>3. CASE LooksAhead(f)
    <3>1. PICK g \in Pending : g.type = "FEATURE"
      BY <1>2, <2>1, <2>3
    <3>2. ~Fed(f) /\ f.type = "MARKET"
      BY <2>3 DEF Fed, LooksAhead
    <3>3. e.type = "FEATURE"
      BY <1>3, <3>1, <3>2
    <3>4. Priority["FEATURE"] = 20 /\ Priority["MARKET"] = 10
      BY RunnerAssumption DEF CascadePriority
    <3>5. ~(clock < clock)
      BY <1>1
    <3>6. QED
      BY <1>1, <2>1, <3>2, <3>3, <3>4, <3>5 DEF Before
  <2>4. QED
    BY <1>1, <1>2, <1>4, <2>1, <2>2, <2>3 DEF Carries
<1>5. batch = {e} /\ Pending \ {e} = queue
  BY <1>1, <1>4 DEF Pending
<1>6. ASSUME NEW f \in queue
      PROVE  Fed(f)
  <2>1. f \in Pending /\ f.ts > clock /\ f.ts \in Nat
    BY <1>1, <1>2, TimeFacts DEF Pending, Basics, NumberedInv
  <2>2. SUFFICES ASSUME ~Fed(f) PROVE FALSE
    OBVIOUS
  <2>3. ctx.time # NoTime /\ f.ts = ctx.time
    BY <1>2, <2>1, <2>2
  <2>4. e.ts >= ctx.time
    BY <1>1, <1>2, <2>1, <2>3
  <2>5. QED
    BY <1>1, <2>1, <2>3, <2>4
<1>7. \A f \in queue : f.ts \in Nat
  BY <1>1, TimeFacts DEF Pending, Basics, NumberedInv
<1>8. \A f \in Pending : f.ts >= clock
  BY <1>1, <1>2, <1>5, <1>7 DEF Pending
<1>9. QED
  BY <1>1, <1>2, <1>5, <1>6, <1>8

\* Delivering the carrier leaves one carrier for the instant, after all that it put.
LEMMA CascadeCarriesOn ==
    ASSUME BaseInv, CascadeInv, NEW e \in batch, NEW puts, NEW q, CarriesOn(e, puts, q),
           ctx'.time = clock,
           q.type # "RISK_UPDATE" => \A n \in DOMAIN ctx'.curve : ctx'.curve[n].ts < clock,
           q.type = "RISK_UPDATE" => puts = {q},
           \A n \in DOMAIN ctx'.curve : ctx'.curve[n].ts \in Nat /\ ctx'.curve[n].ts <= clock
    PROVE  CascadeInv'
<1>1. /\ Returned(e, puts) /\ Carries(e) /\ q \in puts /\ q.type \notin {"MARKET", "FILL"}
      /\ \A p \in puts : \/ p = q
                         \/ p.type = "FILL" /\ q.type = "POSITION"
                         \/ p.type = "MARKET" /\ LooksAhead(p)' /\ q.type = "FEATURE"
  BY DEF CarriesOn
<1>2. /\ engineState = "RUNNING" /\ IsFirst(e, batch) /\ clock' = clock
      /\ batch' = batch \ {e} /\ queue' = queue \cup puts /\ Pending' = (Pending \ {e}) \cup puts
      /\ \A p \in puts : p.ts = clock
      /\ \A f \in Pending \ {e} : LooksAhead(f)' <=> LooksAhead(f)
  BY <1>1 DEF Returned
<1>3. /\ batch = {e} /\ Pending \ {e} = queue
      /\ \A f \in queue : Fed(f) /\ f.ts > clock
      /\ clock \in Time /\ clock \in Nat /\ \A f \in queue : f.ts \in Nat
  <2>1. batch = {e} /\ Pending \ {e} = queue /\ clock \in Time /\ \A f \in queue : Fed(f) /\ f.ts > clock
    BY <1>1, <1>2, Alone
  <2>2. \A f \in queue : f.ts \in Time
    BY DEF BaseInv, SafeInv, Basics, NumberedInv, Pending
  <2>3. QED
    BY <2>1, <2>2, TimeFacts
<1>4. /\ batch' = {} /\ Pending' = queue \cup puts
      /\ \A f \in queue : Fed(f)' /\ f.type = "MARKET" /\ f.ts > clock
  BY <1>2, <1>3 DEF Fed
<1>5. \A p \in puts : ~Fed(p)' /\ (p = q \/ ~Carries(p)')
  BY <1>1 DEF Fed, Carries
<1>6. ctx'.time # NoTime
  BY <1>3, TimeFacts
<1>7. \A f, g \in Pending' : Carries(f)' /\ Carries(g)' /\ f.ts = g.ts => f = g
  <2>1. ASSUME NEW f \in queue, NEW g \in queue, f.ts = g.ts PROVE f = g
    <3>1. Live /\ f \in Pending /\ g \in Pending /\ Carries(f) /\ Carries(g)
      BY <1>2, <1>3 DEF Live, Carries, Fed, Pending
    <3>2. QED
      BY <2>1, <3>1 DEF CascadeInv
  <2>2. QED
    BY <1>2, <1>3, <1>4, <1>5, <2>1
<1>8. \A f \in Pending' :
         IF Fed(f)' THEN ctx'.time = NoTime \/ f.ts > ctx'.time
         ELSE ctx'.time # NoTime /\ f.ts = ctx'.time
  BY <1>2, <1>4, <1>5, <1>6
<1>9. /\ \A f \in Pending' : f.type = "FILL" => \E g \in Pending' : g.type = "POSITION"
      /\ \A f \in Pending' : LooksAhead(f)' => \E g \in Pending' : g.type = "FEATURE"
  <2>1. q \in Pending' /\ \A f \in queue : f.type # "FILL" /\ ~LooksAhead(f)'
    BY <1>1, <1>4 DEF Fed
  <2>2. \A p \in puts : p.type = "FILL" => q.type = "POSITION"
    BY <1>1
  <2>3. \A p \in puts : LooksAhead(p)' => q.type = "FEATURE"
    BY <1>1 DEF LooksAhead
  <2>4. QED
    BY <1>4, <2>1, <2>2, <2>3
<1>10. \A f \in Pending' : f.type # "RISK_UPDATE" =>
          \A n \in DOMAIN ctx'.curve : ctx'.curve[n].ts < f.ts
  <2>1. ASSUME NEW f \in queue, NEW n \in DOMAIN ctx'.curve PROVE ctx'.curve[n].ts < f.ts
    <3> DEFINE c == ctx'.curve[n].ts
               t == f.ts
    <3>1. c <= clock /\ clock < t /\ c \in Nat /\ t \in Nat
      BY <1>3
    <3> HIDE DEF c, t
    <3>2. c < t
      BY <1>3, <3>1
    <3>3. QED
      BY <3>2 DEF c, t
  <2>2. \A p \in puts : p.type # "RISK_UPDATE" => q.type # "RISK_UPDATE"
    BY <1>1
  <2>3. QED
    BY <1>2, <1>4, <2>1, <2>2
<1>11. QED
  BY <1>4, <1>7, <1>8, <1>9, <1>10 DEF CascadeInv

\* Delivering an event that nothing waits for, and that puts nothing.
LEMMA CascadeRemoves ==
    ASSUME CascadeInv, NEW e \in batch, Returned(e, {}), e.type \notin {"POSITION", "FEATURE"},
           ctx'.time = ctx.time, ctx'.curve = ctx.curve
    PROVE  CascadeInv'
<1>1. /\ Live /\ clock' = clock /\ queue' = queue /\ batch' \subseteq batch
      /\ Pending' = Pending \ {e} /\ Pending' \subseteq Pending
      /\ \A f \in Pending' : LooksAhead(f)' <=> LooksAhead(f)
  BY DEF Returned, Live
<1>2. \A f \in Pending' : (Carries(f)' <=> Carries(f)) /\ (Fed(f)' <=> Fed(f))
  BY <1>1 DEF Carries, Fed
<1>3. \A f, g \in Pending' : Carries(f)' /\ Carries(g)' /\ f.ts = g.ts => f = g
  BY <1>1, <1>2 DEF CascadeInv
<1>4. \A f \in Pending' :
         IF Fed(f)' THEN ctx'.time = NoTime \/ f.ts > ctx'.time
         ELSE ctx'.time # NoTime /\ f.ts = ctx'.time
  BY <1>1, <1>2 DEF CascadeInv
<1>5. /\ \A f \in Pending' : f.type = "FILL" => \E g \in Pending' : g.type = "POSITION"
      /\ \A f \in Pending' : LooksAhead(f)' => \E g \in Pending' : g.type = "FEATURE"
  BY <1>1 DEF CascadeInv
<1>6. batch' # {} => \A f \in queue' : f.ts > clock'
  BY <1>1 DEF CascadeInv
<1>7. \A f \in Pending' : f.type # "RISK_UPDATE" =>
         \A n \in DOMAIN ctx'.curve : ctx'.curve[n].ts < f.ts
  BY <1>1 DEF CascadeInv
<1>8. QED
  BY <1>3, <1>4, <1>5, <1>6, <1>7 DEF CascadeInv

LEMMA PointFacts ==
    ASSUME NEW c \in Context, NEW n \in DOMAIN c.curve
    PROVE  /\ c.curve[n].ts \in Time /\ c.curve[n].ts \in Nat /\ c.curve[n].equity \in Int
           /\ DOMAIN c.curve = 1 .. Len(c.curve) /\ Len(c.curve) \in Nat
<1>1. c.curve \in Seq(Point)
  BY ContextFacts
<1>2. c.curve[n] \in Point /\ DOMAIN c.curve = 1 .. Len(c.curve) /\ Len(c.curve) \in Nat
  BY <1>1
<1>3. c.curve[n].ts \in Time /\ c.curve[n].equity \in Int
  BY <1>2 DEF Point
<1>4. QED
  BY <1>2, <1>3, TimeFacts

\* What is still to come of an instant lies at the context's time, except for its bars.
LEMMA EventTime ==
    ASSUME BaseInv, CurveInv, NEW e \in batch, engineState = "RUNNING"
    PROVE  /\ e.ts = clock /\ clock \in Time /\ clock \in Nat
           /\ ~Fed(e) => ctx.time = clock
           /\ Fed(e) => ctx.time = NoTime \/ clock > ctx.time
           /\ e.type # "RISK_UPDATE" => \A n \in DOMAIN ctx.curve : ctx.curve[n].ts < clock
           /\ ctx \in Context /\ Ordered(ctx)
<1>1. Basics /\ ctx \in Context /\ Ordered(ctx) /\ Live /\ CascadeInv
  BY DEF BaseInv, SafeInv, RunnerTypeInv, CurveInv, Contexts, Live
<1>2. e.ts = clock /\ clock \in Time /\ clock \in Nat /\ e \in Pending
  BY <1>1, BatchFacts
<1>3. QED
  BY <1>1, <1>2 DEF CascadeInv

LEMMA CurveMarket ==
    ASSUME BaseInv, CurveInv, NEW e \in batch, NEW puts, NEW q, MarketStep(e, puts, q)
    PROVE  Ordered(ctx') /\ CascadeInv'
<1>1. CarriesOn(e, puts, q) /\ Fed(e) /\ ctx' = Marked(e) /\ engineState = "RUNNING"
      /\ q.type = "FEATURE" /\ e.type = "MARKET"
  BY DEF MarketStep, CarriesOn, Carries, Fed, Returned
<1>2. /\ clock \in Time /\ clock \in Nat /\ ctx \in Context /\ Ordered(ctx)
      /\ \A n \in DOMAIN ctx.curve : ctx.curve[n].ts < clock
  BY <1>1, EventTime
<1>3. ctx'.time = clock /\ ctx'.curve = ctx.curve
  <2>1. SafeInv
    BY DEF BaseInv
  <2>2. Marked(e).time = e.ts /\ e.ts = clock /\ Marked(e).curve = ctx.curve
    BY <1>1, <2>1, MarkedFacts
  <2>3. QED
    BY <1>1, <2>2
<1>4. \A n \in DOMAIN ctx.curve : ctx.curve[n].ts \in Nat /\ ctx.curve[n].ts <= clock
  BY <1>2, PointFacts
<1>5. CascadeInv'
  BY <1>1, <1>2, <1>3, <1>4, CascadeCarriesOn DEF CurveInv
<1>6. Ordered(ctx')
  BY <1>2, <1>3, <1>4, TimeFacts DEF Ordered
<1>7. QED
  BY <1>5, <1>6

LEMMA CurvePlan ==
    ASSUME BaseInv, CurveInv, NEW e \in batch, NEW puts, NEW q, PlanStep(e, puts, q)
    PROVE  Ordered(ctx') /\ CascadeInv'
<1>1. /\ CarriesOn(e, puts, q) /\ ctx' = ctx /\ engineState = "RUNNING"
      /\ e.type # "MARKET" /\ e.type # "RISK_UPDATE" /\ q.type # "RISK_UPDATE" /\ ~Fed(e)
  BY DEF PlanStep, CarriesOn, Fed, Returned
<1>2. /\ clock \in Time /\ clock \in Nat /\ ctx \in Context /\ Ordered(ctx) /\ ctx.time = clock
      /\ \A n \in DOMAIN ctx.curve : ctx.curve[n].ts < clock
  BY <1>1, EventTime
<1>3. \A n \in DOMAIN ctx.curve : ctx.curve[n].ts \in Nat /\ ctx.curve[n].ts <= clock
  BY <1>2, PointFacts
<1>4. CascadeInv'
  BY <1>1, <1>2, <1>3, CascadeCarriesOn DEF CurveInv
<1>5. QED
  BY <1>1, <1>2, <1>4

LEMMA CurvePnl ==
    ASSUME BaseInv, CurveInv, NEW e \in batch, NEW puts, NEW q, PnlStep(e, puts, q)
    PROVE  Ordered(ctx') /\ CascadeInv'
<1> DEFINE point == [ts |-> e.ts, equity |-> Equity(ctx.books)]
           k == Len(ctx.curve)
<1>1. /\ CarriesOn(e, puts, q) /\ engineState = "RUNNING" /\ puts = {q} /\ q.type = "RISK_UPDATE"
      /\ e.type # "MARKET" /\ e.type # "RISK_UPDATE" /\ ~Fed(e)
      /\ ctx' = [ctx EXCEPT !.curve = Append(ctx.curve, point)]
  BY DEF PnlStep, CarriesOn, Fed, Returned
<1>2. /\ e.ts = clock /\ clock \in Time /\ clock \in Nat /\ ctx \in Context /\ Ordered(ctx)
      /\ ctx.time = clock /\ \A n \in DOMAIN ctx.curve : ctx.curve[n].ts < clock
  BY <1>1, EventTime
<1>3. ctx.curve \in Seq(Point) /\ k \in Nat /\ DOMAIN ctx.curve = 1 .. k
      /\ \A n \in DOMAIN ctx.curve : ctx.curve[n].ts \in Nat
  BY <1>2, PointFacts, ContextFacts
<1>4. /\ ctx'.time = clock /\ DOMAIN ctx'.curve = 1 .. k + 1
      /\ \A n \in 1 .. k : ctx'.curve[n] = ctx.curve[n]
      /\ ctx'.curve[k + 1].ts = clock
  <2>1. ctx'.time = ctx.time /\ ctx'.curve = Append(ctx.curve, point)
    BY <1>1, <1>2 DEF Context
  <2>2. point.ts = clock
    BY <1>2
  <2> HIDE DEF point
  <2>3. QED
    BY <1>2, <1>3, <2>1, <2>2
<1> HIDE DEF k
<1>5. \A n \in 1 .. k + 1 : n \in 1 .. k \/ n = k + 1
  BY <1>3
<1>6. \A n \in DOMAIN ctx'.curve : ctx'.curve[n].ts \in Nat /\ ctx'.curve[n].ts <= clock
  <2>1. ASSUME NEW n \in 1 .. k PROVE ctx'.curve[n].ts \in Nat /\ ctx'.curve[n].ts <= clock
    <3> DEFINE t == ctx.curve[n].ts
    <3>1. t \in Nat /\ t < clock /\ ctx'.curve[n].ts = t
      BY <1>2, <1>3, <1>4
    <3> HIDE DEF t
    <3>2. QED
      BY <1>2, <3>1
  <2>2. clock <= clock
    BY <1>2
  <2>3. QED
    BY <1>2, <1>4, <1>5, <2>1, <2>2
<1>7. CascadeInv'
  BY <1>1, <1>4, <1>6, CascadeCarriesOn DEF CurveInv
<1>8. Ordered(ctx')
  <2>1. ASSUME NEW m \in DOMAIN ctx'.curve, NEW n \in DOMAIN ctx'.curve, m < n
        PROVE  ctx'.curve[m].ts < ctx'.curve[n].ts
    <3>1. m \in 1 .. k
      BY <1>3, <1>4, <2>1
    <3>2. CASE n \in 1 .. k
      BY <1>2, <1>3, <1>4, <2>1, <3>1, <3>2 DEF Ordered
    <3>3. CASE n = k + 1
      BY <1>2, <1>3, <1>4, <3>1, <3>3
    <3>4. QED
      BY <1>4, <1>5, <3>2, <3>3
  <2>2. ctx'.time # NoTime
    BY <1>2, <1>4, TimeFacts
  <2>3. QED
    BY <1>4, <1>6, <2>1, <2>2 DEF Ordered
<1>9. QED
  BY <1>7, <1>8

\* A handler keeps the cascades and the curve.
LEMMA CurveHandle ==
    ASSUME BaseInv, CurveInv, NEW e \in batch, Handle(e)
    PROVE  CurveInv'
<1>1. SafeInv /\ Basics /\ ctx \in Context /\ CascadeInv /\ Ordered(ctx)
  BY DEF BaseInv, SafeInv, RunnerTypeInv, CurveInv, Contexts
<1>2. Stepped(e) /\ ctx' \in Context
  BY <1>1, HandleSteps, SteppedContext
<1>3. UNCHANGED <<runner, frame, runs>> /\ engineState = "RUNNING"
  BY <1>2, SteppedKeeps
<1>4. e.ts = clock /\ clock \in Time /\ clock \in Nat /\ (~Fed(e) => ctx.time = clock)
      /\ (e.type # "RISK_UPDATE" => \A n \in DOMAIN ctx.curve : ctx.curve[n].ts < clock)
  BY <1>3, EventTime
<1>5. Ordered(ctx') /\ CascadeInv'
  <2>1. CASE FillStep(e)
    <3>1. Returned(e, {}) /\ e.type = "FILL" /\ ctx'.time = ctx.time /\ ctx'.curve = ctx.curve
      BY <1>1, <2>1 DEF FillStep, Context
    <3>2. QED
      BY <1>1, <3>1, CascadeRemoves DEF Ordered
  <2>2. CASE RiskStep(e)
    <3>1. Returned(e, {}) /\ e.type = "RISK_UPDATE" /\ ctx'.time = ctx.time /\ ctx'.curve = ctx.curve
      BY <1>1, <2>2 DEF RiskStep, Context
    <3>2. QED
      BY <1>1, <3>1, CascadeRemoves DEF Ordered
  <2>3. CASE RaiseStep(e)
    <3>1. ~Live'
      BY <2>3 DEF RaiseStep, Live
    <3>2. CASE ctx' = ctx
      BY <1>1, <3>1, <3>2 DEF CascadeInv
    <3>3. CASE LooksAhead(e) /\ ctx' = [ctx EXCEPT !.time = e.ts, !.invalidated = TRUE]
      <4>1. ctx'.time = ctx.time /\ ctx'.curve = ctx.curve
        BY <1>1, <1>4, <3>3 DEF Context, Fed
      <4>2. QED
        BY <1>1, <3>1, <4>1 DEF CascadeInv, Ordered
    <3>4. CASE Fed(e) /\ ctx' = Marked(e)
      <4>1. ctx'.time = clock /\ ctx'.curve = ctx.curve
        <5>1. Marked(e).time = e.ts /\ Marked(e).curve = ctx.curve
          BY <1>1, <3>4, MarkedFacts
        <5>2. QED
          BY <1>4, <3>4, <5>1
      <4>2. \A n \in DOMAIN ctx.curve : ctx.curve[n].ts <= clock
        BY <1>1, <1>4, <3>4, PointFacts DEF Fed
      <4>3. QED
        BY <1>1, <1>4, <3>1, <4>1, <4>2, TimeFacts DEF CascadeInv, Ordered
    <3>5. QED
      BY <2>3, <3>2, <3>3, <3>4 DEF RaiseStep
  <2>4. QED
    BY <1>2, <2>1, <2>2, <2>3, CurveMarket, CurvePlan, CurvePnl DEF Stepped
<1>6. QED
  BY <1>3, <1>5 DEF CurveInv, Contexts, runner

LEMMA CascadeSame ==
    ASSUME CascadeInv, Live' => Live, Pending' = Pending, UNCHANGED <<payload, ctx>>,
           batch' # {} => \A e \in queue' : e.ts > clock'
    PROVE  CascadeInv'
<1>1. \A f : (LooksAhead(f)' <=> LooksAhead(f)) /\ (Carries(f)' <=> Carries(f)) /\ (Fed(f)' <=> Fed(f))
  BY DEF LooksAhead, Carries, Fed
<1>2. CASE ~Live'
  BY <1>2 DEF CascadeInv
<1>3. CASE Live'
  <2>1. \A f, g \in Pending' : Carries(f)' /\ Carries(g)' /\ f.ts = g.ts => f = g
    BY <1>1, <1>3 DEF CascadeInv
  <2>2. \A f \in Pending' :
           IF Fed(f)' THEN ctx'.time = NoTime \/ f.ts > ctx'.time
           ELSE ctx'.time # NoTime /\ f.ts = ctx'.time
    BY <1>1, <1>3 DEF CascadeInv
  <2>3. /\ \A f \in Pending' : f.type = "FILL" => \E g \in Pending' : g.type = "POSITION"
        /\ \A f \in Pending' : LooksAhead(f)' => \E g \in Pending' : g.type = "FEATURE"
    BY <1>1, <1>3 DEF CascadeInv
  <2>4. \A f \in Pending' : f.type # "RISK_UPDATE" =>
           \A n \in DOMAIN ctx'.curve : ctx'.curve[n].ts < f.ts
    BY <1>3 DEF CascadeInv
  <2>5. QED
    BY <2>1, <2>2, <2>3, <2>4 DEF CascadeInv
<1>4. QED
  BY <1>2, <1>3

LEMMA CascadeEmpty ==
    ASSUME Pending' = {}
    PROVE  CascadeInv'
<1>1. batch' = {}
  BY DEF Pending
<1>2. QED
  BY <1>1 DEF CascadeInv

LEMMA OrderedLike ==
    ASSUME NEW c, NEW d, Ordered(c), d.time = c.time, d.curve = c.curve
    PROVE  Ordered(d)
BY DEF Ordered

LEMMA OrderedNew == Ordered(NewContext)
<1>1. NewContext.curve = <<>> /\ DOMAIN <<>> = {}
  BY DEF NewContext
<1>2. QED
  BY <1>1 DEF Ordered

LEMMA CurveEngine ==
    ASSUME BaseInv, CurveInv, EngineStep
    PROVE  CurveInv'
<1>1. Basics /\ PreparedInv /\ CascadeInv
  BY DEF BaseInv, SafeInv, CurveInv
<1>2. /\ UNCHANGED <<runner, ctx, payload, frame>>
      /\ Begins \/ Drains \/ Completes \/ Drops
      /\ engineState # "INVALIDATED" => Pending' = Pending
  BY <1>1, EngineStepFacts
<1>3. CascadeInv'
  <2>1. CASE Begins
    <3>1. batch' = {} /\ Live /\ Pending' = Pending
      BY <1>1, <1>2, <2>1 DEF Begins, PreparedInv, Live
    <3>2. QED
      BY <1>1, <1>2, <3>1, CascadeSame
  <2>2. CASE Drains
    <3>1. Live /\ Pending' = Pending /\ \A e \in queue' : e.ts > clock'
      BY <1>1, <1>2, <2>2 DEF Drains, AtTurn, Live
    <3>2. QED
      BY <1>1, <1>2, <3>1, CascadeSame
  <2>3. CASE Completes \/ Drops
    BY <2>3 DEF Completes, Drops, CascadeInv, Live
  <2>4. QED
    BY <1>2, <2>1, <2>2, <2>3
<1>4. QED
  BY <1>2, <1>3 DEF CurveInv, Contexts, runner

LEMMA CurveRun ==
    ASSUME BaseInv, CurveInv, Run
    PROVE  CurveInv'
<1>1. /\ batch' = {} /\ After \in Time \cup {NoTime}
      /\ \A f \in Pending' : Fed(f)' /\ f.ts \in ToFeed(After) /\ f.ts \in Time
      /\ \A f, g \in Pending' : f.ts = g.ts => f = g
  BY RunFacts
<1>2. /\ UNCHANGED <<ctx, file>> /\ ctx \in Context /\ Ordered(ctx)
  BY DEF Run, BaseInv, SafeInv, RunnerTypeInv, CurveInv, Contexts
<1>3. After = ctx.time
  <2>1. resumeFrom \/ ctx = NewContext
    BY DEF BaseInv, PreparedInv, Run
  <2>2. NewContext.time = NoTime
    BY DEF NewContext
  <2>3. QED
    BY <2>1, <2>2 DEF After
<1>4. \A f \in Pending' : ctx.time = NoTime \/ f.ts > ctx.time
  BY <1>1, <1>3 DEF ToFeed
<1>5. ASSUME NEW f \in Pending', NEW n \in DOMAIN ctx.curve
      PROVE  ctx.curve[n].ts < f.ts
  <2> DEFINE s == ctx.curve[n].ts
             t == f.ts
             u == ctx.time
  <2>1. s \in Nat /\ u # NoTime /\ s <= u
    BY <1>2, PointFacts DEF Ordered
  <2>2. u \in Time /\ t \in Time /\ t > u
    BY <1>1, <1>3, <1>4, <2>1
  <2> HIDE DEF s, t, u
  <2>3. s < t
    BY <2>1, <2>2, TimeFacts
  <2>4. QED
    BY <2>3 DEF s, t
<1>6. \A f \in Pending' : f.type = "MARKET" /\ ~LooksAhead(f)'
  BY <1>1 DEF Fed
<1>7. CascadeInv'
  BY <1>1, <1>2, <1>4, <1>5, <1>6 DEF CascadeInv
<1>8. QED
  BY <1>2, <1>7 DEF CurveInv, Contexts

LEMMA CurveInit == RunnerInit => CurveInv
<1> SUFFICES ASSUME RunnerInit PROVE CurveInv
  OBVIOUS
<1>1. Pending = {} /\ batch = {} /\ ctx = NewContext /\ file = NoFile
  BY DEF RunnerInit, EngineInit, Pending
<1>2. \A c \in Contexts : Ordered(c)
  BY <1>1, OrderedNew DEF Contexts
<1>3. CascadeInv
  BY <1>1 DEF CascadeInv
<1>4. QED
  BY <1>2, <1>3 DEF CurveInv

LEMMA CurveStep == BaseInv /\ CurveInv /\ [RunnerNext]_runnerVars => CurveInv'
<1> SUFFICES ASSUME BaseInv, CurveInv, [RunnerNext]_runnerVars PROVE CurveInv'
  OBVIOUS
<1>0. /\ resumeFrom \in BOOLEAN /\ ctx \in Context /\ CascadeInv /\ Ordered(ctx)
      /\ file # NoFile => file \in Context /\ Ordered(file)
  BY DEF BaseInv, SafeInv, RunnerTypeInv, CurveInv, Contexts
<1>1. ASSUME NEW e \in batch, Handle(e) PROVE CurveInv'
  BY <1>1, CurveHandle
<1>2. CASE EngineStep
  BY <1>2, CurveEngine
<1>3. ASSUME NEW resuming \in BOOLEAN, PrepareFrom(resuming) PROVE CurveInv'
  <2>1. CascadeInv'
    BY <1>3, BasePrepare, CascadeEmpty
  <2>2. file' = file /\ ctx' = IF resuming /\ file # NoFile THEN Restored ELSE NewContext
    BY <1>3 DEF PrepareFrom
  <2>3. Ordered(ctx')
    BY <1>0, <2>2, RestoredFacts, OrderedLike, OrderedNew
  <2>4. QED
    BY <1>0, <2>1, <2>2, <2>3 DEF CurveInv, Contexts
<1>4. CASE Run
  BY <1>4, CurveRun
<1>5. CASE NewProcess
  <2>1. CascadeInv'
    BY <1>5, BaseNewProcess, CascadeEmpty
  <2>2. QED
    BY <1>0, <1>5, <2>1, OrderedNew DEF CurveInv, Contexts, NewProcess
<1>6. CASE Validate \/ Cancel \/ Pause \/ Conclude \/ UNCHANGED runnerVars
  <2>1. Pending' = Pending /\ UNCHANGED <<engineVars, payload>>
    BY <1>6, BaseCalls
  <2>2. UNCHANGED <<queue, batch, clock, engineState, payload>> /\ ctx' = ctx
    BY <1>6, <2>1 DEF engineVars, engine, Validate, Cancel, Pause, Conclude, runnerVars
  <2>3. CascadeInv'
    <3>1. Live' => Live
      BY <2>2 DEF Live
    <3>2. CASE Live
      <4>1. batch' # {} => \A e \in queue' : e.ts > clock'
        BY <1>0, <2>2, <3>2 DEF CascadeInv
      <4>2. QED
        BY <1>0, <2>1, <2>2, <3>1, <4>1, CascadeSame
    <3>3. CASE ~Live
      BY <3>1, <3>3 DEF CascadeInv
    <3>4. QED
      BY <3>2, <3>3
  <2>4. CASE Pause
    <3>1. file' = [ctx EXCEPT !.invalidated = FALSE]
      BY <2>4 DEF Pause
    <3>2. Ordered(file')
      BY <1>0, <3>1, WrittenFacts, OrderedLike
    <3>3. QED
      BY <1>0, <2>2, <2>3, <3>2 DEF CurveInv, Contexts
  <2>5. CASE ~Pause
    <3>1. file' = file
      BY <1>6, <2>5 DEF Validate, Cancel, Conclude, runnerVars, runner
    <3>2. QED
      BY <1>0, <2>2, <2>3, <3>1 DEF CurveInv, Contexts
  <2>6. QED
    BY <2>4, <2>5
<1>7. QED
  BY <1>0, <1>1, <1>2, <1>3, <1>4, <1>5, <1>6 DEF RunnerNext, RunStep, Prepare, Resume

LEMMA CurveHolds == RunnerSpec => [](BaseInv /\ CurveInv)
BY BaseInit, BaseStep, CurveInit, CurveStep, PTL DEF RunnerSpec

\* The equity curve has its points in order of time and at most one for an instant, for
\* any strategy that slips bars in, and over any pauses, crashes and resumptions that
\* feed the bars of a data set again (submit_market_events, on_pnl, load_checkpoint).
THEOREM BacktestOnePointPerBar == RunnerSpec => []OnePointPerBar
<1>1. CurveInv => OnePointPerBar
  BY DEF CurveInv, Contexts, Ordered, OnePointPerBar
<1>2. QED
  BY <1>1, CurveHolds, PTL

-----------------------------------------------------------------------------
(* Positions stay between targets.                                         *)

LEMMA QtyFacts ==
    ASSUME ctx \in Context, NEW i \in Instrument
    PROVE  ctx.books.position[i].qty \in Int /\ \A p \in Portfolios : p[i] \in Int
BY ContextFacts, RunnerFacts DEF Books, Position

\* Less of what leads towards a target leads towards it.
LEMMA TowardsLess ==
    ASSUME ctx \in Context, NEW i \in Instrument, NEW lots \in Int, NEW less \in Int,
           Towards(i, lots), (0 <= less /\ less <= lots) \/ (lots <= less /\ less <= 0)
    PROVE  Towards(i, less)
<1>1. CASE lots = 0
  BY <1>1 DEF Towards
<1>2. ASSUME NEW p \in Portfolios,
             LET gap == p[i] - ctx.books.position[i].qty
             IN  (0 <= lots /\ lots <= gap) \/ (gap <= lots /\ lots <= 0)
      PROVE  Towards(i, less)
  <2> DEFINE gap == p[i] - ctx.books.position[i].qty
  <2>1. gap \in Int
    BY QtyFacts
  <2>2. (0 <= lots /\ lots <= gap) \/ (gap <= lots /\ lots <= 0)
    BY <1>2
  <2> HIDE DEF gap
  <2>3. (0 <= less /\ less <= gap) \/ (gap <= less /\ less <= 0)
    BY <2>1, <2>2
  <2>4. QED
    BY <2>3 DEF Towards, gap
<1>3. QED
  BY <1>1, <1>2 DEF Towards

\* A plan leads to its portfolio, wherever there is a price.
LEMMA PlansLeadTowards ==
    ASSUME ctx \in Context, NEW orders \in {NoOrders} \cup {OrdersTo(t) : t \in Portfolios},
           NEW i \in Instrument
    PROVE  Towards(i, orders[i])
<1>1. CASE orders = NoOrders
  BY <1>1 DEF NoOrders, Towards
<1>2. ASSUME NEW p \in Portfolios, orders = OrdersTo(p)
      PROVE  Towards(i, orders[i])
  <2> DEFINE gap == p[i] - ctx.books.position[i].qty
  <2>1. gap \in Int
    BY QtyFacts
  <2>2. orders[i] = 0 \/ orders[i] = gap
    BY <1>2 DEF OrdersTo
  <2> HIDE DEF gap
  <2>3. (0 <= gap /\ gap <= gap) \/ (gap <= gap /\ gap <= 0)
    BY <2>1
  <2>4. QED
    BY <2>2, <2>3 DEF Towards, gap
<1>3. QED
  BY <1>1, <1>2

\* A step towards a target ends between it and the targets on either side.
LEMMA TowardsStaysInside ==
    ASSUME ctx \in Context, Inside(ctx.books), NEW i \in Instrument, NEW lots \in Int, Towards(i, lots)
    PROVE  \E p, q \in Portfolios \cup {NoOrders} : ctx.books.position[i].qty + lots \in p[i] .. q[i]
<1> DEFINE x == ctx.books.position[i].qty
<1>1. x \in Int
  BY QtyFacts
<1>2. \A p \in Portfolios \cup {NoOrders} : p[i] \in Int
  BY QtyFacts DEF NoOrders
<1>3. PICK a, b \in Portfolios \cup {NoOrders} : x \in a[i] .. b[i]
  BY DEF Inside
<1> HIDE DEF x
<1>4. a[i] \in Int /\ b[i] \in Int /\ a[i] <= x /\ x <= b[i]
  BY <1>1, <1>2, <1>3
<1>5. CASE lots = 0
  <2>1. x + lots \in a[i] .. b[i]
    BY <1>1, <1>4, <1>5
  <2>2. QED
    BY <2>1 DEF x
<1>6. ASSUME NEW t \in Portfolios, (0 <= lots /\ lots <= t[i] - x) \/ (t[i] - x <= lots /\ lots <= 0)
      PROVE  \E p, q \in Portfolios \cup {NoOrders} : x + lots \in p[i] .. q[i]
  <2>1. t[i] \in Int
    BY <1>2
  <2>2. CASE 0 <= lots /\ lots <= t[i] - x
    <3>1. x + lots \in a[i] .. t[i]
      BY <1>1, <1>4, <2>1, <2>2
    <3>2. QED
      BY <3>1
  <2>3. CASE t[i] - x <= lots /\ lots <= 0
    <3>1. x + lots \in t[i] .. b[i]
      BY <1>1, <1>4, <2>1, <2>3
    <3>2. QED
      BY <3>1
  <2>4. QED
    BY <1>6, <2>2, <2>3
<1>7. QED
  BY <1>5, <1>6 DEF Towards, x

LEMMA InsideLike ==
    ASSUME NEW a, NEW b, Inside(a), b.position = a.position
    PROVE  Inside(b)
BY DEF Inside

LEMMA InsideNew == Inside(NewContext.books)
<1>1. \A i \in Instrument : NewContext.books.position[i].qty = 0
  BY DEF NewContext, EmptyBooks, Flat
<1>2. \A i \in Instrument : NoOrders[i] = 0 /\ 0 \in 0 .. 0
  BY DEF NoOrders
<1>3. QED
  BY <1>1, <1>2 DEF Inside

\* Nothing is planned, executing or filled.
LEMMA NoTrades ==
    ASSUME \A f \in Pending' : f.type \notin {"ORDER", "EXECUTION", "FILL"}
    PROVE  TradesInv'
BY DEF TradesInv

LEMMA TradesPlan ==
    ASSUME BaseInv, CurveInv, TargetInv, Basics', NEW e \in batch, NEW puts, NEW q, PlanStep(e, puts, q)
    PROVE  TradesInv'
<1>1. /\ CarriesOn(e, puts, q) /\ Returned(e, puts) /\ ctx' = ctx
      /\ engineState = "RUNNING" /\ IsFirst(e, batch) /\ Carries(e)
      /\ Pending' = (Pending \ {e}) \cup puts
  BY DEF PlanStep, CarriesOn, Returned
<1>2. /\ \A f \in queue : f.type = "MARKET"
      /\ Pending' = queue \cup puts
  BY <1>1, Alone DEF CurveInv, Fed
<1>3. Live /\ e \in Pending /\ ctx \in Context
  BY <1>1 DEF Live, Pending, BaseInv, SafeInv, RunnerTypeInv
<1>4. \A i, lots : Towards(i, lots) => Towards(i, lots)'
  BY <1>1 DEF Towards
<1>5. ASSUME NEW f \in Pending', f.type \in {"ORDER", "EXECUTION"}, NEW i \in Instrument
      PROVE  Towards(i, payload'[f.seq][i])
  <2>1. f \in puts
    BY <1>2, <1>5
  <2>2. CASE f.type = "ORDER"
    <3>1. payload'[f.seq] \in {NoOrders} \cup {OrdersTo(t) : t \in Portfolios}
      BY <2>1, <2>2 DEF PlanStep
    <3>2. QED
      BY <1>3, <3>1, PlansLeadTowards
  <2>3. CASE f.type = "EXECUTION"
    <3>1. e.type = "ORDER" /\ payload'[f.seq] = payload[e.seq]
      BY <2>1, <2>3 DEF PlanStep
    <3>2. QED
      BY <1>3, <3>1 DEF TargetInv, TradesInv
  <2>4. QED
    BY <1>5, <2>2, <2>3
<1>6. ASSUME NEW f \in Pending', f.type = "FILL"
      PROVE  Towards(payload'[f.seq].inst, payload'[f.seq].qty)
  <2> DEFINE i == payload'[f.seq].inst
             less == payload'[f.seq].qty
             lots == payload[e.seq][i]
  <2>1. f \in puts
    BY <1>2, <1>6
  <2>2. i \in Instrument /\ less \in Int
    <3>1. payload'[f.seq] \in Fill
      BY <1>6 DEF Basics, PayloadInv
    <3>2. QED
      BY <3>1 DEF Fill
  <2>3. /\ e.type = "EXECUTION"
        /\ (0 <= less /\ less <= lots) \/ (lots <= less /\ less <= 0)
    BY <1>6, <2>1 DEF PlanStep
  <2>4. Towards(i, lots) /\ lots \in Int
    <3>1. payload[e.seq] \in [Instrument -> Int]
      BY <1>3, <2>3 DEF BaseInv, SafeInv, Basics, PayloadInv
    <3>2. QED
      BY <1>3, <2>2, <2>3, <3>1 DEF TargetInv, TradesInv
  <2> HIDE DEF i, less, lots
  <2>5. Towards(i, less)
    BY <1>3, <2>2, <2>3, <2>4, TowardsLess
  <2>6. QED
    BY <2>5 DEF i, less
<1>7. \A f, g \in Pending' :
         f.type = "FILL" /\ g.type = "FILL" /\ payload'[f.seq].inst = payload'[g.seq].inst => f = g
  BY <1>2 DEF PlanStep
<1>8. QED
  BY <1>4, <1>5, <1>6, <1>7 DEF TradesInv

\* A fill moves one position towards a target; no plan is under way beside it, and the
\* other fills are of other instruments.
LEMMA TargetFill ==
    ASSUME BaseInv, CurveInv, TargetInv, Basics', NEW e \in batch, FillStep(e)
    PROVE  Inside(ctx'.books) /\ TradesInv'
<1> DEFINE fill == payload[e.seq]
           k == fill.inst
           after == Booked(ctx.books, fill)
<1>1. /\ Returned(e, {}) /\ e.type = "FILL" /\ Live /\ engineState = "RUNNING"
      /\ ctx' = [ctx EXCEPT !.books = after] /\ Pending' = Pending \ {e}
      /\ \A f \in Pending \ {e} :
             f.type \in {"ORDER", "EXECUTION", "FILL"} => payload'[f.seq] = payload[f.seq]
  BY DEF FillStep, Returned, Live
<1>2. /\ ctx \in Context /\ ctx.books \in Books /\ Balanced(ctx.books) /\ Inside(ctx.books)
      /\ CascadeInv /\ TradesInv /\ PayloadInv /\ e \in Pending
  BY ContextFacts DEF BaseInv, SafeInv, Basics, RunnerTypeInv, BooksInv, Contexts, CurveInv, TargetInv, Pending
<1>3. fill \in Fill /\ k \in Instrument /\ fill.qty \in Int
  BY <1>1, <1>2 DEF PayloadInv, Fill
<1> HIDE DEF fill
<1>4. \A i \in Instrument : after.position[i].qty =
          ctx.books.position[i].qty + (IF i = k THEN fill.qty ELSE 0)
  BY <1>2, <1>3, BookedFacts
<1> HIDE DEF after
<1>5. ctx'.books = after
  BY <1>1, <1>2 DEF Context
<1>6. \A i \in Instrument : i # k => ctx'.books.position[i].qty = ctx.books.position[i].qty
  BY <1>2, <1>4, <1>5, QtyFacts
<1>7. Towards(k, fill.qty)
  BY <1>1, <1>2 DEF TradesInv, fill
<1>8. Inside(ctx'.books)
  <2>1. ASSUME NEW i \in Instrument
        PROVE  \E p, q \in Portfolios \cup {NoOrders} : ctx'.books.position[i].qty \in p[i] .. q[i]
    <3>1. CASE i = k
      <4>1. ctx'.books.position[i].qty = ctx.books.position[k].qty + fill.qty
        BY <1>4, <1>5, <3>1
      <4>2. \E p, q \in Portfolios \cup {NoOrders} : ctx.books.position[k].qty + fill.qty \in p[k] .. q[k]
        BY <1>2, <1>3, <1>7, TowardsStaysInside
      <4>3. QED
        BY <3>1, <4>1, <4>2
    <3>2. CASE i # k
      BY <1>2, <1>6, <3>2 DEF Inside
    <3>3. QED
      BY <3>1, <3>2
  <2>2. QED
    BY <2>1 DEF Inside
<1>9. \A f \in Pending' : f.type \notin {"ORDER", "EXECUTION"}
  <2>1. SUFFICES ASSUME NEW f \in Pending, f.type \in {"ORDER", "EXECUTION"} PROVE FALSE
    BY <1>1
  <2>2. PICK g \in Pending : g.type = "POSITION"
    BY <1>1, <1>2 DEF CascadeInv
  <2>3. ~Fed(f) /\ ~Fed(g) /\ Carries(f) /\ Carries(g) /\ f # g
    BY <2>1, <2>2 DEF Fed, Carries, LooksAhead
  <2>4. f.ts = ctx.time /\ g.ts = ctx.time
    BY <1>1, <1>2, <2>3 DEF CascadeInv
  <2>5. QED
    BY <1>1, <1>2, <2>3, <2>4 DEF CascadeInv
<1>10. ASSUME NEW f \in Pending', f.type = "FILL"
       PROVE  Towards(payload[f.seq].inst, payload[f.seq].qty)'
  <2> DEFINE i == payload[f.seq].inst
             lots == payload[f.seq].qty
  <2>1. payload'[f.seq] = payload[f.seq] /\ f \in Pending /\ f # e
    BY <1>1, <1>10
  <2>2. i # k /\ Towards(i, lots)
    BY <1>1, <1>2, <1>10, <2>1 DEF TradesInv, fill
  <2>3. i \in Instrument
    BY <1>2, <1>10, <2>1 DEF PayloadInv, Fill
  <2> HIDE DEF i, lots
  <2>4. ctx'.books.position[i].qty = ctx.books.position[i].qty
    BY <1>6, <2>2, <2>3
  <2>5. \/ lots = 0
        \/ \E p \in Portfolios :
              LET gap == p[i] - ctx'.books.position[i].qty
              IN  (0 <= lots /\ lots <= gap) \/ (gap <= lots /\ lots <= 0)
    BY <2>2, <2>4 DEF Towards
  <2>6. payload'[f.seq].inst = i /\ payload'[f.seq].qty = lots
    BY <2>1 DEF i, lots
  <2>7. QED
    BY <2>5, <2>6 DEF Towards
<1>11. \A f, g \in Pending' :
          f.type = "FILL" /\ g.type = "FILL" /\ payload'[f.seq].inst = payload'[g.seq].inst => f = g
  BY <1>1, <1>2 DEF TradesInv
<1>12. TradesInv'
  BY <1>9, <1>10, <1>11 DEF TradesInv
<1>13. QED
  BY <1>8, <1>12

LEMMA TargetHandle ==
    ASSUME BaseInv, CurveInv, TargetInv, NEW e \in batch, Handle(e)
    PROVE  TargetInv'
<1>1. SafeInv /\ Basics /\ ctx \in Context /\ Inside(ctx.books)
  BY DEF BaseInv, SafeInv, RunnerTypeInv, TargetInv, Contexts
<1>2. Stepped(e) /\ Basics'
  BY <1>1, HandleSteps
<1>3. UNCHANGED <<runner, frame, runs>> /\ engineState = "RUNNING"
  BY <1>2, SteppedKeeps
<1>4. ASSUME Returned(e, {}) \/ \E puts, q : CarriesOn(e, puts, q) /\ q.type \in {"FEATURE", "RISK_UPDATE"},
             Carries(e)
      PROVE  TradesInv'
  <2>1. IsFirst(e, batch)
    BY <1>4 DEF CarriesOn, Returned
  <2>2. \A f \in queue : f.type = "MARKET"
    BY <1>3, <1>4, <2>1, Alone DEF CurveInv, Fed
  <2>3. Pending \ {e} = queue
    BY <1>3, <1>4, <2>1, Alone DEF CurveInv
  <2>4. \A f \in Pending' : f.type \in {"MARKET", "FEATURE", "RISK_UPDATE"}
    BY <1>4, <2>2, <2>3 DEF CarriesOn, Returned
  <2>5. QED
    BY <2>4, NoTrades
<1>5. Inside(ctx'.books) /\ TradesInv'
  <2>1. ASSUME NEW puts, NEW q, MarketStep(e, puts, q)
        PROVE  Inside(ctx'.books) /\ TradesInv'
    <3>1. CarriesOn(e, puts, q) /\ Carries(e) /\ q.type = "FEATURE" /\ Fed(e) /\ ctx' = Marked(e)
      BY <2>1 DEF MarketStep, CarriesOn, Carries, Fed
    <3>2. Marked(e).books.position = ctx.books.position
      BY <1>1, <3>1, MarkedFacts
    <3>3. QED
      BY <1>1, <1>4, <3>1, <3>2, InsideLike
  <2>2. ASSUME NEW puts, NEW q, PlanStep(e, puts, q)
        PROVE  Inside(ctx'.books) /\ TradesInv'
    <3>1. ctx' = ctx
      BY <2>2 DEF PlanStep
    <3>2. QED
      BY <1>1, <1>2, <2>2, <3>1, TradesPlan
  <2>3. ASSUME NEW puts, NEW q, PnlStep(e, puts, q)
        PROVE  Inside(ctx'.books) /\ TradesInv'
    <3>1. CarriesOn(e, puts, q) /\ Carries(e) /\ q.type = "RISK_UPDATE" /\ ctx'.books = ctx.books
      BY <1>1, <2>3 DEF PnlStep, CarriesOn, Context
    <3>2. QED
      BY <1>1, <1>4, <3>1, InsideLike
  <2>4. CASE FillStep(e)
    BY <1>2, <2>4, TargetFill
  <2>5. CASE RiskStep(e)
    <3>1. Returned(e, {}) /\ Carries(e) /\ ctx'.books = ctx.books
      BY <1>1, <2>5 DEF RiskStep, Carries, LooksAhead, Context
    <3>2. QED
      BY <1>1, <1>4, <3>1, InsideLike
  <2>6. CASE RaiseStep(e)
    <3>1. ~Live'
      BY <2>6 DEF RaiseStep, Live
    <3>2. ctx'.books.position = ctx.books.position
      BY <1>1, <2>6, MarkedFacts DEF RaiseStep, Context
    <3>3. QED
      BY <1>1, <3>1, <3>2, InsideLike DEF TradesInv
  <2>7. QED
    BY <1>2, <2>1, <2>2, <2>3, <2>4, <2>5, <2>6 DEF Stepped
<1>6. QED
  BY <1>1, <1>3, <1>5 DEF TargetInv, Contexts, runner

LEMMA TargetInit == RunnerInit => TargetInv
<1> SUFFICES ASSUME RunnerInit PROVE TargetInv
  OBVIOUS
<1>1. Pending = {} /\ ctx = NewContext /\ file = NoFile
  BY DEF RunnerInit, EngineInit, Pending
<1>2. QED
  BY <1>1, InsideNew DEF TargetInv, TradesInv, Contexts

LEMMA TargetStep == BaseInv /\ CurveInv /\ TargetInv /\ [RunnerNext]_runnerVars => TargetInv'
<1> SUFFICES ASSUME BaseInv, CurveInv, TargetInv, [RunnerNext]_runnerVars PROVE TargetInv'
  OBVIOUS
<1>0. /\ resumeFrom \in BOOLEAN /\ ctx \in Context /\ TradesInv /\ Inside(ctx.books) /\ Basics
      /\ file # NoFile => file \in Context /\ Inside(file.books)
  BY DEF BaseInv, SafeInv, RunnerTypeInv, TargetInv, Contexts
<1>1. ASSUME NEW e \in batch, Handle(e) PROVE TargetInv'
  BY <1>1, TargetHandle
<1>2. ASSUME Pending' \subseteq Pending, Live' => Live, UNCHANGED <<ctx, payload>>
      PROVE  TradesInv'
  <2>1. \A i, lots : Towards(i, lots)' <=> Towards(i, lots)
    BY <1>2 DEF Towards
  <2>2. QED
    BY <1>0, <1>2, <2>1 DEF TradesInv
<1>3. CASE EngineStep
  <2>1. /\ UNCHANGED <<runner, ctx, payload, frame>> /\ Pending' \subseteq Pending
        /\ Begins \/ Drains \/ Completes \/ Drops
    BY <1>0, <1>3, EngineStepFacts
  <2>2. Live' => Live
    BY <2>1 DEF Begins, Drains, Completes, Drops, Live, AtTurn, BaseInv, PreparedInv
  <2>3. QED
    BY <1>0, <1>2, <2>1, <2>2 DEF TargetInv, Contexts, runner
<1>4. ASSUME NEW resuming \in BOOLEAN, PrepareFrom(resuming) PROVE TargetInv'
  <2>1. TradesInv'
    BY <1>4, BasePrepare, NoTrades
  <2>2. file' = file /\ ctx' = IF resuming /\ file # NoFile THEN Restored ELSE NewContext
    BY <1>4 DEF PrepareFrom
  <2>3. Inside(ctx'.books)
    BY <1>0, <2>2, RestoredFacts, InsideNew
  <2>4. QED
    BY <1>0, <2>1, <2>2, <2>3 DEF TargetInv, Contexts
<1>5. CASE Run
  <2>1. \A f \in Pending' : f.type = "MARKET"
    BY <1>5, RunFacts DEF Fed
  <2>2. TradesInv'
    BY <2>1, NoTrades
  <2>3. QED
    BY <1>0, <1>5, <2>2 DEF TargetInv, Contexts, Run
<1>6. CASE NewProcess
  <2>1. TradesInv'
    BY <1>6, BaseNewProcess, NoTrades
  <2>2. QED
    BY <1>0, <1>6, <2>1, InsideNew DEF TargetInv, Contexts, NewProcess
<1>7. CASE Validate \/ Cancel \/ Pause \/ Conclude \/ UNCHANGED runnerVars
  <2>1. Pending' = Pending /\ UNCHANGED <<engineVars, payload>>
    BY <1>7, BaseCalls
  <2>2. engineState' = engineState /\ ctx' = ctx
    BY <1>7, <2>1 DEF engineVars, engine, Validate, Cancel, Pause, Conclude, runnerVars
  <2>3. TradesInv'
    BY <1>2, <2>1, <2>2 DEF Live
  <2>4. file' # NoFile => Inside(file'.books)
    <3>1. CASE Pause
      BY <1>0, <3>1, WrittenFacts DEF Pause
    <3>2. CASE ~Pause
      BY <1>0, <1>7, <3>2 DEF Validate, Cancel, Conclude, runnerVars, runner
    <3>3. QED
      BY <3>1, <3>2
  <2>5. QED
    BY <1>0, <2>2, <2>3, <2>4 DEF TargetInv, Contexts
<1>8. QED
  BY <1>0, <1>1, <1>3, <1>4, <1>5, <1>6, <1>7 DEF RunnerNext, RunStep, Prepare, Resume

LEMMA TargetHolds == RunnerSpec => [](BaseInv /\ CurveInv /\ TargetInv)
BY BaseInit, BaseStep, CurveInit, CurveStep, TargetInit, TargetStep, PTL DEF RunnerSpec

\* No position ever goes past the targets that the strategy chooses from, whatever part of
\* an order executes and in whatever order its fills come: no plan is made while fills of
\* another are still to come (on_portfolio, on_execution, on_fill).
THEOREM BacktestNoOvershoot == RunnerSpec => []NoOvershoot
<1>1. TargetInv => NoOvershoot
  BY DEF TargetInv, Contexts, Inside, NoOvershoot
<1>2. QED
  BY <1>1, TargetHolds, PTL

-----------------------------------------------------------------------------
(* Completed runs are complete.                                            *)

LEMMA CompleteLike ==
    ASSUME NEW c, NEW d, Complete1(c),
           d.time = c.time, d.curve = c.curve, d.books = c.books, d.resumedAt = c.resumedAt
    PROVE  Complete1(d)
BY DEF Complete1, Covered

LEMMA CompleteNew == Complete1(NewContext)
<1>1. NewContext.time = NoTime /\ NewContext.curve = <<>> /\ DOMAIN <<>> = {}
  BY DEF NewContext
<1>2. QED
  BY <1>1 DEF Complete1

\* A checkpoint accounts for the instant it was taken in as well, once it is restored.
LEMMA CompleteRestored ==
    ASSUME file \in Context, Complete1(file)
    PROVE  /\ Complete1(Restored)
           /\ \A t \in Time : Covered(file, t) => Covered(Restored, t)
<1>1. /\ Restored.time = file.time /\ Restored.books = file.books /\ Restored.curve = file.curve
      /\ file.resumedAt \subseteq Restored.resumedAt
  BY RestoredFacts
<1>2. \A t : Covered(file, t) => Covered(Restored, t)
  BY <1>1 DEF Covered
<1>3. QED
  BY <1>1, <1>2 DEF Complete1

\* A step that accounts for what it takes away.
LEMMA AccountedStep ==
    ASSUME AccountedInv, running' => running, Live' => Live,
           \A t \in Time : Covered(ctx, t) => Covered(ctx', t),
           \A f \in Pending : Carries(f) /\ f.type # "RISK_UPDATE" =>
               \/ Covered(ctx', f.ts)
               \/ \E g \in Pending' : Carries(g)' /\ g.type # "RISK_UPDATE" /\ g.ts = f.ts
    PROVE  AccountedInv'
<1>1. SUFFICES ASSUME running', Live', NEW t \in Time
               PROVE  \/ Covered(ctx', t)
                      \/ \E g \in Pending' : Carries(g)' /\ g.type # "RISK_UPDATE" /\ g.ts = t
  BY DEF AccountedInv, ToCome, Covered
<1>2. Covered(ctx, t) \/ ToCome(t)
  BY <1>1 DEF AccountedInv
<1>3. CASE ToCome(t)
  BY <1>3 DEF ToCome
<1>4. QED
  BY <1>2, <1>3

\* When an instant is carried on, all that came before it is accounted for.
LEMMA BeforeIsCovered ==
    ASSUME BaseInv, CurveInv, CompleteInv, NEW e \in batch, engineState = "RUNNING", IsFirst(e, batch),
           Carries(e), NEW t \in Time, t < clock
    PROVE  Covered(ctx, t)
<1>1. running /\ Live
  BY DEF BaseInv, PreparedInv, Live
<1>2. \A f \in Pending : f.ts >= clock
  BY Alone DEF CurveInv
<1>3. t \in Nat /\ clock \in Nat
  BY TimeFacts, EventTime
<1>4. ~ToCome(t)
  <2>1. SUFFICES ASSUME NEW f \in Pending, f.ts = t PROVE FALSE
    BY DEF ToCome
  <2>2. QED
    BY <1>2, <1>3, <2>1
<1>5. QED
  BY <1>1, <1>4 DEF CompleteInv, AccountedInv

LEMMA CompleteMarked ==
    ASSUME BaseInv, CurveInv, CompleteInv, NEW e \in batch, engineState = "RUNNING", IsFirst(e, batch),
           Fed(e)
    PROVE  Complete1(Marked(e))
<1> DEFINE c == Marked(e)
<1>1. /\ c.time = clock /\ c.curve = ctx.curve /\ c.resumedAt = ctx.resumedAt
  <2>1. SafeInv
    BY DEF BaseInv
  <2>2. QED
    BY <2>1, MarkedFacts
<1>2. Carries(e) /\ e.type = "MARKET"
  BY DEF Carries, Fed
<1>3. /\ clock \in Nat /\ ctx \in Context
      /\ \A n \in DOMAIN ctx.curve : ctx.curve[n].ts < clock
  BY <1>2, EventTime
<1>4. \A n \in DOMAIN ctx.curve : ctx.curve[n].ts # clock
  BY <1>3, PointFacts
<1>5. \A t \in Time : t < clock => Covered(ctx, t)
  BY <1>2, BeforeIsCovered
<1> HIDE DEF c
<1>6. \A t \in Time : t < c.time => Covered(c, t)
  BY <1>1, <1>5 DEF Covered
<1>7. \A n \in DOMAIN c.curve : c.curve[n].ts # c.time
  BY <1>1, <1>4
<1>8. QED
  BY <1>6, <1>7 DEF Complete1, c

\* The carrier puts another, which is not its last.
LEMMA AccountedCarries ==
    ASSUME BaseInv, CurveInv, CompleteInv, NEW e \in batch, NEW puts, NEW q, CarriesOn(e, puts, q),
           ctx'.curve = ctx.curve, ctx'.resumedAt = ctx.resumedAt, q.type # "RISK_UPDATE"
    PROVE  AccountedInv'
<1>1. /\ engineState = "RUNNING" /\ engineState' = "RUNNING" /\ running' = running
      /\ Pending' = (Pending \ {e}) \cup puts /\ q \in puts /\ q.ts = clock
      /\ q.type \notin {"MARKET", "FILL"}
      /\ \A f \in Pending \ {e} : LooksAhead(f)' <=> LooksAhead(f)
  BY DEF CarriesOn, Returned, runner
<1>2. e.ts = clock
  BY <1>1, EventTime
<1>3. Live /\ Live'
  BY <1>1 DEF Live
<1>4. \A t : Covered(ctx, t) => Covered(ctx', t)
  BY DEF Covered
<1>5. Carries(q)' /\ q \in Pending'
  BY <1>1 DEF Carries, LooksAhead
<1>6. \A f \in Pending \ {e} : f \in Pending' /\ (Carries(f) => Carries(f)')
  BY <1>1 DEF Carries
<1>7. QED
  BY <1>1, <1>2, <1>3, <1>4, <1>5, <1>6, AccountedStep DEF CompleteInv

\* What is delivered carries nothing on, or not any more.
LEMMA AccountedRemoves ==
    ASSUME CompleteInv, NEW e \in batch, Returned(e, {}), e.type \in {"FILL", "RISK_UPDATE"},
           ctx'.curve = ctx.curve, ctx'.resumedAt = ctx.resumedAt
    PROVE  AccountedInv'
<1>1. /\ engineState = "RUNNING" /\ running' = running /\ Pending' = Pending \ {e}
      /\ \A f \in Pending \ {e} : LooksAhead(f)' <=> LooksAhead(f)
  BY DEF Returned, runner
<1>2. Live
  BY <1>1 DEF Live
<1>3. \A t : Covered(ctx, t) => Covered(ctx', t)
  BY DEF Covered
<1>4. \A f \in Pending \ {e} : f \in Pending' /\ (Carries(f) => Carries(f)')
  BY <1>1 DEF Carries
<1>5. \A f \in Pending : Carries(f) /\ f.type # "RISK_UPDATE" => f # e
  BY DEF Carries
<1>6. QED
  BY <1>1, <1>2, <1>3, <1>4, <1>5, AccountedStep DEF CompleteInv

\* The point of an instant accounts for it, with the equity of the books.
LEMMA CompletePnl ==
    ASSUME BaseInv, CurveInv, CompleteInv, NEW e \in batch, NEW puts, NEW q, PnlStep(e, puts, q)
    PROVE  Complete1(ctx') /\ AccountedInv'
<1> DEFINE point == [ts |-> e.ts, equity |-> Equity(ctx.books)]
           k == Len(ctx.curve)
<1>1. /\ CarriesOn(e, puts, q) /\ engineState = "RUNNING" /\ IsFirst(e, batch) /\ Carries(e)
      /\ e.type # "RISK_UPDATE" /\ ~Fed(e) /\ running' = running
      /\ Pending' = (Pending \ {e}) \cup puts
      /\ \A f \in Pending \ {e} : LooksAhead(f)' <=> LooksAhead(f)
      /\ ctx' = [ctx EXCEPT !.curve = Append(ctx.curve, point)]
  BY DEF PnlStep, CarriesOn, Fed, Returned, runner
<1>2. /\ e.ts = clock /\ clock \in Nat /\ ctx \in Context /\ ctx.time = clock
      /\ \A n \in DOMAIN ctx.curve : ctx.curve[n].ts < clock
  BY <1>1, EventTime
<1>3. ctx.curve \in Seq(Point) /\ k \in Nat /\ DOMAIN ctx.curve = 1 .. k
  BY <1>2, ContextFacts
<1>4. \A n \in 1 .. k : ctx.curve[n].ts # clock
  BY <1>2, <1>3, PointFacts
<1>5. /\ ctx'.time = clock /\ ctx'.books = ctx.books /\ ctx'.resumedAt = ctx.resumedAt
      /\ DOMAIN ctx'.curve = 1 .. k + 1
      /\ \A n \in 1 .. k : ctx'.curve[n] = ctx.curve[n]
      /\ ctx'.curve[k + 1].ts = clock /\ ctx'.curve[k + 1].equity = Equity(ctx.books)
  <2>1. /\ ctx'.time = ctx.time /\ ctx'.curve = Append(ctx.curve, point)
        /\ ctx'.books = ctx.books /\ ctx'.resumedAt = ctx.resumedAt
    BY <1>1, <1>2 DEF Context
  <2>2. point.ts = clock /\ point.equity = Equity(ctx.books)
    BY <1>2
  <2> HIDE DEF point
  <2>3. QED
    BY <1>2, <1>3, <2>1, <2>2
<1> HIDE DEF k
<1>6. (\A n \in 1 .. k + 1 : n \in 1 .. k \/ n = k + 1) /\ k + 1 \in 1 .. k + 1 /\ 1 .. k \subseteq 1 .. k + 1
  BY <1>3
<1>7. \A t : Covered(ctx, t) => Covered(ctx', t)
  <2>1. ASSUME NEW t, NEW n \in DOMAIN ctx.curve, ctx.curve[n].ts = t
        PROVE  \E m \in DOMAIN ctx'.curve : ctx'.curve[m].ts = t
    BY <1>3, <1>5, <1>6, <2>1
  <2>2. QED
    BY <1>5, <2>1 DEF Covered
<1>8. Covered(ctx', clock)
  BY <1>5, <1>6 DEF Covered
<1>9. \A t \in Time : t < ctx'.time => Covered(ctx', t)
  BY <1>1, <1>5, <1>7, BeforeIsCovered
<1>10. \A n \in DOMAIN ctx'.curve : ctx'.curve[n].ts = ctx'.time => ctx'.curve[n].equity = Equity(ctx'.books)
  BY <1>4, <1>5, <1>6
<1>11. Complete1(ctx')
  BY <1>9, <1>10 DEF Complete1
<1>12. Live
  BY <1>1 DEF Live
<1>13. \A f \in Pending \ {e} : f \in Pending' /\ (Carries(f) => Carries(f)')
  BY <1>1 DEF Carries
<1>14. AccountedInv'
  BY <1>1, <1>2, <1>7, <1>8, <1>12, <1>13, AccountedStep DEF CompleteInv
<1>15. QED
  BY <1>11, <1>14

\* A handler keeps what is accounted for, and leaves no instant out.
LEMMA CompleteHandle ==
    ASSUME BaseInv, CurveInv, CompleteInv, NEW e \in batch, Handle(e)
    PROVE  CompleteInv'
<1>1. SafeInv /\ PreparedInv /\ Basics /\ ctx \in Context /\ Complete1(ctx) /\ AccountedInv
  BY DEF BaseInv, SafeInv, RunnerTypeInv, CompleteInv, Contexts
<1>2. Stepped(e)
  BY <1>1, HandleSteps
<1>3. UNCHANGED <<runner, frame, runs>> /\ engineState = "RUNNING" /\ loop.active /\ running
  BY <1>1, <1>2, SteppedKeeps DEF PreparedInv
<1>4. /\ e.ts = clock /\ (~Fed(e) => ctx.time = clock)
      /\ e.type # "RISK_UPDATE" => \A n \in DOMAIN ctx.curve : ctx.curve[n].ts < clock
  BY <1>3, EventTime
<1>5. Complete1(ctx') /\ AccountedInv'
  <2>1. ASSUME NEW puts, NEW q, MarketStep(e, puts, q)
        PROVE  Complete1(ctx') /\ AccountedInv'
    <3>1. /\ CarriesOn(e, puts, q) /\ q.type = "FEATURE" /\ Fed(e) /\ IsFirst(e, batch)
          /\ ctx' = Marked(e)
      BY <2>1 DEF MarketStep, CarriesOn, Carries, Fed, Returned
    <3>2. Marked(e).curve = ctx.curve /\ Marked(e).resumedAt = ctx.resumedAt
      BY <1>1, <3>1, MarkedFacts
    <3>3. AccountedInv'
      BY <3>1, <3>2, AccountedCarries
    <3>4. QED
      BY <1>3, <3>1, <3>3, CompleteMarked
  <2>2. ASSUME NEW puts, NEW q, PlanStep(e, puts, q)
        PROVE  Complete1(ctx') /\ AccountedInv'
    <3>1. CarriesOn(e, puts, q) /\ q.type # "RISK_UPDATE" /\ ctx' = ctx
      BY <2>2 DEF PlanStep
    <3>2. QED
      BY <1>1, <3>1, AccountedCarries
  <2>3. CASE FillStep(e)
    <3>1. /\ Returned(e, {}) /\ e.type = "FILL" /\ ctx'.time = ctx.time /\ ctx'.curve = ctx.curve
          /\ ctx'.resumedAt = ctx.resumedAt /\ ~Fed(e)
      BY <1>1, <2>3 DEF FillStep, Context, Fed
    <3>2. \A n \in DOMAIN ctx.curve : ctx.curve[n].ts # ctx.time
      BY <1>1, <1>4, <3>1, PointFacts
    <3>3. Complete1(ctx')
      BY <1>1, <3>1, <3>2 DEF Complete1, Covered
    <3>4. QED
      BY <3>1, <3>3, AccountedRemoves
  <2>4. CASE RiskStep(e)
    <3>1. /\ Returned(e, {}) /\ e.type = "RISK_UPDATE" /\ ctx'.time = ctx.time /\ ctx'.curve = ctx.curve
          /\ ctx'.resumedAt = ctx.resumedAt /\ ctx'.books = ctx.books
      BY <1>1, <2>4 DEF RiskStep, Context
    <3>2. QED
      BY <1>1, <3>1, CompleteLike, AccountedRemoves
  <2>5. CASE RaiseStep(e)
    <3>1. ~Live' /\ IsFirst(e, batch)
      BY <2>5 DEF RaiseStep, Live
    <3>2. AccountedInv'
      BY <3>1 DEF AccountedInv
    <3>3. CASE LooksAhead(e) /\ ctx' = [ctx EXCEPT !.time = e.ts, !.invalidated = TRUE]
      <4>1. /\ ctx'.time = ctx.time /\ ctx'.curve = ctx.curve /\ ctx'.books = ctx.books
            /\ ctx'.resumedAt = ctx.resumedAt
        BY <1>1, <1>4, <3>3 DEF Context, Fed
      <4>2. QED
        BY <1>1, <3>2, <4>1, CompleteLike
    <3>4. CASE Fed(e) /\ ctx' = Marked(e)
      BY <1>3, <3>1, <3>2, <3>4, CompleteMarked
    <3>5. QED
      BY <1>1, <2>5, <3>2, <3>3, <3>4 DEF RaiseStep
  <2>6. QED
    BY <1>2, <2>1, <2>2, <2>3, <2>4, <2>5, CompletePnl DEF Stepped
<1>6. /\ engineState' # "COMPLETED"
      /\ engineState' = "INVALIDATED" => ctx'.invalidated
  <2>1. engineState' = "INVALIDATED" => RiskStep(e)
    BY <1>2 DEF Stepped, MarketStep, PlanStep, PnlStep, FillStep, RaiseStep, CarriesOn
  <2>2. QED
    BY <1>1, <1>2, <2>1, SteppedKeeps DEF RiskStep, Context
<1>7. lifecycle' # "COMPLETED"
  BY <1>3 DEF CompleteInv, runner
<1>8. \A c \in Contexts' : Complete1(c)'
  BY <1>3, <1>5 DEF CompleteInv, Contexts, runner, Complete1, Covered
<1>9. QED
  BY <1>5, <1>6, <1>7, <1>8 DEF CompleteInv

\* The engine completes when no event is left up to the last instant: all are accounted for.
LEMMA CompleteEngine ==
    ASSUME BaseInv, CurveInv, CompleteInv, EngineStep
    PROVE  CompleteInv'
<1>1. Basics /\ PreparedInv /\ AccountedInv
  BY DEF BaseInv, SafeInv, CompleteInv
<1>2. /\ UNCHANGED <<runner, ctx, payload, frame>> /\ running
      /\ Begins \/ Drains \/ Completes \/ Drops
      /\ engineState # "INVALIDATED" => Pending' = Pending
  BY <1>1, EngineStepFacts
<1>3. /\ \A c \in Contexts' : Complete1(c)'
      /\ lifecycle' # "COMPLETED"
  BY <1>2 DEF CompleteInv, Contexts, runner, Complete1, Covered
<1>4. \A t : Covered(ctx, t)' <=> Covered(ctx, t)
  BY <1>2 DEF Covered
<1>5. AccountedInv'
  <2>1. CASE ~Live'
    BY <2>1 DEF AccountedInv
  <2>2. CASE Live'
    <3>1. Live /\ Pending' = Pending
      BY <1>1, <1>2, <2>2 DEF Begins, Drains, Completes, Drops, Live, AtTurn, PreparedInv
    <3>2. \A f : Carries(f)' <=> Carries(f)
      BY <1>2 DEF Carries, LooksAhead
    <3>3. QED
      BY <1>1, <1>2, <1>4, <3>1, <3>2 DEF AccountedInv, ToCome
  <2>3. QED
    BY <2>1, <2>2
<1>6. ASSUME Completes
      PROVE  \A t \in Time : Covered(ctx, t)
  <2>1. Live /\ batch = {} /\ \A f \in queue : f.ts > Horizon
    BY <1>1, <1>6 DEF Completes, AtTurn, Live, PreparedInv
  <2>2. \A f \in Pending : f.ts \in Nat /\ f.ts <= Horizon
    BY <1>1, TimeFacts DEF Basics, NumberedInv
  <2>3. Pending = {}
    BY <2>1, <2>2, TimeFacts DEF Pending
  <2>4. QED
    BY <1>1, <1>2, <2>1, <2>3 DEF AccountedInv, ToCome
<1>7. engineState' = "COMPLETED" => Completes
  BY <1>2 DEF Begins, Drains, Drops, AtTurn
<1>8. engineState' = "INVALIDATED" => ctx'.invalidated
  BY <1>2 DEF Begins, Drains, Completes, Drops, AtTurn, CompleteInv
<1>9. QED
  BY <1>3, <1>4, <1>5, <1>6, <1>7, <1>8 DEF CompleteInv

\* A run is fed every instant after its checkpoint, which accounts for those before it.
LEMMA CompleteRun ==
    ASSUME BaseInv, CurveInv, CompleteInv, Run
    PROVE  CompleteInv'
<1>1. /\ \A f \in Pending' : Fed(f)' /\ f.ts \in Time
      /\ \A t \in ToFeed(After) : \E f \in Pending' : f.ts = t
  BY RunFacts
<1>2. /\ UNCHANGED <<ctx, file, engineState>> /\ ctx \in Context /\ Complete1(ctx)
      /\ lifecycle' = "RUNNING" /\ engineState = "CREATED"
      /\ ctx.time \in ctx.resumedAt \cup {NoTime}
      /\ resumeFrom \/ ctx = NewContext
  BY DEF Run, BaseInv, SafeInv, RunnerTypeInv, PreparedInv, CompleteInv, Contexts
<1>3. After = ctx.time
  BY <1>2 DEF After, NewContext
<1>4. ASSUME NEW t \in Time
      PROVE  \/ Covered(ctx', t)
             \/ \E g \in Pending' : Carries(g)' /\ g.type # "RISK_UPDATE" /\ g.ts = t
  <2>1. CASE t \in ToFeed(After)
    <3>1. \A f \in Pending' : Carries(f)' /\ f.type # "RISK_UPDATE"
      BY <1>1 DEF Fed, Carries
    <3>2. QED
      BY <1>1, <2>1, <3>1
  <2>2. CASE t \notin ToFeed(After)
    <3>1. ctx.time # NoTime /\ ctx.time \in Time /\ ~(t > ctx.time)
      BY <1>2, <1>3, <2>2, ContextFacts DEF ToFeed
    <3>2. t < ctx.time \/ t = ctx.time
      <4>1. t \in Nat /\ ctx.time \in Nat
        BY <3>1, TimeFacts
      <4>2. QED
        BY <3>1, <4>1
    <3>3. Covered(ctx, t)
      BY <1>2, <3>1, <3>2 DEF Complete1, Covered
    <3>4. QED
      BY <1>2, <3>3
  <2>3. QED
    BY <2>1, <2>2
<1>5. AccountedInv'
  BY <1>4 DEF AccountedInv, ToCome, Covered
<1>6. \A c \in Contexts' : Complete1(c)'
  BY <1>2 DEF CompleteInv, Contexts, Complete1, Covered
<1>7. QED
  BY <1>2, <1>5, <1>6 DEF CompleteInv

\* A run that completes has all instants accounted for, the last of them by the last point.
LEMMA CompleteConclude ==
    ASSUME BaseInv, CurveInv, CompleteInv, Conclude
    PROVE  CompleteInv'
<1>1. /\ EngineTypeOK /\ ctx \in Context /\ Complete1(ctx) /\ Ordered(ctx) /\ PreparedInv
      /\ runs = 1 /\ ~loop.active /\ running /\ running' = FALSE
      /\ UNCHANGED <<ctx, file, engineState>>
  BY DEF Conclude, BaseInv, SafeInv, RunnerTypeInv, Basics, CompleteInv, CurveInv, Contexts,
         engineVars, engine
<1>2. \A c \in Contexts' : Complete1(c)'
  BY <1>1 DEF CompleteInv, Contexts, Complete1, Covered
<1>3. AccountedInv'
  BY <1>1 DEF AccountedInv
<1>4. ASSUME lifecycle' = "COMPLETED"
      PROVE  /\ \A t \in Time : Covered(ctx, t)
             /\ Horizon \in ctx.resumedAt \/ ctx.curve[Len(ctx.curve)].equity = Equity(ctx.books)
             /\ ~ctx.invalidated
  <2>1. ~ctx.invalidated /\ engineState # "FAILED"
    BY <1>1, <1>4 DEF Conclude, MovedTo, CompleteInv
  <2>2. engineState = "COMPLETED"
    BY <1>1, <2>1 DEF EngineTypeOK, PreparedInv, CompleteInv
  <2>3. \A t \in Time : Covered(ctx, t)
    BY <2>2 DEF CompleteInv
  <2>4. ASSUME Horizon \notin ctx.resumedAt
        PROVE  ctx.curve[Len(ctx.curve)].equity = Equity(ctx.books)
    <3> DEFINE k == Len(ctx.curve)
    <3>1. PICK n \in DOMAIN ctx.curve : ctx.curve[n].ts = Horizon
      BY <2>3, <2>4, TimeFacts DEF Covered
    <3>2. n \in Nat /\ k \in Nat /\ n <= k /\ k \in DOMAIN ctx.curve
      <4>1. DOMAIN ctx.curve = 1 .. k /\ k \in Nat
        BY <1>1, <3>1, PointFacts
      <4> HIDE DEF k
      <4>2. QED
        BY <3>1, <4>1
    <3> HIDE DEF k
    <3>3. \A m \in DOMAIN ctx.curve : ctx.curve[m].ts \in Nat /\ ctx.curve[m].ts <= Horizon
      BY <1>1, PointFacts, TimeFacts
    <3>4. n = k
      <4>1. SUFFICES ASSUME n < k PROVE FALSE
        BY <3>2
      <4>2. Horizon < ctx.curve[k].ts
        BY <1>1, <3>1, <3>2, <4>1 DEF Ordered
      <4>3. QED
        BY <3>2, <3>3, <4>2, TimeFacts
    <3>5. ctx.time = Horizon
      <4>1. ctx.time # NoTime /\ Horizon <= ctx.time /\ ctx.time \in Time
        BY <1>1, <3>1, ContextFacts DEF Ordered
      <4>2. ctx.time \in Nat /\ ctx.time <= Horizon
        BY <4>1, TimeFacts
      <4>3. QED
        BY <4>1, <4>2, TimeFacts
    <3>6. QED
      BY <1>1, <3>1, <3>4, <3>5 DEF Complete1, k
  <2>5. QED
    BY <2>1, <2>3, <2>4
<1>5. lifecycle' = "COMPLETED" => running' = FALSE /\ CompletedIsComplete'
  BY <1>1, <1>4 DEF CompletedIsComplete, Covered
<1>6. QED
  BY <1>1, <1>2, <1>3, <1>5 DEF CompleteInv, Covered

LEMMA CompleteInit == RunnerInit => CompleteInv
<1> SUFFICES ASSUME RunnerInit PROVE CompleteInv
  OBVIOUS
<1>1. /\ ctx = NewContext /\ file = NoFile /\ ~running /\ engineState = "CREATED"
      /\ lifecycle = "CREATED"
  BY DEF RunnerInit, EngineInit
<1>2. QED
  BY <1>1, CompleteNew DEF CompleteInv, AccountedInv, Contexts

LEMMA CompleteStep == BaseInv /\ CurveInv /\ CompleteInv /\ [RunnerNext]_runnerVars => CompleteInv'
<1> SUFFICES ASSUME BaseInv, CurveInv, CompleteInv, [RunnerNext]_runnerVars PROVE CompleteInv'
  OBVIOUS
<1>0. /\ resumeFrom \in BOOLEAN /\ ctx \in Context /\ AccountedInv /\ Complete1(ctx)
      /\ file # NoFile => file \in Context /\ Complete1(file)
  BY DEF BaseInv, SafeInv, RunnerTypeInv, CompleteInv, Contexts
<1>1. ASSUME NEW e \in batch, Handle(e) PROVE CompleteInv'
  BY <1>1, CompleteHandle
<1>2. CASE EngineStep
  BY <1>2, CompleteEngine
<1>3. ASSUME ~running', engineState' = "CREATED", lifecycle' # "COMPLETED", file' = file, Complete1(ctx')
      PROVE  CompleteInv'
  BY <1>0, <1>3 DEF CompleteInv, AccountedInv, Contexts, Complete1, Covered
<1>4. ASSUME NEW resuming \in BOOLEAN, PrepareFrom(resuming) PROVE CompleteInv'
  <2>1. /\ file' = file /\ ctx' = IF resuming /\ file # NoFile THEN Restored ELSE NewContext
        /\ ~running' /\ engineState' = "CREATED" /\ lifecycle' # "COMPLETED"
    BY <1>4 DEF PrepareFrom, NewEngine
  <2>2. Complete1(ctx')
    BY <1>0, <2>1, CompleteRestored, CompleteNew
  <2>3. QED
    BY <1>3, <2>1, <2>2
<1>5. CASE NewProcess
  BY <1>3, <1>5, CompleteNew DEF NewProcess, NewEngine
<1>6. CASE Run
  BY <1>6, CompleteRun
<1>7. CASE Conclude
  BY <1>7, CompleteConclude
<1>8. CASE Validate \/ Cancel \/ Pause \/ UNCHANGED runnerVars
  <2>1. Pending' = Pending /\ UNCHANGED <<engineVars, payload>>
    BY <1>8, BaseCalls
  <2>2. /\ UNCHANGED <<engineState, payload, ctx, running>>
        /\ lifecycle' = "COMPLETED" => lifecycle = "COMPLETED"
    BY <1>8, <2>1 DEF engineVars, engine, Validate, Cancel, Pause, MovedTo, runnerVars, runner
  <2>3. file' # NoFile => Complete1(file')
    <3>1. CASE Pause
      <4>1. file' = [ctx EXCEPT !.invalidated = FALSE]
        BY <3>1 DEF Pause
      <4>2. QED
        BY <1>0, <4>1, WrittenFacts, CompleteLike
    <3>2. CASE ~Pause
      BY <1>0, <1>8, <3>2 DEF Validate, Cancel, runnerVars, runner
    <3>3. QED
      BY <3>1, <3>2
  <2>4. \A c \in Contexts' : Complete1(c)'
    BY <1>0, <2>2, <2>3 DEF Contexts, Complete1, Covered
  <2>5. \A t : Covered(ctx, t)' <=> Covered(ctx, t)
    BY <2>2 DEF Covered
  <2>6. AccountedInv'
    <3>1. \A f : Carries(f)' <=> Carries(f)
      BY <2>2 DEF Carries, LooksAhead
    <3>2. QED
      BY <1>0, <2>1, <2>2, <2>5, <3>1 DEF AccountedInv, ToCome, Live
  <2>7. QED
    BY <2>2, <2>4, <2>5, <2>6 DEF CompleteInv, CompletedIsComplete
<1>9. QED
  BY <1>0, <1>1, <1>2, <1>4, <1>5, <1>6, <1>7, <1>8 DEF RunnerNext, RunStep, Prepare, Resume

\* A run that completes has a point for every bar but those its checkpoints were taken in,
\* and its last point is the equity of its books: for any data and strategy, and over any
\* pauses, crashes and resumptions (submit_market_events, on_pnl, integrity_validate).
THEOREM BacktestCompletedIsComplete == RunnerSpec => []CompletedIsComplete
<1>1. CompleteInv => CompletedIsComplete
  BY DEF CompleteInv, CompletedIsComplete
<1>2. QED
  BY <1>1, BaseInit, BaseStep, CurveInit, CurveStep, CompleteInit, CompleteStep, PTL DEF RunnerSpec

=============================================================================
