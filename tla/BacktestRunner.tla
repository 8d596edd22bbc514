--------------------------- MODULE BacktestRunner ---------------------------
(***************************************************************************)
(* One backtest from end to end (backtesting/runner): BacktestRunner and   *)
(* its lifecycle, the executor that feeds one MARKET event per instant     *)
(* into the event engine, and the pipeline that turns each into features,  *)
(* targets, orders, fills, positions and a point of the equity curve.      *)
(*                                                                         *)
(* The strategy is free: it picks any portfolio or none, slips in a MARKET *)
(* event that carries a later bar, or raises.  Callers pause, cancel and   *)
(* resume between any two handlers, and the process may end at any point;  *)
(* only the checkpoint file survives it.                                   *)
(***************************************************************************)
EXTENDS EventEngine, Accounting, FiniteSetsExt

CONSTANTS
    Frames,         \* data sets: the close of each instrument at each instant, 0 if it has no bar
    Portfolios,     \* the targets that a strategy may choose, in lots
    HalfSpread, Fee,\* what execution adds to the close, and the fee of a fill
    MaxLoss,        \* the drawdown that ends a run, as an amount
    MaxPauses, MaxProcesses,
    NoTime, NoFile

CascadeTypes ==
    {"MARKET", "FEATURE", "SIGNAL", "FORECAST", "RISK", "PORTFOLIO", "ORDER",
     "EXECUTION", "FILL", "POSITION", "PNL", "RISK_UPDATE"}
CascadePriority ==
    [MARKET |-> 10, FEATURE |-> 20, SIGNAL |-> 30, FORECAST |-> 40, RISK |-> 50, PORTFOLIO |-> 60,
     ORDER |-> 70, EXECUTION |-> 80, FILL |-> 90, POSITION |-> 100, PNL |-> 110, RISK_UPDATE |-> 120]

ASSUME RunnerAssumption ==
    /\ EventType = CascadeTypes /\ Priority = CascadePriority
    /\ Frames \subseteq [Time -> [Instrument -> Nat]]
    /\ \A f \in Frames, t \in Time : \E i \in Instrument : f[t][i] > 0
    /\ Portfolios \subseteq [Instrument -> Int]
    /\ {HalfSpread, Fee, MaxLoss, MaxPauses, MaxProcesses} \subseteq Nat
    /\ NoTime \notin Nat

VARIABLES
    frame,          \* the data set
    lifecycle,      \* Lifecycle.state
    prepared,       \* there is an executor with its engine and context
    running,        \* BacktestRunner.run is in progress
    resumeFrom,     \* config.resume_from is set
    ctx,            \* PipelineContext
    payload,        \* the payloads of the queued events that carry data
    file,           \* checkpoint.json
    pauses, processes   \* counters for the bounds

runner == <<lifecycle, prepared, running, resumeFrom, file, pauses, processes>>
runnerVars == <<engineVars, runner, frame, ctx, payload>>

\* Handlers that change nothing of the books, and the event each submits.
PassesOn ==
    [FEATURE |-> "SIGNAL", SIGNAL |-> "FORECAST", FORECAST |-> "RISK", RISK |-> "PORTFOLIO",
     ORDER |-> "EXECUTION", POSITION |-> "PNL"]
\* Handlers that call the strategy.
Hooked == {"MARKET", "FEATURE", "SIGNAL", "FORECAST", "RISK", "PORTFOLIO", "ORDER", "FILL"}

Terminal == {"COMPLETED", "FAILED", "CANCELLED", "INVALIDATED"}
Lifecycle == {"CREATED", "VALIDATING", "PREPARING", "RUNNING", "PAUSED"} \cup Terminal

Point == [ts : Time, equity : Int]
Context ==
    [time : Time \cup {NoTime}, books : Books, curve : Seq(Point), invalidated : BOOLEAN,
     resumedAt : SUBSET Time]       \* auxiliary: the bars that checkpoints were restored at
NewContext ==
    [time |-> NoTime, books |-> EmptyBooks, curve |-> <<>>, invalidated |-> FALSE, resumedAt |-> {}]

-----------------------------------------------------------------------------
(* The executor.                                                           *)

\* Mutant: a resumed run begins with the bar of the checkpoint.
ToFeedFrom(after) == {t \in Time : after = NoTime \/ t >= after}

\* A resumed run begins after the last bar of its checkpoint.
ToFeed(after) == {t \in Time : after = NoTime \/ t > after}

Rows(t) == {i \in Instrument : frame[t][i] > 0}
Market(t, rows, n) == [event |-> [ts |-> t, type |-> "MARKET", seq |-> n, job |-> NoJob],
                       data |-> [bars |-> t, rows |-> rows]]

\* Mutant: one MARKET event for each row.
MarketsPerRow(after) ==
    LET rows == {r \in ToFeed(after) \X Instrument : r[2] \in Rows(r[1])}
        Number(r) == Cardinality({q \in rows : q[1] < r[1] \/ (q[1] = r[1] /\ q[2] < r[2])})
    IN  {Market(r[1], {r[2]}, seq + Number(r)) : r \in rows}

\* bars_by_timestamp: one MARKET event for each instant, with all of its rows.
Markets(after) ==
    {Market(t, Rows(t), seq + Cardinality({u \in ToFeed(after) : u < t})) : t \in ToFeed(after)}

Payloads(markets) ==
    [n \in {m.event.seq : m \in markets} |-> (CHOOSE m \in markets : m.event.seq = n).data]

-----------------------------------------------------------------------------
(* The pipeline.                                                           *)

Put(type, n) == [ts |-> clock, type |-> type, seq |-> seq + n, job |-> NoJob]

One(n, data) == [m \in {n} |-> data]

\* The handler of the event returns, having put these events and their payloads.
Handled(e, puts, data) ==
    /\ Delivered(e, puts)
    /\ batch' = batch \ {e}
    /\ processed' = processed + 1
    /\ payload' = [n \in (DOMAIN payload \ {e.seq}) \cup DOMAIN data |->
                       IF n \in DOMAIN data THEN data[n] ELSE payload[n]]
    /\ UNCHANGED <<jobs, loop, submitted, clean, runner, frame>>

\* The bars of a MARKET event are later than the event.
LooksAhead(e) == e.type = "MARKET" /\ payload[e.seq].bars > e.ts

\* Its time, and the prices of the rows it carries.
Marked(e) ==
    [ctx EXCEPT !.time = e.ts,
                !.books.price = [i \in Instrument |->
                    IF i \in payload[e.seq].rows THEN frame[e.ts][i] ELSE @[i]]]

OnMarket(e) ==
    /\ e.type = "MARKET" /\ ~LooksAhead(e)
    /\ ctx' = Marked(e)
    /\ \/ Handled(e, {Put("FEATURE", 0)}, <<>>)
       \/ \E t \in Time :
             /\ t > e.ts
             /\ Handled(e, {Put("MARKET", 0), Put("FEATURE", 1)},
                        One(seq, [bars |-> t, rows |-> Rows(t)]))
    /\ UNCHANGED engineState

\* _pit_check: the context and the engine are invalidated, then the check raises.
OnMarketLookahead(e) ==
    /\ LooksAhead(e)
    /\ Raise(e, {})
    /\ ctx' = [ctx EXCEPT !.time = e.ts, !.invalidated = TRUE]
    /\ UNCHANGED <<payload, runner, frame>>

PassOn(e) ==
    /\ e.type \in DOMAIN PassesOn
    /\ Handled(e, {Put(PassesOn[e.type], 0)}, IF e.type = "ORDER" THEN One(seq, payload[e.seq]) ELSE <<>>)
    /\ UNCHANGED <<ctx, engineState>>

\* The orders that lead from the positions to a portfolio, where there is a price.
NoOrders == [i \in Instrument |-> 0]
OrdersTo(target) ==
    [i \in Instrument |-> IF ctx.books.price[i] > 0 THEN target[i] - ctx.books.position[i].qty ELSE 0]

\* on_portfolio plans against the positions of the moment, or does not rebalance.
OnPortfolio(e) ==
    /\ e.type = "PORTFOLIO"
    /\ \E orders \in {NoOrders} \cup {OrdersTo(p) : p \in Portfolios} :
          Handled(e, {Put("ORDER", 0)}, One(seq, orders))
    /\ UNCHANGED <<ctx, engineState>>

\* Each order executes in whole, in part or not at all, at the close and half a spread.
ExecutionPrice(i, qty) == ctx.books.price[i] + Sign(qty) * HalfSpread
Executions(orders) ==
    LET largest == Max({Magnitude(orders[i]) : i \in Instrument})
    IN  {[i \in Instrument |-> Sign(orders[i]) * lots[i]] :
            lots \in {l \in [Instrument -> 0 .. largest] : \A i \in Instrument : l[i] <= Magnitude(orders[i])}}

OnExecution(e) ==
    /\ e.type = "EXECUTION"
    /\ \E done \in Executions(payload[e.seq]) :
          LET filled == {i \in Instrument : done[i] # 0 /\ ExecutionPrice(i, done[i]) > 0}
              Number(i) == Cardinality({j \in filled : j < i})
              fill(n) == CHOOSE i \in filled : seq + Number(i) = n
          IN  Handled(e,
                  {Put("FILL", Number(i)) : i \in filled} \cup {Put("POSITION", Cardinality(filled))},
                  [n \in {seq + Number(i) : i \in filled} |->
                      [inst |-> fill(n), qty |-> done[fill(n)],
                       price |-> ExecutionPrice(fill(n), done[fill(n)]), fee |-> Fee]])
    /\ UNCHANGED <<ctx, engineState>>

OnFill(e) ==
    /\ e.type = "FILL"
    /\ ctx' = [ctx EXCEPT !.books = Booked(@, payload[e.seq])]
    /\ Handled(e, {}, <<>>)
    /\ UNCHANGED engineState

OnPnl(e) ==
    /\ e.type = "PNL"
    /\ ctx' = [ctx EXCEPT !.curve = Append(@, [ts |-> e.ts, equity |-> Equity(ctx.books)])]
    /\ Handled(e, {Put("RISK_UPDATE", 0)}, <<>>)
    /\ UNCHANGED engineState

\* The equity of the last point lies this far below the peak, which is at least the capital.
Breached ==
    LET now == ctx.curve[Len(ctx.curve)].equity
    IN  \/ Capital - now > MaxLoss
        \/ \E n \in DOMAIN ctx.curve : ctx.curve[n].equity - now > MaxLoss

OnRiskUpdate(e) ==
    /\ e.type = "RISK_UPDATE"
    /\ Handled(e, {}, <<>>)
    /\ ctx' = [ctx EXCEPT !.invalidated = @ \/ Breached]
    /\ engineState' = IF Breached THEN "INVALIDATED" ELSE "RUNNING"

\* The strategy raises; on_market has set the time and the prices by then.
HookRaises(e) ==
    /\ e.type \in Hooked /\ ~LooksAhead(e)
    /\ Raise(e, {})
    /\ ctx' = IF e.type = "MARKET" THEN Marked(e) ELSE ctx
    /\ UNCHANGED <<payload, runner, frame>>

Handle(e) ==
    \/ OnMarket(e) \/ OnMarketLookahead(e) \/ PassOn(e) \/ OnPortfolio(e) \/ OnExecution(e)
    \/ OnFill(e) \/ OnPnl(e) \/ OnRiskUpdate(e) \/ HookRaises(e)

-----------------------------------------------------------------------------
(* The runner.                                                             *)

\* Lifecycle.transition raises in a terminal state and changes nothing.
MovedTo(state) == IF lifecycle \in Terminal THEN lifecycle ELSE state

RunnerInit ==
    /\ EngineInit
    /\ frame \in Frames
    /\ lifecycle = "CREATED" /\ prepared = FALSE /\ running = FALSE /\ resumeFrom = FALSE
    /\ ctx = NewContext /\ payload = <<>>
    /\ file = NoFile
    /\ pauses = 0 /\ processes = 1

\* A new EventDrivenEngine, with its clock at the first bar.
NewEngine ==
    /\ clock' = 0 /\ queue' = {} /\ seq' = 0 /\ batch' = {} /\ engineState' = "CREATED"
    /\ processed' = 0 /\ loop' = Stopped /\ submitted' = 0 /\ runs' = 0 /\ last' = NoEvent /\ clean' = TRUE
    /\ jobs' = [j \in Job |-> Unscheduled] /\ fired' = [j \in Job |-> {}] /\ due' = [j \in Job |-> {}]

\* validate: preflight passes, or the runner has failed.
Validate ==
    /\ ~running /\ lifecycle \notin Terminal
    /\ lifecycle' \in {"VALIDATING", "FAILED"}
    /\ UNCHANGED <<engineVars, prepared, running, resumeFrom, ctx, payload, file, pauses, processes, frame>>

\* prepare: a new engine and context; the checkpoint is restored, or its absence raises
\* and leaves the new context in place.
Restored == [file EXCEPT !.resumedAt = @ \cup ({file.time} \ {NoTime})]
PrepareFrom(resuming) ==
    /\ ~running /\ lifecycle \notin Terminal
    /\ lifecycle' = "PREPARING"
    /\ prepared' = TRUE
    /\ resumeFrom' = resuming
    /\ NewEngine
    /\ payload' = <<>>
    /\ ctx' = IF resuming /\ file # NoFile THEN Restored ELSE NewContext
    /\ UNCHANGED <<running, file, pauses, processes, frame>>
Prepare == PrepareFrom(resumeFrom)

\* resume: from now on the configuration names the checkpoint; then prepare, and run.
Resume == lifecycle # "CREATED" /\ PrepareFrom(TRUE)

\* Mutant: the events of the handlers are numbered from 0 again, over those of MARKET.
RunRenumbers ==
    /\ prepared /\ ~running /\ lifecycle \notin Terminal
    /\ lifecycle' = "RUNNING"
    /\ running' = TRUE
    /\ LET markets == Markets(IF resumeFrom THEN ctx.time ELSE NoTime)
       IN  /\ queue' = {m.event : m \in markets}
           /\ payload' = Payloads(markets)
    /\ UNCHANGED <<clock, seq, batch, engineState, jobs, processed, loop, submitted, runs, last, fired,
                   due, clean>>
    /\ UNCHANGED <<prepared, resumeFrom, ctx, file, pauses, processes, frame>>

\* run: the MARKET events that are left are submitted, then the engine runs over all bars.
Run ==
    /\ prepared /\ ~running /\ lifecycle \notin Terminal
    /\ lifecycle' = "RUNNING"
    /\ running' = TRUE
    /\ LET markets == Markets(IF resumeFrom THEN ctx.time ELSE NoTime)
       IN  /\ queue' = {m.event : m \in markets}
           /\ seq' = Cardinality(markets)
           /\ payload' = Payloads(markets)
    /\ UNCHANGED <<clock, batch, engineState, jobs, processed, loop, submitted, runs, last, fired, due, clean>>
    /\ UNCHANGED <<prepared, resumeFrom, ctx, file, pauses, processes, frame>>

\* What the engine does in between.
EngineStep ==
    /\ running
    /\ \/ runs = 0 /\ Begin(0, Horizon, NoCap, FALSE)
       \/ Drain
       \/ Complete
       \/ DropBatch
    /\ UNCHANGED <<runner, ctx, payload, frame>>

\* integrity_validate.
Integrity ==
    /\ ctx.curve # <<>>
    /\ Reconciles(ctx.books, ctx.curve[Len(ctx.curve)].equity)
    /\ FillsReplay(ctx.books)

\* How run ends: an exception fails it, unless its state is terminal already.
Conclude ==
    /\ running /\ runs = 1 /\ ~loop.active
    /\ running' = FALSE
    /\ lifecycle' = MovedTo(IF engineState = "FAILED" THEN "FAILED"
                            ELSE IF ctx.invalidated THEN "INVALIDATED"
                            ELSE IF Integrity THEN "COMPLETED" ELSE "FAILED")
    /\ UNCHANGED <<engineVars, prepared, resumeFrom, ctx, payload, file, pauses, processes, frame>>

\* pause, between two handlers or outside of a run: the checkpoint is written whatever
\* the state, without the flag of an invalidated context (to_checkpoint leaves it out);
\* a run in progress does not stop for it.
Pause ==
    /\ prepared /\ pauses < MaxPauses
    /\ file' = [ctx EXCEPT !.invalidated = FALSE]
    /\ lifecycle' = MovedTo("PAUSED")
    /\ pauses' = pauses + 1
    /\ UNCHANGED <<engineVars, prepared, running, resumeFrom, ctx, payload, processes, frame>>

\* cancel: nor does it stop for this.
Cancel ==
    /\ lifecycle \notin Terminal
    /\ lifecycle' = "CANCELLED"
    /\ UNCHANGED <<engineVars, prepared, running, resumeFrom, ctx, payload, file, pauses, processes, frame>>

\* The process ends at any point; another one starts a runner, with or without the checkpoint.
NewProcess ==
    /\ processes < MaxProcesses /\ processes' = processes + 1
    /\ NewEngine
    /\ lifecycle' = "CREATED" /\ prepared' = FALSE /\ running' = FALSE /\ resumeFrom' \in BOOLEAN
    /\ ctx' = NewContext /\ payload' = <<>>
    /\ UNCHANGED <<file, pauses, frame>>

RunStep == EngineStep \/ (\E e \in batch : Handle(e)) \/ Conclude

RunnerNext ==
    \/ RunStep
    \/ Validate \/ Prepare \/ Resume \/ Run \/ Pause \/ Cancel \/ NewProcess

RunnerSpec == RunnerInit /\ [][RunnerNext]_runnerVars

\* run is called and returns on its caller's thread, and the strategy's hooks return.
FairRunnerSpec == RunnerSpec /\ WF_runnerVars(RunStep)

-----------------------------------------------------------------------------
(* What a backtest promises.                                               *)

\* The runner's variables hold what its classes hold.
BacktestTypeOK ==
    /\ EngineTypeOK
    /\ lifecycle \in Lifecycle
    /\ {prepared, running, resumeFrom} \subseteq BOOLEAN
    /\ ctx.time \in Time \cup {NoTime} /\ ctx.curve \in Seq(Point) /\ ctx.books.fills \in Seq(Fill)
    /\ ctx.books.position \in [Instrument -> Position] /\ ctx.books.price \in [Instrument -> Nat]
    /\ DOMAIN payload \subseteq 0 .. seq

\* After every handler, and in every checkpoint, the books agree: equity by cash and
\* market value is equity by profits and fees, and cash and positions are what the
\* fills make of them (on_fill, apply_fill, to_checkpoint, load_checkpoint).
BooksReconcile ==
    \A c \in {ctx} \cup ({file} \ {NoFile}) :
        /\ Equity(c.books) = Capital + c.books.realized + Unrealized(c.books) - c.books.fees
        /\ FillsReplay(c.books)

\* No bar is accounted for twice, over any number of pauses, crashes and resumptions:
\* the equity curve has at most one point for an instant, in order of time.
OnePointPerBar ==
    \A m, n \in DOMAIN ctx.curve : m < n => ctx.curve[m].ts < ctx.curve[n].ts

\* Positions stay between the targets that the strategy chooses from and nothing: no two
\* cascades of one instant plan against the same positions.
NoOvershoot ==
    \A i \in Instrument : \E p, q \in Portfolios \cup {NoOrders} :
        ctx.books.position[i].qty \in p[i] .. q[i]

\* A completed run has a point for every bar, except for bars that its checkpoints were
\* taken in, and unless the last bar is one of these its last point is the equity of its
\* books; its context is not invalidated (submit_market_events, integrity_validate).
CompletedIsComplete ==
    lifecycle = "COMPLETED" =>
        /\ \A t \in Time : t \in ctx.resumedAt \/ \E n \in DOMAIN ctx.curve : ctx.curve[n].ts = t
        /\ Horizon \in ctx.resumedAt \/ ctx.curve[Len(ctx.curve)].equity = Equity(ctx.books)
        /\ ~ctx.invalidated

\* run returns, whatever the strategy does and whoever pauses or cancels.
RunReturns == running ~> ~running

\* PointInTimeData.md: violations set context.invalidated, call engine.invalidate, and
\* the runner transitions to INVALIDATED.
LeakageInvalidates ==
    ctx.invalidated /\ prepared /\ ~running => lifecycle \in {"INVALIDATED", "CANCELLED"}

=============================================================================
