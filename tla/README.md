# Verification of the trading platform's control core

TLA+ models, model-checking runs and machine-checked proofs for the parts of this
repository that carry control state: the order manager and the execution engine
(`execution`), the event loop, books and runner of the backtester (`backtesting`), the
risk ensemble (`risk/ensemble`), historical ingestion with its candle store
(`data/ingestion`, `data/storage`), and the paper-trading simulator (`paper_trading`).

Everything is read off the Python source. Paths below are relative to `src/iqrp/app/`.

## 1. Inventory

The repository is a quantitative research and trading platform: data → features
and forecasts → portfolio and risk → backtests, paper trading and execution. Most
of its 165,000 lines are numeric libraries. The components with control state are:

| component | state | operations | hard behaviour | what makes it correct |
|---|---|---|---|---|
| order manager (`execution/order_manager/order_manager.py`, `fill_manager.py`, `cancel_replace.py`) | registry of orders, index of idempotency keys, consumed event ids, recorded fills | create, validate and approve, submit, acknowledge, fill, cancel, replace, reject, generic events | duplicated, late and reordered venue events; two registries of ids; helpers that stamp an order and then raise | fills count once; states agree with fills; closed is final; replacements never double the quantity; keys are idempotent |
| order and lifecycle (`order.py`, `order_state.py`, `order_lifecycle.py`) | one order: state, quantities, stamps, links | the transition table, one helper per transition | illegal transitions after a partial effect | the table is never coerced |
| kill switch (`execution/types.py`) | engaged scopes: global, account, venue, strategy | engage, clear, is_blocked | engaged between the check and the act | nothing is submitted or routed while blocked |
| execution engine (`execution/engine.py`) | workflow state, halted flag, its own event ids | execute, apply_event, halt, kill, save, load | calls venue adapters in the middle of execute; halts during a run; exceptions half way; crash and reload | children stay within the parent; a halt is final; events count once across restarts; execute returns |
| parents and children (`parent_order.py`, `child_order.py`) | filled quantity and children of a parent | create child, synchronise | synchronised once per call, from the children of that call | never more than approved |
| event engine (`backtesting/event_engine`) | queue, sequence number, clock, recurring jobs, run state | submit, schedule, run, invalidate | handlers that submit, schedule, invalidate and raise in the middle of a batch; jobs materialised twice; a second run | time never runs backwards; every due occurrence exactly once; nothing after an invalidation; run returns |
| accounting (`backtesting/accounting`) | positions, cash, profits, fees, fill log | apply_fill, mark, reconcile | partial closes and flips | equity by cash is equity by profit; the log replays to the books |
| backtest runner and pipeline (`backtesting/runner`) | lifecycle, context, checkpoint file | validate, prepare, run, pause, resume, cancel | pause and cancel in the middle of a run; crash; a bar counted twice or skipped after resumption | books reconcile; one point per bar; a completed run is complete |
| risk ensemble (`risk/ensemble`) | state, two streaks with their pending targets | aggregate, risk_state, decision, validate_position, reset, export, import | alternating scores, overrides, forced states, older exports, missing metrics | recovers one confirmed rung at a time; the gate never overrides; calm leads to NORMAL |
| historical ingestion and candle store (`data/ingestion/historical.py`, `data/services`, `data/validation/repair.py`, `data/storage/parquet_store.py`) | cursor, checkpoint file, partitions | download, update, repair, write | failing requests, stale and short pages, holes, crashes between pages and partitions | what a call returns with is stored; what is stored stays; calls end |
| paper trading (`paper_trading/simulator.py`, `protocol.py`, `fills.py`) | cash, position, waiting orders, kill state | one candle at a time | latency, missing and repeated candles, faults, daily limits | books balance; losses halt; a halt is quiet; an order fits the position it meets |
| smart routing (`execution/smart_routing`) | venue states | route, route_residual, fallback | residual after a venue's reject | allocations add up; killed venues never picked |
| live ingestion (`data/ingestion/websocket.py`, `scheduler.py`, `rate_limiter.py`) | sequence numbers, seen ids, tokens | reconnecting session, periodic tasks | reconnects, duplicates and gaps | every message once |
| order groups, reconciliation, algorithms, cost models | summaries or none | – | rounding | – |
| everything else (alpha, features, labels, forecasting, regimes, portfolio, risk models, state space, time series, math, simulation) | data | – | numeric | not a question for a model checker |

How they interact. `ExecutionEngine` owns an `OrderManager` and a `SmartRouter` and
shares one `KillSwitch` object with both. `execute` resolves parents, asks the risk
engine, plans slices, puts each child straight into the manager's registry, validates,
routes and submits it, calls the venue adapter and books the answer through
`acknowledge` and `apply_fill`. Feeds call `engine.apply_event`, which filters by its
own ids and calls `order_manager.process_event`, which filters by the manager's ids;
fills are filtered once more by `FillManager`. `save` writes orders, kill switch, engine
state and the engine's event ids; the manager's registries are not saved.

`BacktestRunner` prepares an `EventDrivenEngine` and a `PipelineContext`, submits one
MARKET event per instant, and calls `run`; the pipeline's handlers are registered on the
engine and submit the next event of the cascade, twelve types from MARKET to
RISK_UPDATE, and book fills through `accounting`. `DataDownloader`, `DataUpdater` and
`DataRepair` call `HistoricalIngestor` and write what it returns to the store. The paper
simulator keeps its own books with the same position arithmetic as the backtester. The risk
ensemble is called by the trading loop for assessments and by the pre-trade gate.

Nothing here starts a thread. What overlaps is what venue adapters, feeds, operators,
handlers and strategy hooks do while the code that called them waits; what other coroutines do at
an await; and a crash at any point. The hazards of the code, each at its line, are in
`PROJECT.json`.

## 2. Modules

| module | what it is |
|---|---|
| `OrderManager` | the order manager, order lifecycle and kill switch |
| `OrderBook`, `BookRefinement` | the abstract specification (what an order book owes its clients) and the refinement mapping |
| `ExecutionEngine` | the engine around the order manager; extends `OrderManager` and uses its operators for everything `execute`, `apply_event` and `halt` do to orders |
| `EventEngine` | the event loop of the backtester with free handlers |
| `Accounting` | position book, capital and fill log as operators; used by two programs |
| `BacktestRunner` | runner, executor and pipeline; extends `EventEngine` and `Accounting` and puts the pipeline in the place of the free handlers |
| `RiskEnsemble` | hysteresis machine, aggregate, pre-trade gate |
| `MarketHistory` | downloader, updater, repair and candle store |
| `PaperSession` | the sequential paper-trading simulator; extends `Accounting` |
| `MC…` | model values, symmetry and small inputs for TLC |
| `…_proofs`, `FoldFacts` | theorems, and what the proofs need to know about folds and sums |

### OrderManager

| variable | in the code |
|---|---|
| `known`, `orders` | `OrderManager._orders` and the `Order` objects |
| `byKey` | `_by_idempotency`, for the keys that clients choose; derived keys contain a random id and never collide |
| `processed` | `_processed_events` |
| `ledger` | `FillManager._fills`; the ids in it are `_seen_events` |
| `kill` | the engaged scopes of `KillSwitch` |

One action per public method. A call that returns early or raises before it has
touched anything is a stuttering step; a call that raises later is modelled with what
it leaves behind: `ReplaceRaises` (stamped, not moved), `RejectEvent` in a state that
cannot be rejected, `Submit` against a kill switch (the order is failed, the event id
is not consumed). The lifecycle helpers are operators from order to order that stamp
first and move last, as in the code. `wanted` is auxiliary: the total size a
replacement was asked for.

Abstracted: quantities are whole lots (the code's tolerances of 1e-9 and 1e-12 only
absorb rounding); prices, fees, averages, audit records and time stamps are left out,
except that a stamp exists (`completed`, `rejected`). The validator's verdict and the risk callback are
free inputs, except that a quantity of zero is never accepted. The `kill_switch.check_*` and
`risk.enforce_hard_limits` settings have their default, TRUE; `fills.allow_overfill` is the
constant `AllowOverfill`.

`OrderBook` has five phases, two quantities and a set of used events; `Execute` needs an
unused event and may not exceed the size. The mapping: an order is `new` until approved,
`working` from submission until it closes; `done` is `filled_qty`; used events are those
of the ledger.

### ExecutionEngine

| variable | in the code |
|---|---|
| `state`, `halted`, `engineEvents` | `ExecutionEngine.state`, `._halted`, `._processed_events` |
| `filledQty`, `parentOf` | `ParentOrder.filled_qty`, `Order.parent_id` |
| `run` | the local variables of `execute`: the parent, the slices left, the child at its venue, `child_orders`, whether anything filled or failed; `budget` is auxiliary |
| `saved` | the file written by `save` |
| `history`, `swept` | auxiliary: the fills the orders in memory account for; whether a halt cancelled the open orders since the last load |

`execute` is cut where control leaves it: `Begin` (up to the plan), then per slice one
step up to the venue (`SliceSubmitted`, or `SliceBlocked`, `SliceEmpty`, `SliceRefused`,
`SliceBroken`, `SliceUnrouted`, `SliceLeft`) and one from its answer on (`VenueWithoutFill`,
`VenueFill`, `VenueRaises`), then `Finish`. `Abort` is the `except` branch, `Escape` an
exception that it does not catch. Between the two halves of a
slice, and between calls, anything in `ApplyEvent`, `Halt`, `Kill`, `Clear`,
`ClientOrder` and `Save` may happen; `Restart` may happen anywhere, `Load` when no run is in progress.

Assumed of callers: one parent per call of `execute`, and no adapter calls `execute` or
`load` again from inside. Orders that clients place with the manager next to the engine are only created
here; the rest of their life is the subject of `OrderManager`. The plan of an algorithm
is any sequence of quantities that passes the engine's own check. `route` is used
through one fact: it never picks a killed venue (`smart_routing/router.py`,
`_venue_eligible`). The random part of order ids never repeats.

### EventEngine

| variable | in the code |
|---|---|
| `clock`, `queue`, `seq` | `BacktestClock._now`, `EventQueue._heap`, `._sequence` |
| `jobs` | `EventScheduler._jobs`: next time, interval, end, enabled |
| `engineState`, `processed` | `EventDrivenEngine._state`, `._processed` |
| `loop`, `batch` | the call of `run` in progress and what is left of the batch it drained |
| `submitted`, `runs`, `last`, `fired`, `due`, `clean` | auxiliary: two bounds, the last delivery, what jobs delivered and owe, whether anything happened that may fail the run |

One step is one turn of the loop up to its batch (`Drain`, `Tick`, `Complete`,
`OutOfOrder`) or one event with all its handlers (`Deliver`, `DeliverAndSchedule`,
`Raise`); `DropBatch` is what an invalidation does to the rest of a batch. `Begin` moves the
clock, seeds the jobs up to the end of the run (`seed_until`), and sets RUNNING; `Tick` and `Drain`
put what is due again (`enqueue_due`). The order of a heap is `Before`, by time, priority
and insertion; insertion numbers of job events are shared by the occurrences that one
job puts at once, which never have the same time.

### Accounting and BacktestRunner

A position is its signed quantity and its cost (quantity times average price), so that
amounts stay whole numbers; `Booked` is `apply_fill` with its four cases (open, add,
reduce, flip), and `FillsReplay` and `Reconciles` are the identities of `reconciliation.py`.

| variable | in the code |
|---|---|
| `lifecycle`, `prepared`, `running`, `resumeFrom` | `Lifecycle.state`, whether there is an executor, whether `run` is in progress, `config.resume_from` |
| `ctx`, `payload` | `PipelineContext` (time, books, equity curve, invalidated), the payloads of queued events |
| `file` | `checkpoint.json` |
| `frame` | the data set, chosen at the start |
| `pauses`, `processes` | bounds |

Every handler of the pipeline is a disjunct of `Handle`. The strategy is free: any
portfolio or none, a MARKET event with a later bar slipped in (`OnMarketLookahead` is
what `_pit_check` makes of it), or an exception in any hook (`HookRaises`). Executions are
free between nothing and the whole order, at the close and half a spread. `Pause`, `Cancel`
and `NewProcess` may come between any two handlers.

### RiskEnsemble

| variable | in the code |
|---|---|
| `machine` | the counters of `EnsembleStateMachine` |
| `exported` | the last `export_state` payload at hand |
| `verdict` | the decision the last step returned and what it was asked |
| `heard` | auxiliary: the last evaluations since the last forced step |
| `calm` | environment: from now on only the quiet score is heard |

A score is a level of a finite scale together with the number of hot dimensions; the
thresholds are levels of the same scale, so that exactly the comparisons of the code
remain. `Aggregate`, `RiskStateOf`, `ValidatePosition`, `Reset`, `Export` and `Restart` (a
new process imports) are the public operations; `previous_state` is a free argument.

### MarketHistory

| variable | in the code |
|---|---|
| `store`, `torn` | the candles in the Parquet partitions, and the partitions a crash left half written |
| `checkpoint` | the checkpoint file |
| `job` | the service call in progress: kind, cursor, attempt, collected rows, gaps left |
| `outcome` | how the last call ended |
| `crashes` | bound |

A candle is its open time in steps of the timeframe. `Download`, `Update` and `Repair`
begin a call; `FetchPage`, `FetchStalePage`, `FetchFails` and `NothingToFetch` are the turns
of the paginated loop with its retries; `WritePartition` writes one partition of what was
collected, merged with what it holds; `Crash` may happen at any of these points.

### PaperSession

| variable | in the code |
|---|---|
| `latency`, `bar`, `seen`, `stale` | `latency_bars`, the loop index, whether a candle was processed, bars without a price |
| `session` | cash, position, cost, realised profit, fees, equity, peak, start of the day |
| `pending`, `halted` | orders waiting for their bar, with quantity and `mid_at_order`; `kill.halted` |

One action per kind of bar: `MissingPrice`, `BadCandle` (repeated or out of order), and
`Candle`, which is the whole body of the loop: roll the day, fill what is due, mark,
`check_risk`, place one order, fill it at once without latency, mark again.

Targets and limits are weights of the equity, as in `risk.py`, in per cent. `Held` is the
position's weight and `Approved` what the three clips of `check_risk` leave of the target, the
turnover clip around the drifted weight included; both are kept times the equity, so that no
division is needed. `OrderLots` turns the difference into lots at the equity and the price of the
order's bar. Abstracted: the code trades fractions of a lot, the model leaves off the part
below a whole lot (rounded towards no trade, so it never trades further than the code). A fill's price is the close of its
bar, worse by a fixed `Spread`; commission is per lot. The code's guard against an equity of zero
(`simulator.py:222`) is never met where orders are sized: such a session has lost all of its
peak and is halted by its drawdown first (lemma `EquityLeft`).

## 3. Runs

| run | properties | bounds | states |
|---|---|---|---|
| `OrderManager` | `FilledMatchesLedger`, `FillOncePerEvent`, `StateMatchesFills`, `KeyBindsOneOrder`, `ReplacementLinked`, `ReplacementExact`, `TerminalFrozen`, `ImplementsBook` | 2 orders, 3 events, 3 lots, 1 key, 1 kill scope | 77,558 |
| `EngineHalt` | `EngineTypeOK`, `SweptStaysQuiet`, `RunWithinResidual` | 2 orders, 1 feed event, 2 slices, 2 lots, global kill; save and crash anywhere, load into a new process | 1,708,122 |
| `EngineRestart` | `FillsCountOnce`, `ClosedStaysClosed`, `ExecuteReturns` | 1 order, of a run or of a client, 2 feed events, 2 slices, 3 lots; save, crash, load into an empty engine; fairness | 116,816 |
| `EventEngine` | `EngineTypeOK`, `OccurrenceOnce`, `CleanRunsComplete`, `DeliveryOrder`, `CompletedIsDrained`, `NothingAfterInvalidation`, `RunEnds` | 2 event types, 1 recurring job, instants 0..2, 2 submitted events, 2 runs | 281,713 |
| `Backtest` | `BacktestTypeOK`, `BooksReconcile`, `OnePointPerBar`, `NoOvershoot`, `CompletedIsComplete`, `RunReturns` | 2 instruments, 2 bars, 2 data sets (one with a missing row), 2 portfolios, 1 pause, 2 processes, drawdown limit 8 | 413,118 |
| `RiskEnsemble` | `RiskTypeOK`, `RecoveryConfirmed`, `GateIsSafe`, `CalmRecovers` | the default thresholds as 8 interleaved levels, 7 scores, 2 confirmations each way, 2 overrides | 36,370 |
| `MarketHistory` | `HistoryTypeOK`, `CallsCover`, `StoreOnlyGrows`, `CallsEnd` | 2 days of 3 candles with a hole, pages of 2, 2 attempts, 3 windows, 2 crashes | 20,972 |
| `Paper` | `PaperTypeOK`, `BooksBalance`, `LossesHalt`, `OrdersWithinLimit`, `HaltIsQuiet` | 5 bars, 2 prices, 3 target weights, latency 0, 1 and 2, spread and fee 1, position, turnover and loss limits that bite | 74,895 |

`TypeOK` of the order manager is a conjunct of the engine's type invariant and checked there.
`StateMatchesFills` is checked for the manager and proved for the manager and the engine.

Runs that show where code and documentation part (each checks one property and TLC
finds it violated):

| run | property | what happens |
|---|---|---|
| `EngineOverfill` | `ParentNeverOverfilled` | the first slice fills, the second is refused, `execute` raises inside and skips the synchronisation of the parent (`engine.py:670`); executed again, the parent fills 3 of 2 lots |
| `BacktestLookahead` | `LeakageInvalidates` | the engine's `except` branch overwrites INVALIDATED by FAILED (`event_engine/engine.py:251`), so a leak ends the run FAILED and not INVALIDATED as `docs/PointInTimeData.md` says |
| `HistoryResume` | `ResumeCovers` | the checkpoint is saved page by page, the rows are returned and stored only at the end (`historical.py:137`): a download resumed after a crash never stores the pages before its checkpoint |
| `PaperLatency` | `PositionWithinLimit` | with two bars of latency each bar orders the whole distance to the target again, although an order is waiting (`simulator.py:264`): the position passes `max_position`. The run has one price and no costs, so nothing but the two orders moves the weight |

Further configurations stand beside these and are not among the runs. `EngineSlices` checks the
three properties of `EngineHalt` with loads over whatever is in memory and a client's order
beside a run, without a feed event, and passes (285,452 states). The others TLC finds violated: `EngineHaltState` (`HaltedLeavesByTable`: the end of a run overwrites HALTED,
`engine.py:728`), `EngineReload` (`FillsCountOnce` when an older file is loaded over newer
orders, `engine.py:1032`), `EngineKeys` (`OneOrderPerKey`: `load` does not restore
idempotency keys), `OrderReplaceable` (`ReplaceableCanMove`: a submitted order counts as
replaceable, the table does not let it go to REPLACED), `RiskEscalation`
(`EscalationConfirmed`: a blocked recovery does not break an escalation streak,
`state_machine.py:198`).

Why the bounds are enough.
- Order manager: the interesting cases need two orders (an event delivered to the wrong
  one; a replacement) and three events (two fills and a duplicate); three lots give
  a partial fill, a second one and a last one.
- Engine: two non-empty slices, of a lot each, are the least that can exceed a residual together
  or have a halt between them with something left to send; two orders let both become
  children, or a second call follow. Loads over living orders and a client's order beside a
  run would make this run too long with a feed: `EngineSlices`, above, has them without
  one, and the theorems have all of it together.
  `EngineRestart` has quantities up to three so that the venue and two feed events can share
  an order; one order is enough because the promise is about each order.
- Event engine: three instants give an event in the past, present and future; two types
  decide priority; two runs seed a job twice; one run may end in the middle of a job's life.
- Backtest: two bars are the least for a bar to be skipped or counted twice around a
  checkpoint; the two data sets reach the drawdown limit and a missing row; the two
  portfolios, of two lots and of one short, a flip and, by an order filled in part, a partial close.
- Risk: confirmations of two make a streak, its interruption and its completion differ.
- History: a hole at a page boundary, two partitions, a repair with a gap in each, and
  two crashes (one in a download, one in the resumption).
- Paper: five bars let an order wait, a switch trip, and an order come due after it; with a latency
  of two, two orders wait at a time. A price step of a half moves the weight of a held
  position across the limit, so that orders that reduce it arise; targets beyond the limit
  and a flip beyond the turnover reach every clip.

Symmetry is used for order and event ids (nothing compares them), in the runs without liveness.
Deadlock is checked in `RiskEnsemble` and `MarketHistory`; the other bounded systems
really stop, when ids, runs or bars are used up. Two bounds in guards of the engine say so: `Begin` and
`ClientOrder` leave enough fresh ids for every slice, so that no run blocks for lack of one.

Fairness, always weak and always of one caller's own loop:
- `ExecuteStep`: `execute` loops over a finite list on its caller's thread, and its only
  external call, the venue adapter, has to return. Halts, feeds and operators are not fair.
- `LoopStep` and `RunStep`: `run` is a loop on its caller's thread, and handlers and
  hooks return or raise. Pauses and cancels are not fair.
- `Step` of `MarketHistory`: an awaited request answers or raises, and a write returns.
- `HearCalm`: once the market is quiet the trading loop keeps assessing it.

Mutants. Each property of a passing run is paired in `PROJECT.json` with a change of
the model that a plausible bug would make (the residual checked slice by slice, the ids
not saved, an exclusive end, a streak not reset, a page's last row dropped ...); the run
then violates it. The mutated operators stand next to the ones they replace and are
marked in the modules.

## 4. Proofs

TLAPS checks these for every value of the constants, under the named assumptions.

| theorem | module | statement |
|---|---|---|
| `TypeCorrect`, `FillsAreIdempotent`, `StatesMatchFills`, `ChainsAreLinear`, `ReplacementsAreExact`, `KeysAreIdempotent` | `OrderManager_proofs` | `Spec => []` of `TypeOK`, `FillOncePerEvent`, `StateMatchesFills`, `ReplacementLinked`, `ReplacementExact`, `KeyBindsOneOrder` |
| `ClosedOrdersStayClosed` | | `Spec => TerminalFrozen` |
| `FillsAddUp` | | `Spec => []FilledMatchesLedger` |
| `ManagerImplementsBook` | | `~AllowOverfill => (Spec => ImplementsBook)` |
| `HaltIsFinal` | `ExecutionEngine_proofs` | `EngineSpec => []SweptStaysQuiet` |
| `EngineTypes`, `RunsStayWithinResidual` | | `EngineSpec => []` of `EngineTypeOK`, `RunWithinResidual` |
| `FillsCountOnceAcrossRestarts` | | `~LoadAnywhere => (EngineSpec => []FillsCountOnce)` |
| `EngineStatesMatchFills` | | `EngineSpec => []StateMatchesFills` |
| `EngineClosedStaysClosed` | | `~LoadAnywhere => (EngineSpec => ClosedStaysClosed)` |
| `EngineTypes`, `OccurrencesAreUnique`, `FailuresHaveCauses` | `EventEngine_proofs` | `EngineSpec => []` of `EngineTypeOK`, `OccurrenceOnce`, `CleanRunsComplete` |
| `EventsComeInOrder`, `InvalidationIsFinal`, `CompletedRunsDelivered` | | `EngineSpec =>` `DeliveryOrder`, `NothingAfterInvalidation`, `CompletedIsDrained` |
| `CountersCohere`, `RecoveriesAreConfirmed` | `RiskEnsemble_proofs` | `Spec => []` of `RiskTypeOK`, `RecoveryConfirmed` |
| `GateNeverOverrides` | | with `FallbackAction # "APPROVE"`: `Spec => []GateIsSafe` |
| `HistoryTypes`, `StoredCandlesStay` | `MarketHistory_proofs` | `Spec => []HistoryTypeOK`, `Spec => StoreOnlyGrows` |
| `ReturnedCallsCover` | | with `~SpanCapped`: `Spec => []CallsCover` |
| `BacktestTypes`, `BacktestBooksReconcile`, `BacktestOnePointPerBar`, `BacktestNoOvershoot`, `BacktestCompletedIsComplete` | `BacktestRunner_proofs` | `RunnerSpec => []` of `BacktestTypeOK`, `BooksReconcile`, `OnePointPerBar`, `NoOvershoot`, `CompletedIsComplete` |
| `PaperTypes`, `PaperBooksBalance`, `PaperLossesHalt`, `PaperOrdersWithinLimit` | `PaperSession_proofs` | `Spec => []` of `PaperTypeOK`, `BooksBalance`, `LossesHalt`, `OrdersWithinLimit` |
| `PaperHaltIsQuiet` | | `Spec => HaltIsQuiet` |

Assumptions: the named `ASSUME`s of the modules (None is no id; bounds are naturals;
scopes are owners, venues or global; event ids of acknowledgements and fills are
ids and distinct; inputs are of their types; what the exchange lists is finite; instruments are
finitely many, each bar has a row, prices are positive and above the
spread, fees are not negative, the paper session has capital and a drawdown limit of at most 100 per cent; a backtest's
event types and priorities are those of the cascade), which TLC evaluates in every run. A
hypothesis in the table (`~AllowOverfill`, `~LoadAnywhere`, `~SpanCapped`, the
fallback) is a setting, an adapter or a use of the code for which the promise holds; a configuration of
section 3 shows it broken for the other setting, or section 5 says where.

The order manager. `IInv` is the conjunction of the type invariant, `StateMatchesFills`,
`ReplacementLinked`, `ReplacementExact`, `KeyBindsOneOrder`, `FillOncePerEvent` and what
they need of each other: exactness needs that a replaced order never fills again, which
is linkage plus the state table; linkage needs that an id not yet registered points
nowhere. First come lemmas about the lifecycle helpers, then every action is shown to be
one of five kinds of step (it touches one order, fills one, creates one, replaces one, or
moves a kill switch), and each kind preserves the invariant. `LedgerInv` adds that the
ledger is finite and that orders not yet registered have filled nothing.

Sums. `FilledIn` and the sums over plans and children are the community modules'
folds, which choose a function that satisfies a recursive equation. `FoldFacts` proves that there is
one such function, and from it the facts the proofs use: a sum over no element is 0, an
element more adds its value, equal functions have equal sums, a sequence is its head and
its tail. The library's induction theorems take an operator and cannot be instantiated
here; in their place stands an induction over the subsets of a finite set whose hypothesis is
a *set* of subsets (`SubsetInduction`), which follows from the well-foundedness of
strict inclusion.

The refinement. Initial states map to initial states; under `IInv` each action is one step
of the book or leaves it unchanged (acknowledgements, kill switches, a stamped order that
raised). `~AllowOverfill` is needed: with overfills allowed the book's bound does not hold.

The engine. `SweptStaysQuiet` is not inductive alone: a load may bring back a file.
`QuietInv` adds that a saved state which was swept was halted and quiet when it was saved.
`EngineInv` has three parts. `TypeInv` adds to the types those of the file. `RunInv` adds
to the promise what makes it inductive: the children's quantities *and the slices still
to come* stay within the budget, so that a slice moves lots from one side to the other.
`BookInv` says where fills come from: a fill of the feed is in the engine's consumed
ids, a fill of the venue is the one id of its child and is not there before the venue has
answered, and the file's fills agree with the file's orders and ids. That is what makes
a repeated delivery harmless after a load, and why it needs `~LoadAnywhere`: loaded over
newer orders, ids are rolled back and orders are not.
`FitInv` says of the registry and of the file that each order's state agrees with its
fills. Every action but those of a new process lets each order *live* (`Lives`): it still agrees,
and a closed one keeps its state and quantities. The delicate case is the venue's answer,
which was decided for the child as it was sent and is applied to the child as feeds and
halts have left it (`VenueLives`). A load puts back orders that fit; over newer orders it may
reopen a closed one, hence `~LoadAnywhere` in `EngineClosedStaysClosed` alone.

The event engine. `OccurrenceInv` keeps, for every job, that whatever it put lies before its
next time and is in only one of queue, batch and `fired`. `DeliveryInv` says that what is queued
for the instant of the last delivery was put after its batch was drained, and that all
that is left of the batch may follow; `OwedInv` that an occurrence that is due has been
delivered or is queued; `CleanInv` that in a clean run nothing in the queue is overdue
and no job falls due any more.

The risk machine. `RiskInv` relates the recovery streak to the evaluations heard: a streak
of n stands for n evaluations in a row from the state in force, all under its recovery
threshold, in the machine and in an export.

The history. `HistoryInv` is the type of each phase of a call; `CoverInv` says that every
listed candle a call was asked for is stored, collected, still ahead of its cursor, or in
a gap it has yet to go through. Pages, retries, holes and repairs preserve it, and it is
false for an adapter that truncates ranges.

The backtest. Its proofs stand on four invariants, each using the ones before it.
- `BaseInv`: types; events have numbers of their own and carry their payloads; every set of
  books, in the context and in the checkpoint, balances (`Balanced`: cash and the signed costs of the
  positions are capital plus realised profit less fees). A fill opens, adds to, reduces or
  flips a position; `PositionFacts` does these four cases of `Booked` for one instrument and the
  sum over instruments changes by that one term. `BooksReconcile` follows with what the
  fills say of themselves.
- `CurveInv`: at any moment *one* pending event carries an instant on (market, feature, order,
  execution, position, risk update in turn), fills come before the POSITION of their batch, and what
  is to come of an instant precedes its point on the curve. Priorities
  deliver fills and bars that look ahead before the carrier of their batch, which is therefore delivered
  alone (`Alone`). Hence no bar gets two
  points, with pauses and a resumption in the middle of the cascade.
- `TargetInv`: lots in orders and fills lead from the position to a portfolio's and not past it;
  there is at most one fill per instrument in flight. Executions in part, orders
  left out and a resumption keep that, and so a position lies between two portfolios, or one and nothing.
- `CompleteInv`: every instant is on the curve, or a checkpoint was taken in it, or the event that
  carries it is still pending. When nothing is pending, nothing was skipped.

The paper session. `PaperInv` says that orders wait in the order of their bars, each for a bar of
its own, at most `latency` of them, and that the session's books balance; halting and losses follow
from it step by step. `OrdersWithinLimit` is inductive beside it. `OrderLotsFacts`
shows that an order leads from the position towards the clipped target and not past it, and that a target
within the limit of a positive equity stays within it when part of a lot is left off; the turnover clip only
shortens the way, so the position ends within the limit or nearer to zero. `EquityLeft` supplies the
positive equity. With one bar of latency at most, the one order that waits is filled, or refused, on the
next candle in order, and nothing touches the books before. It says nothing of the *weight* held later: prices that move, refused rebalances,
fees and a halt carry the weight past `max_position`, and the code does not claim
otherwise for those. With two orders in flight the second was sized without the first, and
the position passes the limit at a constant price: that is the run `PaperLatency`.

Only model-checked: liveness (`ExecuteReturns`, `RunEnds`, `RunReturns`, `CalmRecovers`,
`CallsEnd`), which is out of the prover's reach. Every other property of a passing run is
stated by a theorem of the table.

## 5. Observed and not run

Read while modelling; none of them has a run of its own.
- With `missing_metrics_fallback_action` set to APPROVE, the decision approves on missing
  metrics although `docs/RiskDecision.md:71` excludes it; hence the assumption of
  `GateNeverOverrides`. Missing metrics in TRADING_HALT move the machine *down* to the
  fallback state (`aggregator.py:142-160`).
- An adapter that truncates ranges (Coinbase, `coinbase.py:68-70`) answers an empty page for
  an empty span, and the download ends there (`historical.py:119-120`): candles after a long hole are
  not fetched. `CallsCover` is for adapters that truncate pages.
- The checkpoint's key has no window (`historical.py:100`): a download resumes from another
  window's cursor. A partition is written in place (`parquet_store.py:98`): a crash tears it.
- The paper simulator clips targets and orders, never the position: its weight passes `max_position`
  when the price moves, a rebalance is refused, or the session is halted with a position.
  Its stale-data switch never trips (`simulator.py:180`), a halted session never closes its position, and its reconciliation compares a number with itself.
- The event engine checks `max_events` between batches only, and `run` after a failure is
  RUNNING again. `scheduler.cancel` does not revoke occurrences already seeded.
- `to_checkpoint` (`runner/context.py:76`) does not write `invalidated`, and `pause` writes the
  checkpoint whatever the state (`runner/runner.py:271-280`): a context that a drawdown beyond `max_drawdown` or a leak has
  invalidated can be paused, and a run resumed from that file may complete.
  `docs/PointInTimeData.md:122` says "Leakage is terminal" and "Do not patch and continue". The
  model does what the code does (`Pause`); no property claims either.
- A pause in the middle of a bar loses that bar's point of the equity curve; no code reads
  the pause flag; `cancel` does not stop a run; `reconcile_capital` accepts any of
  three identities.

## 6. Not modelled

Runs over several parents of one call and nested calls from inside an adapter; order
expiry (no caller); several owners of one order (account and strategy); the scoring,
weights and confidence of the risk ensemble; the reading filters of the store; walk-forward
and research campaigns (batch studies that compose runs modelled here); smart routing's
allocation and fallback; live ingestion. Numeric libraries (features, forecasts, regimes, portfolio
optimisation, cost and risk models) have no control state: what they return is a free
input where a modelled component reads it. `PROJECT.json` lists each with its reason.

## 7. Plan

1. Live ingestion: the reconnecting websocket with its sequence numbers and seen ids,
   and the rate limiter.
2. Smart routing: allocations add up to the order, a residual is routed once.
3. Refinements of the composition: the engine between two restarts as an implementation of the
   order book, and the backtest's calendar as an implementation of a list of instants.
