------------------------------ MODULE PaperSession ------------------------------
(***************************************************************************)
(* The sequential paper-trading simulator (paper_trading/simulator.py):    *)
(* bar by bar it screens the candle, rolls the day, fills the orders that  *)
(* are due, marks, asks check_risk, and places one order for the target.   *)
(*                                                                         *)
(* Targets and limits are weights, in per cent of the equity, and an order *)
(* is sized from the approved weight by the equity and the price of its    *)
(* bar. A weight is kept times the equity, so that all amounts are whole   *)
(* numbers; the part of a lot that the code's floats would trade is left   *)
(* off an order. A position's cost is its lots times the average price,    *)
(* and its arithmetic is Accounting's: both programs open, add, reduce and *)
(* flip alike.                                                             *)
(***************************************************************************)
EXTENDS Accounting, SequencesExt

CONSTANTS
  Prices,          \* the closes of the candles
  Targets,         \* the target weights of the bars, per cent
  MaxBars,         \* bound: the candles of the session
  Latencies,       \* the values of latency_bars
  Fee,             \* commission per lot
  Spread,          \* half-spread and slippage: what a fill's price is worse than the close
  MaxPosition,     \* limits.max_position, per cent
  MaxGross,        \* the lesser of limits.max_gross and limits.max_net, per cent
  MaxTurnover,     \* limits.max_turnover_per_bar, per cent
  MaxDrawdown,     \* limits.max_drawdown, per cent
  MaxDailyLoss,    \* limits.max_daily_loss, per cent
  StaleThreshold,  \* limits.stale_bars_threshold
  HaltOnBadCandle  \* inject: halt_on_duplicate and halt_on_ooo

ASSUME PaperAssumption ==
  /\ Prices \subseteq Nat \ {0} /\ Targets \subseteq Int /\ Latencies \subseteq Nat
  /\ {MaxBars, Fee, Spread, MaxPosition, MaxGross, MaxTurnover, MaxDrawdown, MaxDailyLoss,
      StaleThreshold} \subseteq Nat
  /\ \A price \in Prices : Spread < price
  /\ HaltOnBadCandle \in BOOLEAN
  /\ Capital > 0 /\ MaxDrawdown <= 100

VARIABLES
  latency,   \* latency_bars of this session
  bar,       \* i: candles read so far
  seen,      \* a candle was processed: a timestamp can repeat or run backwards
  stale,     \* bars without a price since the last good candle
  session,   \* [cash, qty, cost, realized, fees, equity, peak, dayStart]
  pending,   \* session.pending: the orders waiting for their bar, [ready, qty, mid]
  halted     \* session.kill.halted

vars == <<latency, bar, seen, stale, session, pending, halted>>

BTC == CHOOSE i \in Instrument : TRUE
Clip(n, bound) == IF n > bound THEN bound ELSE IF n < -bound THEN -bound ELSE n

-----------------------------------------------------------------------------
(* Fills. *)

Marked(s, price) == [s EXCEPT !.equity = s.cash + s.qty * price,
                              !.peak = Max({@, s.cash + s.qty * price})]

\* A purchase pays the spread, a sale receives less by it.
FillPrice(lots, price) == price + Sign(lots) * Spread

\* _apply_fill: no lots is a reject; otherwise the books and the equity move.
Applied(s, lots, price) ==
  LET p == [qty |-> s.qty, cost |-> s.cost]
      f == [inst |-> BTC, qty |-> lots, price |-> FillPrice(lots, price),
            fee |-> Fee * Magnitude(lots)] IN
  IF lots = 0 THEN s
  ELSE Marked([s EXCEPT !.cash = @ - lots * f.price - f.fee,
                        !.qty = PositionAfter(p, f).qty,
                        !.cost = PositionAfter(p, f).cost,
                        !.realized = @ + RealizedBy(p, f),
                        !.fees = @ + f.fee], price)

\* The fill model makes all of an order, a part of it, or nothing (REJECTED).
FillsOf(order) == {Sign(order.qty) * n : n \in 0 .. Magnitude(order.qty)}

\* Some of the pending orders, by their places in the queue.
PendingAt(places) ==
  FoldLeftDomain(LAMBDA orders, k : IF k \in places THEN Append(orders, pending[k]) ELSE orders,
                 <<>>, pending)
Due == PendingAt({k \in DOMAIN pending : bar >= pending[k].ready})
\* Mutant: an order that is filled stays in the queue.
StillPendingAll == pending
StillPending == PendingAt({k \in DOMAIN pending : bar < pending[k].ready})

\* The due orders in turn; fills[k] is what the k-th of them got.
Filled(s, fills, price) == FoldLeft(LAMBDA a, lots : Applied(a, lots, price), s, fills)

-----------------------------------------------------------------------------
(* check_risk. *)

Breaches(loss, of, percent) == of > 0 /\ loss * 100 >= percent * of

\* The day starts from the equity the previous bar left.
Rolled(s, newDay) == IF newDay THEN [s EXCEPT !.dayStart = s.equity] ELSE s

\* Mutant: the drawdown is measured from the start of the day.
TripsOnDay(s) == Breaches(s.dayStart - s.equity, s.dayStart, MaxDailyLoss)

\* Any of the switches check_risk trips. Every processed bar resets stale before.
TripsOnLoss(s) ==
  \/ Breaches(s.peak - s.equity, s.peak, MaxDrawdown)
  \/ Breaches(s.dayStart - s.equity, s.dayStart, MaxDailyLoss)
Trips(s, fault, staleBars) == fault \/ staleBars >= StaleThreshold \/ TripsOnLoss(s)

\* Weights, times the equity: the position's (session.weight), and what check_risk makes
\* of a target. The equity is above 0: a session at or below it has lost all of its peak
\* and is halted by its drawdown before it sizes an order.
Held(s, price) == 100 * s.qty * price
Approved(s, target, price) ==
  LET within == Clip(Clip(target, MaxPosition), MaxGross) * s.equity IN
  Held(s, price) + Clip(within - Held(s, price), MaxTurnover * s.equity)

\* The whole lots from the position to the approved weight, at the equity and the price
\* of the bar.
WholeLots(amount, price) == Sign(amount) * (Magnitude(amount) \div (100 * price))
\* Mutant: an order for all of the approved weight, whatever is held.
OrderLotsFromFlat(s, target, price) == WholeLots(Approved(s, target, price), price)
OrderLots(s, target, price) ==
  WholeLots(Approved(s, target, price) - Held(s, price), price)

-----------------------------------------------------------------------------

Init ==
  /\ latency \in Latencies
  /\ bar = 0 /\ seen = FALSE /\ stale = 0
  /\ session = [cash |-> Capital, qty |-> 0, cost |-> 0, realized |-> 0, fees |-> 0,
                equity |-> Capital, peak |-> Capital, dayStart |-> Capital]
  /\ pending = <<>>
  /\ halted = FALSE

NextBar == bar < MaxBars /\ bar' = bar + 1

\* A candle without a price: nothing else happens on its bar.
MissingPrice ==
  /\ NextBar
  /\ stale' = stale + 1
  /\ UNCHANGED <<latency, seen, session, pending, halted>>

\* A candle whose timestamp was seen or runs backwards.
BadCandle ==
  /\ NextBar
  /\ seen
  /\ halted' = (halted \/ HaltOnBadCandle)
  /\ UNCHANGED <<latency, seen, stale, session, pending>>

\* What is asked of a bar once its due orders are filled: the order that takes the
\* position to the approved weight, filled at once without latency. A halted session
\* places none, and nothing closes its position.
HaltsIfStillTripped(s, fault) == Trips(s, fault, 0)
Halts(s, fault) == halted \/ Trips(s, fault, 0)

PlaceOrder(s, target, halts, price) ==
  LET order == [ready |-> bar + latency, qty |-> OrderLots(s, target, price), mid |-> price] IN
  IF halts \/ order.qty = 0
  THEN session' = s /\ pending' = StillPending
  ELSE IF latency > 0
  THEN session' = s /\ pending' = Append(StillPending, order)
  ELSE /\ \E got \in FillsOf(order) : session' = Applied(s, got, price)
       /\ pending' = StillPending

\* A candle in order: the bar of run_sequential_paper. The fault is any injected
\* failure (model, signal, reconciliation, execution); an exchange timeout is a fault
\* on a bar whose due orders are all rejected.
Candle(price, target, newDay, fault, fills) ==
  /\ NextBar
  /\ seen' = TRUE /\ stale' = 0
  /\ DOMAIN fills = DOMAIN Due
  /\ \A k \in DOMAIN fills : fills[k] \in FillsOf(Due[k])
  /\ LET s == Marked(Filled(Rolled(session, newDay), fills, price), price) IN
     /\ halted' = Halts(s, fault)
     /\ PlaceOrder(s, target, halted', price)
  /\ UNCHANGED latency

\* What the due orders may be filled with.
FillChoices == [DOMAIN Due -> UNION {FillsOf(Due[k]) : k \in DOMAIN Due}]

Next ==
  \/ MissingPrice
  \/ BadCandle
  \/ \E price \in Prices, target \in Targets, newDay, fault \in BOOLEAN, fills \in FillChoices :
       Candle(price, target, newDay, fault, fills)

Spec == Init /\ [][Next]_vars

-----------------------------------------------------------------------------

\* Orders never pile up beyond the latency, whatever bars were skipped or orders
\* rejected: one waits for each of the last latency bars at most, in their order.
PaperTypeOK ==
  /\ Len(pending) <= latency
  /\ \A k \in DOMAIN pending : pending[k].qty # 0 /\ pending[k].ready < bar + latency
  /\ \A k \in DOMAIN pending : k > 1 => pending[k - 1].ready < pending[k].ready
  /\ session.peak >= session.equity

\* The cash and the cost of the position are the capital, the realised profit and the
\* fees, through partial fills, reductions and flips (_apply_fill); no lots, no cost.
BooksBalance ==
  /\ session.cash + Sign(session.qty) * session.cost
       = Capital + session.realized - session.fees
  /\ session.qty = 0 <=> session.cost = 0

\* A session that is halted stays so, places no order again, and moves its position by
\* orders placed before: once they are gone it holds it to the end.
HaltIsQuiet ==
  [][halted => /\ halted'
               /\ Range(pending') \subseteq Range(pending)
               /\ pending = <<>> => session'.qty = session.qty]_vars

\* With latency, a session that is not halted is inside its loss limits at its last
\* mark: the drawdown from the peak it ever reached and the loss of its day.
LossesHalt ==
  latency > 0 /\ ~halted /\ seen =>
    /\ ~Breaches(session.peak - session.equity, session.peak, MaxDrawdown)
    /\ ~Breaches(session.dayStart - session.equity, session.dayStart, MaxDailyLoss)

\* With one bar of latency at most, an order waits for the position it was sized for: at
\* its own price it takes the position to within max_position of the equity or nearer to
\* zero, whatever candles were skipped and switches tripped since (check_risk).
OrdersWithinLimit ==
  latency <= 1 =>
    \A k \in DOMAIN pending :
      LET after == session.qty + pending[k].qty
          equity == session.cash + session.qty * pending[k].mid IN
      \/ after \in (0 .. session.qty) \cup (session.qty .. 0)
      \/ 100 * Magnitude(after) * pending[k].mid <= Lesser(MaxPosition, MaxGross) * equity

\* The position's weight at the last mark is within max_position ("risk_limits_enforced").
PositionWithinLimit ==
  100 * Magnitude(session.equity - session.cash) <= Lesser(MaxPosition, MaxGross) * session.equity

=============================================================================
