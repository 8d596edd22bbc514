----------------------------- MODULE Accounting -----------------------------
(***************************************************************************)
(* The books of a backtest (backtesting/accounting): PositionBook and      *)
(* CapitalState, what a fill does to both, and the identities that         *)
(* reconciliation.py checks at the end of a run.                           *)
(*                                                                         *)
(* A position is kept as its signed quantity and its cost, |quantity|      *)
(* times the average entry price, so that amounts are whole numbers.       *)
(* Closing a part takes its share of the cost, rounded down: what the      *)
(* rounding leaves in the cost it takes from the realised profit, as the   *)
(* code's floats do within their tolerance.                                *)
(***************************************************************************)
EXTENDS Integers, Sequences, FiniteSets, Functions

CONSTANTS
    Instrument,     \* names, as numbers in their order
    Capital         \* initial_capital

ASSUME AccountingAssumption ==
    Instrument \subseteq Nat /\ IsFiniteSet(Instrument) /\ Capital \in Nat

Fill == [inst : Instrument, qty : Int \ {0}, price : Nat \ {0}, fee : Nat]
Position == [qty : Int, cost : Nat]
Flat == [qty |-> 0, cost |-> 0]

Magnitude(n) == IF n < 0 THEN -n ELSE n
Sign(n) == IF n < 0 THEN -1 ELSE IF n = 0 THEN 0 ELSE 1
Lesser(m, n) == IF m < n THEN m ELSE n

\* CapitalState, PositionBook, latest prices (0 is none) and FillLog.
Books == [cash : Int, realized : Int, fees : Nat,
          position : [Instrument -> Position], price : [Instrument -> Nat], fills : Seq(Fill)]
EmptyBooks == [cash |-> Capital, realized |-> 0, fees |-> 0,
               position |-> [i \in Instrument |-> Flat], price |-> [i \in Instrument |-> 0], fills |-> <<>>]

\* The fill opens a position or adds to it.
Adds(p, f) == p.qty = 0 \/ Sign(p.qty) = Sign(f.qty)

\* The part of a position that an opposite fill closes, and the cost of that part.
Closed(p, f) == IF Adds(p, f) THEN 0 ELSE Lesser(Magnitude(p.qty), Magnitude(f.qty))
ClosedCost(p, f) == IF p.qty = 0 THEN 0 ELSE (p.cost * Closed(p, f)) \div Magnitude(p.qty)

RealizedBy(p, f) == Sign(p.qty) * (f.price * Closed(p, f) - ClosedCost(p, f))

\* Mutant: a position that flips keeps its average entry price.
PositionAfterKeeps(p, f) ==
    [qty |-> p.qty + f.qty,
     cost |-> IF Adds(p, f) THEN p.cost + Magnitude(f.qty) * f.price
              ELSE IF Sign(p.qty + f.qty) = -Sign(p.qty)
                   THEN (Magnitude(p.qty + f.qty) * p.cost) \div Magnitude(p.qty)
                   ELSE p.cost - ClosedCost(p, f)]

\* apply_fill: open or add; reduce; or flip, and then the rest is entered at the fill's price.
PositionAfter(p, f) ==
    [qty |-> p.qty + f.qty,
     cost |-> IF Adds(p, f) THEN p.cost + Magnitude(f.qty) * f.price
              ELSE IF Sign(p.qty + f.qty) = -Sign(p.qty) THEN Magnitude(p.qty + f.qty) * f.price
              ELSE p.cost - ClosedCost(p, f)]

\* What on_fill does to all of the books.
Booked(b, f) ==
    [b EXCEPT !.cash = @ - f.qty * f.price - f.fee,
              !.realized = @ + RealizedBy(b.position[f.inst], f),
              !.fees = @ + f.fee,
              !.position[f.inst] = PositionAfter(@, f),
              !.price[f.inst] = f.price,
              !.fills = Append(@, f)]

MarketValue(b) == SumFunction([i \in Instrument |-> b.position[i].qty * b.price[i]])
Unrealized(b) ==
    SumFunction([i \in Instrument |->
        b.position[i].qty * b.price[i] - Sign(b.position[i].qty) * b.position[i].cost])
Equity(b) == b.cash + MarketValue(b)

\* reconcile_capital accepts any of its three identities.
Reconciles(b, equity) ==
    equity \in {Equity(b), b.cash + Unrealized(b), Capital + b.realized + Unrealized(b) - b.fees}

\* replay_fills_positions and replay_fills_cash.
ReplayedQty(fills, i) ==
    SumFunction([n \in DOMAIN fills |-> IF fills[n].inst = i THEN fills[n].qty ELSE 0])
ReplayedCash(fills) ==
    Capital - SumFunction([n \in DOMAIN fills |-> fills[n].qty * fills[n].price + fills[n].fee])
FillsReplay(b) ==
    /\ b.cash = ReplayedCash(b.fills)
    /\ \A i \in Instrument : b.position[i].qty = ReplayedQty(b.fills, i)

=============================================================================
