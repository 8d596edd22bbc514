--------------------------- MODULE BookRefinement ---------------------------
(* How an order manager is seen as an order book. *)
EXTENDS OrderManager

PhaseOf(o) ==
    IF o \notin known THEN "absent"
    ELSE IF orders[o].state \in {"CREATED", "VALIDATING"} THEN "new"
    ELSE IF orders[o].state = "APPROVED" THEN "approved"
    ELSE IF orders[o].state \in Terminal THEN "closed"
    ELSE "working"

Book == INSTANCE OrderBook WITH
    phase <- [o \in OrderId |-> PhaseOf(o)],
    size  <- [o \in OrderId |-> orders[o].quantity],
    done  <- [o \in OrderId |-> orders[o].filled],
    used  <- {f.event : f \in ledger}

\* The order manager is an order book: each of its steps is one step of the book or
\* none (without overfills, as settings.fills.allow_overfill is by default).
ImplementsBook == Book!Spec
=============================================================================
