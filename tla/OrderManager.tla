---------------------------- MODULE OrderManager ----------------------------
(***************************************************************************)
(* The order manager of the execution platform                             *)
(* (iqrp/app/execution/order_manager): the registry of orders, the order   *)
(* state machine, idempotent fills and events, cancel and replace, and the *)
(* kill-switch and risk gates of submit.                                   *)
(*                                                                         *)
(* Every public method of the class is one action: the class is used from  *)
(* one thread and a method runs to its return or its exception before the  *)
(* next one starts.  A call that returns early or raises without touching  *)
(* an order is a stuttering step and has no disjunct here; a call that     *)
(* raises after it has touched one is modelled with what it leaves behind. *)
(* Callers are free: venue messages arrive in any order, any number of     *)
(* times, with any event id, and operators act at any moment.              *)
(***************************************************************************)
EXTENDS Naturals, FiniteSets, FiniteSetsExt

CONSTANTS
    OrderId,        \* ids the program can draw for orders
    EventId,        \* ids of venue events, client requests and replace requests
    ClientKey,      \* idempotency keys that clients choose
    Owner,          \* accounts and strategies orders are placed for
    Venue,          \* venues orders are submitted to
    KillScope,      \* kill switches that operators use
    Global,         \* the scope of the global kill switch
    NoOrder, NoKey, NoEvent,    \* Python's None in the three places it occurs
    MaxQty,         \* bound on the size of an order, in lots
    AllowOverfill   \* settings.fills.allow_overfill

ASSUME NoneAssumption ==
    /\ NoOrder \notin OrderId
    /\ NoKey \notin ClientKey
    /\ NoEvent \notin EventId
ASSUME BoundAssumption ==
    /\ MaxQty \in Nat
    /\ AllowOverfill \in BOOLEAN
ASSUME ScopeAssumption ==
    /\ Owner # {}
    /\ Global \notin Owner \cup Venue
    /\ KillScope \subseteq {Global} \cup Owner \cup Venue

VARIABLES
    known,      \* OrderManager._orders: ids that are registered
    orders,     \* the Order objects, by id
    byKey,      \* OrderManager._by_idempotency, for keys chosen by clients
    processed,  \* OrderManager._processed_events
    ledger,     \* FillManager._fills; their event ids are _seen_events
    kill        \* KillSwitch: the scopes that are engaged

vars == <<known, orders, byKey, processed, ledger, kill>>

-----------------------------------------------------------------------------
(* Order states and the transition table.                                  *)

OrderState ==
    {"CREATED", "VALIDATING", "APPROVED", "SUBMITTED", "ACKNOWLEDGED",
     "PARTIALLY_FILLED", "FILLED", "CANCEL_PENDING", "CANCELLED",
     "REJECTED", "EXPIRED", "REPLACED", "FAILED"}

Terminal == {"FILLED", "CANCELLED", "REJECTED", "EXPIRED", "REPLACED", "FAILED"}

CanTransition(from, to) ==
    \/ from = "CREATED" /\ to \in {"VALIDATING", "REJECTED", "CANCELLED", "FAILED"}
    \/ from = "VALIDATING" /\ to \in {"APPROVED", "REJECTED", "FAILED", "CANCELLED"}
    \/ from = "APPROVED" /\ to \in {"SUBMITTED", "CANCELLED", "REJECTED", "FAILED"}
    \/ /\ from = "SUBMITTED"
       /\ to \in {"ACKNOWLEDGED", "REJECTED", "CANCEL_PENDING", "CANCELLED",
                  "EXPIRED", "FAILED", "PARTIALLY_FILLED", "FILLED"}
    \/ /\ from \in {"ACKNOWLEDGED", "PARTIALLY_FILLED"}
       /\ to \in {"PARTIALLY_FILLED", "FILLED", "CANCEL_PENDING", "CANCELLED",
                  "EXPIRED", "REPLACED", "FAILED"}
    \/ /\ from = "CANCEL_PENDING"
       /\ to \in {"CANCELLED", "PARTIALLY_FILLED", "FILLED", "FAILED", "REJECTED"}

Order ==
    [state      : OrderState,
     quantity   : 0 .. MaxQty,
     filled     : Nat,
     completed  : BOOLEAN,                  \* completed_at is set
     rejected   : BOOLEAN,                  \* reject_reason is set
     owner      : Owner,
     key        : ClientKey \cup {NoKey},   \* idempotency_key, NoKey for a derived one
     replaces   : OrderId \cup {NoOrder},   \* metadata["replaces"]
     replacedBy : OrderId \cup {NoOrder},   \* metadata["replaced_by"]
     wanted     : 0 .. MaxQty]              \* auxiliary: the total its creator asked for

\* A new Order object; the auxiliary wanted is the size the caller had in mind.
NewOrder(q, w, k, c, o) ==
    [state |-> "CREATED", quantity |-> q, filled |-> 0, completed |-> FALSE,
     rejected |-> FALSE, owner |-> w, key |-> k, replaces |-> o,
     replacedBy |-> NoOrder, wanted |-> c]

Residual(r) == IF r.quantity > r.filled THEN r.quantity - r.filled ELSE 0

-----------------------------------------------------------------------------
(* Lifecycle helpers: each takes an Order and returns it as the helper     *)
(* leaves it.  They stamp the order first and ask for the transition last, *)
(* so an illegal one raises with the stamp already in place.               *)

Moved(r, to) == IF CanTransition(r.state, to) THEN [r EXCEPT !.state = to] ELSE r

MarkFailed(r)    == Moved([r EXCEPT !.completed = TRUE, !.rejected = TRUE], "FAILED")
MarkRejected(r)  == Moved([r EXCEPT !.completed = TRUE, !.rejected = TRUE], "REJECTED")
MarkCancelled(r) == Moved([r EXCEPT !.completed = TRUE], "CANCELLED")
\* Mutant: a replaced order is closed with the cancel helper.
MarkReplacedAsCancelled(r) == MarkCancelled(r)
MarkReplaced(r)  == Moved([r EXCEPT !.completed = TRUE], "REPLACED")
MarkFilled(r)    == Moved([r EXCEPT !.completed = TRUE], "FILLED")

\* Mutant: the comparison with zero residual is off by one lot.
StateAfterFillEarly(r) ==
    IF r.filled = 0 THEN r.state
    ELSE IF Residual(r) <= 1 THEN "FILLED" ELSE "PARTIALLY_FILLED"

StateAfterFill(r) ==
    IF r.filled = 0 THEN r.state
    ELSE IF Residual(r) = 0 THEN "FILLED" ELSE "PARTIALLY_FILLED"

ApplyFillState(r) ==
    IF StateAfterFill(r) = r.state THEN r
    ELSE IF StateAfterFill(r) = "FILLED" THEN MarkFilled(r)
    ELSE Moved(r, "PARTIALLY_FILLED")

\* Mutant: the filled quantity is assigned, not accumulated.
WithFillAssigned(r, q) == ApplyFillState([r EXCEPT !.filled = q])

\* FillManager.apply_fill, once the fill is known to be new and to fit.
WithFill(r, q) == ApplyFillState([r EXCEPT !.filled = r.filled + q])

IsReplaceable(r) == r.state \in {"ACKNOWLEDGED", "PARTIALLY_FILLED", "SUBMITTED"}

\* begin_cancel: straight to CANCELLED before submission, CANCEL_PENDING after it.
BeginCancel(r) ==
    IF r.state \in {"CREATED", "VALIDATING", "APPROVED"} THEN MarkCancelled(r)
    ELSE IF r.state = "CANCEL_PENDING" THEN r
    ELSE Moved(r, "CANCEL_PENDING")

\* cancel: confirm (the default) completes the cancel locally, without the venue.
AfterCancel(r, confirm) ==
    LET c == BeginCancel(r)
    IN  IF confirm /\ c.state = "CANCEL_PENDING" THEN MarkCancelled(c) ELSE c

\* Mutant: the validator does not look at the quantity.
VerdictsOfAnySize(r) == {"ok", "reject", "error"}

\* validator.validate never accepts less than one lot.  The verdict on any other
\* order depends on market metadata and on the risk callback: it is free here.
\* "error" is a validator that raises.
Verdicts(r) == IF r.quantity = 0 THEN {"reject", "error"} ELSE {"ok", "reject", "error"}

Validated(r, verdict) ==
    LET v == Moved(r, "VALIDATING")
    IN  CASE verdict = "ok"     -> Moved(v, "APPROVED")
          [] verdict = "reject" -> MarkRejected(v)
          [] OTHER              -> MarkFailed(v)

-----------------------------------------------------------------------------
\* What orders holds at an id that is not registered.
Blank == NewOrder(0, CHOOSE w \in Owner : TRUE, NoKey, 0, NoOrder)

Init ==
    /\ known = {}
    /\ orders = [o \in OrderId |-> Blank]
    /\ byKey = [k \in ClientKey |-> NoOrder]
    /\ processed = {}
    /\ ledger = {}
    /\ kill = {}

Record(e) == processed' = IF e = NoEvent THEN processed ELSE processed \cup {e}
IsDuplicateEvent(e) == e \in processed

\* Mutant: ids are forgotten once the order they filled has closed.
SeenWhileOpen(e) == \E f \in ledger : f.event = e /\ orders[f.order].state \notin Terminal
Seen(e) == \E f \in ledger : f.event = e

\* Mutant: a key can be used again once its order has closed.
KeyFreeOnceClosed(k) ==
    byKey[k] # NoOrder => orders[byKey[k]].state \in Terminal

\* _by_idempotency has no order under the key.
KeyFree(k) == byKey[k] = NoOrder

\* create_order: a client key that is already bound returns the bound order
\* (a stutter); quantities are not checked until validation.
CreateOrder(o, q, w, k) ==
    /\ o \notin known
    /\ k \in ClientKey => KeyFree(k)
    /\ known' = known \cup {o}
    /\ orders' = [orders EXCEPT ![o] = NewOrder(q, w, k, q, NoOrder)]
    /\ byKey' = IF k \in ClientKey THEN [byKey EXCEPT ![k] = o] ELSE byKey
    /\ UNCHANGED <<processed, ledger, kill>>

ValidateAndApprove(o, verdict) ==
    /\ o \in known
    /\ orders[o].state = "CREATED"
    /\ verdict \in Verdicts(orders[o])
    /\ orders' = [orders EXCEPT ![o] = Validated(@, verdict)]
    /\ UNCHANGED <<known, byKey, processed, ledger, kill>>

IsBlocked(r, v) == {Global, r.owner, v} \cap kill # {}

\* submit: kill switches first, then the risk callback again (riskOk), and only a
\* submission that goes through consumes its event id.
Submit(o, v, riskOk, e) ==
    /\ ~IsDuplicateEvent(e)
    /\ o \in known
    /\ orders[o].state = "APPROVED"
    /\ \/ /\ IsBlocked(orders[o], v)
          /\ orders' = [orders EXCEPT ![o] = MarkFailed(@)]
          /\ UNCHANGED processed
       \/ /\ ~IsBlocked(orders[o], v)
          /\ ~riskOk
          /\ orders' = [orders EXCEPT ![o] = MarkRejected(@)]
          /\ UNCHANGED processed
       \/ /\ ~IsBlocked(orders[o], v)
          /\ riskOk
          /\ orders' = [orders EXCEPT ![o] = Moved(@, "SUBMITTED")]
          /\ Record(e)
    /\ UNCHANGED <<known, byKey, ledger, kill>>

Acknowledge(o, e) ==
    /\ ~IsDuplicateEvent(e)
    /\ o \in known
    /\ orders[o].state = "SUBMITTED"
    /\ orders' = [orders EXCEPT ![o] = Moved(@, "ACKNOWLEDGED")]
    /\ Record(e)
    /\ UNCHANGED <<known, byKey, ledger, kill>>

\* Mutant: fills that arrive after the cancel are booked too.
FillableOnceCancelled ==
    {"SUBMITTED", "ACKNOWLEDGED", "PARTIALLY_FILLED", "CANCEL_PENDING", "CANCELLED"}
Fillable == {"SUBMITTED", "ACKNOWLEDGED", "PARTIALLY_FILLED", "CANCEL_PENDING"}

\* apply_fill: only the fill manager's own registry of ids decides whether the
\* fill is a duplicate.
ApplyFill(o, q, e) ==
    /\ o \in known
    /\ orders[o].state \in Fillable
    /\ ~Seen(e)
    /\ q > 0
    /\ AllowOverfill \/ q <= Residual(orders[o])
    /\ orders' = [orders EXCEPT ![o] = WithFill(@, q)]
    /\ ledger' = ledger \cup {[event |-> e, order |-> o, qty |-> q]}
    /\ processed' = processed \cup {e}
    /\ UNCHANGED <<known, byKey, kill>>

\* A closed order cannot be cancelled; in any other state the event id is consumed.
Cancel(o, e, confirm) ==
    /\ ~IsDuplicateEvent(e)
    /\ o \in known
    /\ orders[o].state \notin Terminal
    /\ orders' = [orders EXCEPT ![o] = AfterCancel(@, confirm)]
    /\ Record(e)
    /\ UNCHANGED <<known, byKey, ledger, kill>>

\* Mutant: what is already filled is not subtracted.
ReplacementQtyFull(r, total) == total

\* build_replacement: the requested total is reduced by what is already filled; a
\* request without a quantity asks for the original's own quantity again.
ReplacementQty(r, total) == IF total > r.filled THEN total - r.filled ELSE 0

\* replace of an order that the table does not let go to REPLACED: mark_replaced
\* stamps it and raises, and no replacement is registered.
ReplaceRaises(o, total) ==
    /\ o \in known
    /\ IsReplaceable(orders[o])
    /\ ~CanTransition(orders[o].state, "REPLACED")
    /\ ReplacementQty(orders[o], total) > 0
    /\ orders' = [orders EXCEPT ![o] = MarkReplaced(@)]
    /\ UNCHANGED <<known, byKey, processed, ledger, kill>>

\* replace: closes the original, registers a CREATED order n for the rest and, with
\* auto_approve, validates it in the same call (verdict "none": not asked for).
\* A repeated request id returns the order it made; since that request closed the
\* original, this is the call that build_replacement would refuse anyway.
Replace(o, n, total, e, verdict) ==
    /\ o \in known
    /\ n \notin known
    /\ IsReplaceable(orders[o])
    /\ CanTransition(orders[o].state, "REPLACED")
    /\ ReplacementQty(orders[o], total) > 0
    /\ LET r == orders[o]
           fresh == NewOrder(ReplacementQty(r, total), r.owner, NoKey, total, o)
       IN  /\ verdict \in Verdicts(fresh) \cup {"none"}
           /\ orders' = [orders EXCEPT
                            ![o] = [MarkReplaced(r) EXCEPT !.replacedBy = n],
                            ![n] = IF verdict = "none" THEN fresh ELSE Validated(fresh, verdict)]
    /\ known' = known \cup {n}
    /\ Record(e)
    /\ UNCHANGED <<byKey, ledger, kill>>

\* process_event(..., "reject"): mark_rejected without looking at the state first;
\* when it raises, the stamp stays and the event id is not consumed.
RejectEvent(o, e) ==
    /\ o \in known
    /\ orders' = [orders EXCEPT ![o] = MarkRejected(@)]
    /\ IF CanTransition(orders[o].state, "REJECTED") THEN Record(e) ELSE UNCHANGED processed
    /\ UNCHANGED <<known, byKey, ledger, kill>>

\* process_event: the dispatcher skips every id that any operation has consumed.
ProcessEvent(o, q, e) ==
    /\ ~IsDuplicateEvent(e)
    /\ \/ Acknowledge(o, e)
       \/ ApplyFill(o, q, e)
       \/ Cancel(o, e, TRUE)
       \/ RejectEvent(o, e)

EngageKill(s) ==
    /\ kill' = kill \cup {s}
    /\ UNCHANGED <<known, orders, byKey, processed, ledger>>

ClearKill(s) ==
    /\ kill' = kill \ {s}
    /\ UNCHANGED <<known, orders, byKey, processed, ledger>>

Next ==
    \/ \E o \in OrderId, q \in 0 .. MaxQty, w \in Owner, k \in ClientKey \cup {NoKey} :
          CreateOrder(o, q, w, k)
    \/ \E o \in OrderId, verdict \in {"ok", "reject", "error"} : ValidateAndApprove(o, verdict)
    \/ \E o \in OrderId, v \in Venue, riskOk \in BOOLEAN, e \in EventId \cup {NoEvent} :
          Submit(o, v, riskOk, e)
    \/ \E o \in OrderId, e \in EventId \cup {NoEvent} : Acknowledge(o, e)
    \/ \E o \in OrderId, q \in 1 .. MaxQty, e \in EventId : ApplyFill(o, q, e)
    \/ \E o \in OrderId, e \in EventId \cup {NoEvent}, confirm \in BOOLEAN : Cancel(o, e, confirm)
    \/ \E o \in OrderId, total \in 1 .. MaxQty : ReplaceRaises(o, total)
    \/ \E o, n \in OrderId, total \in 1 .. MaxQty, e \in EventId \cup {NoEvent},
          verdict \in {"none", "ok", "reject", "error"} : Replace(o, n, total, e, verdict)
    \/ \E o \in OrderId, q \in 1 .. MaxQty, e \in EventId : ProcessEvent(o, q, e)
    \/ \E s \in KillScope : EngageKill(s) \/ ClearKill(s)

Spec == Init /\ [][Next]_vars

-----------------------------------------------------------------------------
(* What the order manager promises.                                        *)

\* The variables hold what the classes hold; fills and events carry known ids.
TypeOK ==
    /\ known \subseteq OrderId
    /\ orders \in [OrderId -> Order]
    /\ byKey \in [ClientKey -> OrderId \cup {NoOrder}]
    /\ processed \subseteq EventId
    /\ ledger \subseteq [event : EventId, order : OrderId, qty : Nat \ {0}]
    /\ kill \subseteq KillScope

\* The filled quantity of every order is exactly the sum of the fills recorded for
\* it: no duplicated, refused or late fill ever moved it (FillManager.apply_fill).
FilledIn(fills, o) == SumFunctionOnSet([f \in fills |-> f.qty], {f \in fills : f.order = o})
FilledMatchesLedger == \A o \in OrderId : orders[o].filled = FilledIn(ledger, o)

\* One event id never accounts for two fills, on one order or on two.
FillOncePerEvent == \A f, g \in ledger : f.event = g.event => f = g

\* State and fills agree, whatever the order in which fills, cancels, replaces and
\* rejects arrived: nothing fills before submission, PARTIALLY_FILLED and FILLED
\* mean what they say, and an order that closed otherwise had quantity left.  No
\* method returns with an order in VALIDATING, and none expires one.
FillsFit(r) ==
    /\ r.state \notin {"VALIDATING", "EXPIRED"}
    /\ r.state \in {"CREATED", "APPROVED", "SUBMITTED", "ACKNOWLEDGED"} => r.filled = 0
    /\ r.state \in {"APPROVED", "SUBMITTED", "ACKNOWLEDGED"} => 0 < r.quantity
    /\ r.state = "PARTIALLY_FILLED" => 0 < r.filled /\ r.filled < r.quantity
    /\ r.state = "FILLED" => 0 < r.quantity /\ r.quantity <= r.filled
    /\ r.state \in {"CANCELLED", "REJECTED", "REPLACED", "FAILED"}
          => r.filled < r.quantity \/ (r.quantity = 0 /\ r.filled = 0)
    /\ r.state = "CANCEL_PENDING" => r.filled < r.quantity
    /\ ~AllowOverfill => r.filled <= r.quantity
StateMatchesFills == \A o \in known : FillsFit(orders[o])

\* An order is REPLACED exactly when it has a successor, and the two point at each
\* other: a chain of replacements never forks and has at most one working order.
ReplacementLinked ==
    /\ \A o \in known :
          LET n == orders[o].replacedBy
          IN  /\ orders[o].state = "REPLACED" <=> n # NoOrder
              /\ n # NoOrder => n \in known /\ n # o /\ orders[n].replaces = o
    /\ \A n \in known :
          LET o == orders[n].replaces
          IN  o # NoOrder => o \in known /\ orders[o].replacedBy = n

\* What a replaced order filled and what its replacement may still fill add up to
\* the total the replace request asked for, now and for ever after: no late fill
\* on the original can make the pair execute more (build_replacement).
ReplacementExact ==
    \A n \in known :
        orders[n].replaces # NoOrder =>
            orders[orders[n].replaces].filled + orders[n].quantity = orders[n].wanted

\* A client key stays with the order it created, and no other order carries it
\* (create_order is idempotent on idempotency_key).
KeyBindsOneOrder ==
    /\ \A o \in known : orders[o].key # NoKey => byKey[orders[o].key] = o
    /\ \A k \in ClientKey :
          byKey[k] # NoOrder => byKey[k] \in known /\ orders[byKey[k]].key = k

\* A closed order stays as it was closed: state, quantities and links
\* ("Terminal states have empty outgoing sets").
TerminalFrozen ==
    [][\A o \in known : orders[o].state \in Terminal =>
          /\ orders'[o].state = orders[o].state
          /\ orders'[o].filled = orders[o].filled
          /\ orders'[o].quantity = orders[o].quantity
          /\ orders'[o].replacedBy = orders[o].replacedBy]_vars

\* Every order that is_replaceable accepts can be replaced.
ReplaceableCanMove ==
    \A o \in known : IsReplaceable(orders[o]) => CanTransition(orders[o].state, "REPLACED")

=============================================================================
