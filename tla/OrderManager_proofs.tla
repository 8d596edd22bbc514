------------------------- MODULE OrderManager_proofs -------------------------
(***************************************************************************)
(* Proofs about OrderManager for any set of orders, events, keys, owners   *)
(* and venues, and any bound on sizes: its invariants, and that it         *)
(* implements the order book.                                              *)
(***************************************************************************)
EXTENDS BookRefinement, FoldFacts

-----------------------------------------------------------------------------
(* What the lifecycle helpers do to an order.                              *)

\* The parts of an order that no lifecycle helper touches.
Kept(r, s) ==
    /\ s.quantity = r.quantity
    /\ s.filled = r.filled
    /\ s.owner = r.owner
    /\ s.key = r.key
    /\ s.replaces = r.replaces
    /\ s.replacedBy = r.replacedBy
    /\ s.wanted = r.wanted

\* transition_order moves an order along the table or leaves it where it is.
LEMMA MovedEffect ==
    ASSUME NEW r \in Order, NEW to \in OrderState
    PROVE  /\ Moved(r, to) \in Order
           /\ Kept(r, Moved(r, to))
           /\ Moved(r, to).state = IF CanTransition(r.state, to) THEN to ELSE r.state
BY DEF Moved, Order, Kept

\* Stamping an order leaves an order in the same state.
LEMMA StampEffect ==
    ASSUME NEW r \in Order
    PROVE  /\ [r EXCEPT !.completed = TRUE] \in Order
           /\ Kept(r, [r EXCEPT !.completed = TRUE])
           /\ [r EXCEPT !.completed = TRUE].state = r.state
           /\ [r EXCEPT !.completed = TRUE, !.rejected = TRUE] \in Order
           /\ Kept(r, [r EXCEPT !.completed = TRUE, !.rejected = TRUE])
           /\ [r EXCEPT !.completed = TRUE, !.rejected = TRUE].state = r.state
BY DEF Order, Kept

\* So a helper that stamps first has the effect of the transition alone.
LEMMA MarkEffect ==
    ASSUME NEW r \in Order
    PROVE  /\ MarkFailed(r) \in Order /\ Kept(r, MarkFailed(r))
           /\ MarkFailed(r).state = IF CanTransition(r.state, "FAILED") THEN "FAILED" ELSE r.state
           /\ MarkRejected(r) \in Order /\ Kept(r, MarkRejected(r))
           /\ MarkRejected(r).state =
                 IF CanTransition(r.state, "REJECTED") THEN "REJECTED" ELSE r.state
           /\ MarkCancelled(r) \in Order /\ Kept(r, MarkCancelled(r))
           /\ MarkCancelled(r).state =
                 IF CanTransition(r.state, "CANCELLED") THEN "CANCELLED" ELSE r.state
           /\ MarkReplaced(r) \in Order /\ Kept(r, MarkReplaced(r))
           /\ MarkReplaced(r).state =
                 IF CanTransition(r.state, "REPLACED") THEN "REPLACED" ELSE r.state
           /\ MarkFilled(r) \in Order /\ Kept(r, MarkFilled(r))
           /\ MarkFilled(r).state = IF CanTransition(r.state, "FILLED") THEN "FILLED" ELSE r.state
<1> DEFINE c == [r EXCEPT !.completed = TRUE]
<1> DEFINE b == [r EXCEPT !.completed = TRUE, !.rejected = TRUE]
<1>1. /\ c \in Order /\ Kept(r, c) /\ c.state = r.state
      /\ b \in Order /\ Kept(r, b) /\ b.state = r.state
  BY StampEffect
<1>2. /\ MarkFailed(r) = Moved(b, "FAILED")
      /\ MarkRejected(r) = Moved(b, "REJECTED")
      /\ MarkCancelled(r) = Moved(c, "CANCELLED")
      /\ MarkReplaced(r) = Moved(c, "REPLACED")
      /\ MarkFilled(r) = Moved(c, "FILLED")
  BY DEF MarkFailed, MarkRejected, MarkCancelled, MarkReplaced, MarkFilled
<1> HIDE DEF b, c
<1>3. {"FAILED", "REJECTED", "CANCELLED", "REPLACED", "FILLED"} \subseteq OrderState
  BY DEF OrderState
<1>4. \A to \in {"FAILED", "REJECTED"} :
        /\ Moved(b, to) \in Order /\ Kept(b, Moved(b, to))
        /\ Moved(b, to).state = IF CanTransition(b.state, to) THEN to ELSE b.state
  BY <1>1, <1>3, MovedEffect
<1>5. \A to \in {"CANCELLED", "REPLACED", "FILLED"} :
        /\ Moved(c, to) \in Order /\ Kept(c, Moved(c, to))
        /\ Moved(c, to).state = IF CanTransition(c.state, to) THEN to ELSE c.state
  BY <1>1, <1>3, MovedEffect
<1>6. QED
  BY <1>1, <1>2, <1>4, <1>5 DEF Kept

-----------------------------------------------------------------------------
(* The actions of Next do one of five things to the registry of orders.    *)

\* The moves of the operations that neither fill, create nor replace.
TouchMove(s, t) ==
    \/ t = s
    \/ s = "APPROVED" /\ t = "SUBMITTED"
    \/ s = "SUBMITTED" /\ t = "ACKNOWLEDGED"
    \/ s \notin Terminal /\ t \in {"CANCELLED", "REJECTED", "FAILED"}
    \/ s \in Fillable /\ t = "CANCEL_PENDING"

Others(o) == \A p \in OrderId \ {o} : orders'[p] = orders[p]

\* One registered order changes its state, nothing else of it that is modelled
\* beyond its stamps, and no other order changes.
TouchStep(o) ==
    /\ o \in known
    /\ orders' \in [OrderId -> Order]
    /\ Others(o)
    /\ Kept(orders[o], orders'[o])
    /\ \/ TouchMove(orders[o].state, orders'[o].state)
       \/ orders[o].state = "CREATED" /\ orders'[o].state = "APPROVED" /\ orders[o].quantity > 0
    /\ UNCHANGED <<known, byKey, ledger, kill>>
    /\ processed' \subseteq EventId

\* Recording an event id keeps the registry of ids well typed.
LEMMA RecordType ==
    ASSUME TypeOK, NEW e \in EventId \cup {NoEvent}, Record(e)
    PROVE  processed' \subseteq EventId
BY DEF TypeOK, Record

\* Validation approves only an order with quantity, and closes any other.
LEMMA ValidatedEffect ==
    ASSUME NEW r \in Order, r.state = "CREATED", NEW verdict \in Verdicts(r)
    PROVE  /\ Validated(r, verdict) \in Order
           /\ Kept(r, Validated(r, verdict))
           /\ \/ Validated(r, verdict).state = "APPROVED" /\ verdict = "ok" /\ r.quantity > 0
              \/ Validated(r, verdict).state \in {"REJECTED", "FAILED"} /\ verdict # "ok"
<1> DEFINE v == Moved(r, "VALIDATING")
<1>1. v \in Order /\ Kept(r, v) /\ v.state = "VALIDATING"
  BY MovedEffect DEF CanTransition, OrderState
<1>2. r.quantity \in Nat /\ (verdict = "ok" => r.quantity > 0)
  BY BoundAssumption DEF Verdicts, Order
<1>3. verdict \in {"ok", "reject", "error"}
  BY DEF Verdicts
<1>4. Validated(r, verdict) = CASE verdict = "ok" -> Moved(v, "APPROVED")
                                [] verdict = "reject" -> MarkRejected(v)
                                [] OTHER -> MarkFailed(v)
  BY DEF Validated
<1> HIDE DEF v
<1>5. CASE verdict = "ok"
  <2>1. Validated(r, verdict) = Moved(v, "APPROVED")
    BY <1>4, <1>5
  <2>2. Moved(v, "APPROVED") \in Order /\ Kept(v, Moved(v, "APPROVED"))
        /\ Moved(v, "APPROVED").state = "APPROVED"
    BY <1>1, MovedEffect DEF CanTransition, OrderState
  <2> QED
    BY <2>1, <2>2, <1>1, <1>2, <1>5 DEF Kept
<1>6. CASE verdict = "reject"
  <2>1. Validated(r, verdict) = MarkRejected(v)
    BY <1>4, <1>6
  <2>2. MarkRejected(v) \in Order /\ Kept(v, MarkRejected(v)) /\ MarkRejected(v).state = "REJECTED"
    BY <1>1, MarkEffect DEF CanTransition
  <2> QED
    BY <2>1, <2>2, <1>1, <1>6 DEF Kept
<1>7. CASE verdict = "error"
  <2>1. Validated(r, verdict) = MarkFailed(v)
    BY <1>4, <1>7
  <2>2. MarkFailed(v) \in Order /\ Kept(v, MarkFailed(v)) /\ MarkFailed(v).state = "FAILED"
    BY <1>1, MarkEffect DEF CanTransition
  <2> QED
    BY <2>1, <2>2, <1>1, <1>7 DEF Kept
<1> QED
  BY <1>3, <1>5, <1>6, <1>7

\* Every operation that is not a create, a fill or a completed replace is a TouchStep.
LEMMA ValidateTouches ==
    ASSUME TypeOK, NEW o \in OrderId, NEW verdict, ValidateAndApprove(o, verdict)
    PROVE  TouchStep(o)
<1> DEFINE r == orders[o]
<1>1. r \in Order /\ r.state = "CREATED" /\ verdict \in Verdicts(r) /\ o \in known
  BY DEF TypeOK, ValidateAndApprove
<1>2. orders' = [orders EXCEPT ![o] = Validated(r, verdict)]
  BY DEF ValidateAndApprove
<1> HIDE DEF r
<1>3. /\ Validated(r, verdict) \in Order
      /\ Kept(r, Validated(r, verdict))
      /\ \/ Validated(r, verdict).state = "APPROVED" /\ verdict = "ok" /\ r.quantity > 0
         \/ Validated(r, verdict).state \in {"REJECTED", "FAILED"} /\ verdict # "ok"
  BY <1>1, ValidatedEffect
<1>4. orders'[o] = Validated(r, verdict) /\ orders' \in [OrderId -> Order] /\ Others(o)
  BY <1>2, <1>3 DEF TypeOK, Others
<1>5. UNCHANGED <<known, byKey, ledger, kill>> /\ processed' \subseteq EventId
  BY DEF ValidateAndApprove, TypeOK
<1> QED
  BY <1>1, <1>3, <1>4, <1>5 DEF TouchStep, TouchMove, r, Terminal

\* An update of one order by a helper that only moves it along the table.
LEMMA UpdateTouches ==
    ASSUME TypeOK, NEW o \in OrderId, o \in known,
           NEW s \in Order, Kept(orders[o], s), TouchMove(orders[o].state, s.state),
           orders' = [orders EXCEPT ![o] = s],
           UNCHANGED <<known, byKey, ledger, kill>>, processed' \subseteq EventId
    PROVE  TouchStep(o)
BY DEF TypeOK, TouchStep, Others

\* submit touches one order: SUBMITTED, or closed by a kill switch or the risk check.
LEMMA SubmitTouches ==
    ASSUME TypeOK, NEW o \in OrderId, NEW v, NEW riskOk, NEW e \in EventId \cup {NoEvent},
           Submit(o, v, riskOk, e)
    PROVE  TouchStep(o)
<1> DEFINE r == orders[o]
<1>1. r \in Order /\ r.state = "APPROVED" /\ o \in known
  BY DEF TypeOK, Submit
<1>2. UNCHANGED <<known, byKey, ledger, kill>>
  BY DEF Submit
<1>3. processed' \subseteq EventId
  BY RecordType DEF Submit, TypeOK
<1>4. PICK s : /\ s = MarkFailed(r) \/ s = MarkRejected(r) \/ s = Moved(r, "SUBMITTED")
               /\ orders' = [orders EXCEPT ![o] = s]
  BY DEF Submit
<1> HIDE DEF r
<1>5. s \in Order /\ Kept(r, s) /\ s.state \in {"FAILED", "REJECTED", "SUBMITTED"}
  BY <1>1, <1>4, MovedEffect, MarkEffect DEF CanTransition, OrderState
<1>6. TouchMove(r.state, s.state)
  BY <1>1, <1>5 DEF TouchMove, Terminal
<1> QED
  BY <1>1, <1>2, <1>3, <1>4, <1>5, <1>6, UpdateTouches DEF r

\* acknowledge moves one SUBMITTED order.
LEMMA AcknowledgeTouches ==
    ASSUME TypeOK, NEW o \in OrderId, NEW e \in EventId \cup {NoEvent}, Acknowledge(o, e)
    PROVE  TouchStep(o)
<1> DEFINE r == orders[o]
           s == Moved(r, "ACKNOWLEDGED")
<1>1. /\ r \in Order /\ r.state = "SUBMITTED" /\ o \in known
      /\ orders' = [orders EXCEPT ![o] = s]
      /\ UNCHANGED <<known, byKey, ledger, kill>>
  BY DEF TypeOK, Acknowledge
<1>2. processed' \subseteq EventId
  BY RecordType DEF Acknowledge
<1>3. s \in Order /\ Kept(r, s) /\ s.state = "ACKNOWLEDGED"
  BY <1>1, MovedEffect DEF CanTransition, OrderState
<1> HIDE DEF s
<1> QED
  BY <1>1, <1>2, <1>3, UpdateTouches DEF TouchMove

\* cancel moves one open order to CANCELLED or CANCEL_PENDING.
LEMMA CancelTouches ==
    ASSUME TypeOK, NEW o \in OrderId, NEW e \in EventId \cup {NoEvent}, NEW confirm,
           Cancel(o, e, confirm), orders[o].state \notin {"VALIDATING", "EXPIRED"}
    PROVE  TouchStep(o)
<1> DEFINE r == orders[o]
           b == BeginCancel(r)
           s == IF confirm /\ b.state = "CANCEL_PENDING" THEN MarkCancelled(b) ELSE b
<1>1. /\ r \in Order /\ r.state \notin Terminal /\ r.state # "VALIDATING" /\ o \in known
      /\ orders' = [orders EXCEPT ![o] = s]
      /\ UNCHANGED <<known, byKey, ledger, kill>>
  BY DEF TypeOK, Cancel, AfterCancel
<1>2. processed' \subseteq EventId
  BY RecordType DEF Cancel
<1> HIDE DEF r
<1>3. r.state \in {"CREATED", "APPROVED"} \cup Fillable
  BY <1>1 DEF Order, OrderState, Terminal, Fillable
<1>4. /\ b \in Order /\ Kept(r, b)
      /\ \/ r.state \in {"CREATED", "APPROVED"} /\ b.state = "CANCELLED"
         \/ r.state \in Fillable /\ b.state = "CANCEL_PENDING"
  <2>1. CASE r.state \in {"CREATED", "APPROVED"}
    <3>1. b = MarkCancelled(r)
      BY <2>1 DEF BeginCancel
    <3> QED
      BY <3>1, <2>1, <1>1, MarkEffect DEF CanTransition
  <2>2. CASE r.state = "CANCEL_PENDING"
    BY <2>2, <1>1 DEF BeginCancel, Kept, Fillable
  <2>3. CASE r.state \in Fillable \ {"CANCEL_PENDING"}
    <3>1. b = Moved(r, "CANCEL_PENDING")
      BY <2>3 DEF BeginCancel, Fillable
    <3> QED
      BY <3>1, <2>3, <1>1, MovedEffect DEF CanTransition, OrderState, Fillable
  <2> QED
    BY <1>3, <2>1, <2>2, <2>3
<1> HIDE DEF b
<1>5. /\ MarkCancelled(b) \in Order /\ Kept(b, MarkCancelled(b))
      /\ b.state = "CANCEL_PENDING" => MarkCancelled(b).state = "CANCELLED"
  BY <1>4, MarkEffect DEF CanTransition
<1>6. s \in Order /\ Kept(r, s) /\ TouchMove(r.state, s.state)
  BY <1>1, <1>4, <1>5 DEF Kept, TouchMove, Terminal
<1> HIDE DEF s
<1> QED
  BY <1>1, <1>2, <1>6, UpdateTouches DEF r

\* A replace that raises leaves the state of its order alone.
LEMMA ReplaceRaisesTouches ==
    ASSUME TypeOK, NEW o \in OrderId, NEW total, ReplaceRaises(o, total)
    PROVE  TouchStep(o)
<1> DEFINE r == orders[o]
           s == MarkReplaced(r)
<1>1. /\ r \in Order /\ ~CanTransition(r.state, "REPLACED") /\ o \in known
      /\ orders' = [orders EXCEPT ![o] = s]
      /\ UNCHANGED <<known, byKey, ledger, kill>>
      /\ processed' \subseteq EventId
  BY DEF TypeOK, ReplaceRaises
<1>2. s \in Order /\ Kept(r, s) /\ s.state = r.state
  BY <1>1, MarkEffect
<1> HIDE DEF s
<1> QED
  BY <1>1, <1>2, UpdateTouches DEF TouchMove

\* A reject event closes one order or leaves its state alone.
LEMMA RejectTouches ==
    ASSUME TypeOK, NEW o \in OrderId, NEW e \in EventId, RejectEvent(o, e)
    PROVE  TouchStep(o)
<1> DEFINE r == orders[o]
           s == MarkRejected(r)
<1>1. /\ r \in Order /\ o \in known
      /\ orders' = [orders EXCEPT ![o] = s]
      /\ UNCHANGED <<known, byKey, ledger, kill>>
  BY DEF TypeOK, RejectEvent
<1>2. processed' \subseteq EventId
  BY RecordType DEF RejectEvent, TypeOK
<1>3. /\ s \in Order /\ Kept(r, s)
      /\ s.state = IF CanTransition(r.state, "REJECTED") THEN "REJECTED" ELSE r.state
  BY <1>1, MarkEffect
<1> HIDE DEF s, r
<1>4. CanTransition(r.state, "REJECTED") => r.state \notin Terminal
  BY DEF CanTransition, Terminal
<1>5. TouchMove(r.state, s.state)
  BY <1>3, <1>4 DEF TouchMove
<1> QED
  BY <1>1, <1>2, <1>3, <1>5, UpdateTouches DEF r

\* A fill adds its quantity to one working order and settles that order's state.
FillStep(o, q, e) ==
    LET r == orders[o]
        s == orders'[o]
    IN  /\ o \in known
        /\ orders' \in [OrderId -> Order]
        /\ Others(o)
        /\ r.state \in Fillable
        /\ Kept([r EXCEPT !.filled = r.filled + q], s)
        /\ AllowOverfill \/ r.filled + q <= r.quantity
        /\ s.state = IF r.filled + q >= r.quantity THEN "FILLED" ELSE "PARTIALLY_FILLED"
        /\ ~Seen(e)
        /\ ledger' = ledger \cup {[event |-> e, order |-> o, qty |-> q]}
        /\ processed' = processed \cup {e}
        /\ UNCHANGED <<known, byKey, kill>>

\* A fill of a working order adds its quantity and picks the state that matches.
LEMMA WithFillEffect ==
    ASSUME NEW r \in Order, r.state \in Fillable, NEW q \in Nat \ {0}
    PROVE  /\ WithFill(r, q) \in Order
           /\ Kept([r EXCEPT !.filled = r.filled + q], WithFill(r, q))
           /\ WithFill(r, q).state =
                 IF r.filled + q >= r.quantity THEN "FILLED" ELSE "PARTIALLY_FILLED"
<1> DEFINE f == [r EXCEPT !.filled = r.filled + q]
           s == ApplyFillState(f)
<1>1. WithFill(r, q) = s
  BY DEF WithFill
<1>2. r.filled \in Nat /\ r.quantity \in Nat
  BY BoundAssumption DEF Order
<1>3. f \in Order /\ f.state = r.state /\ f.filled = r.filled + q /\ f.quantity = r.quantity
  BY <1>2 DEF Order
<1> HIDE DEF f
<1>4. StateAfterFill(f) = IF r.filled + q >= r.quantity THEN "FILLED" ELSE "PARTIALLY_FILLED"
  BY <1>2, <1>3 DEF StateAfterFill, Residual
<1>5. CASE StateAfterFill(f) = f.state
  <2>1. s = f
    BY <1>5 DEF ApplyFillState
  <2> QED
    BY <2>1, <1>1, <1>3, <1>4, <1>5 DEF Kept, f
<1>6. CASE StateAfterFill(f) # f.state /\ StateAfterFill(f) = "FILLED"
  <2>1. s = MarkFilled(f)
    BY <1>6 DEF ApplyFillState
  <2>2. CanTransition(f.state, "FILLED")
    BY <1>3 DEF CanTransition, Fillable
  <2>3. MarkFilled(f) \in Order /\ Kept(f, MarkFilled(f)) /\ MarkFilled(f).state = "FILLED"
    BY <1>3, <2>2, MarkEffect
  <2> QED
    BY <2>1, <2>3, <1>1, <1>4, <1>6 DEF f
<1>7. CASE StateAfterFill(f) # f.state /\ StateAfterFill(f) # "FILLED"
  <2>1. s = Moved(f, "PARTIALLY_FILLED")
    BY <1>7 DEF ApplyFillState
  <2>2. CanTransition(f.state, "PARTIALLY_FILLED")
    BY <1>3 DEF CanTransition, Fillable
  <2>3. s \in Order /\ Kept(f, s) /\ s.state = "PARTIALLY_FILLED"
    BY <2>1, <2>2, <1>3, MovedEffect DEF OrderState
  <2> QED
    BY <2>3, <1>1, <1>4, <1>7 DEF f
<1> QED
  BY <1>5, <1>6, <1>7

\* apply_fill of a fill that fits is a FillStep.
LEMMA FillEffect ==
    ASSUME TypeOK, NEW o \in OrderId, NEW q \in Nat \ {0}, NEW e, ApplyFill(o, q, e)
    PROVE  FillStep(o, q, e)
<1> DEFINE r == orders[o]
           s == WithFill(r, q)
<1>1. /\ r \in Order /\ o \in known /\ r.state \in Fillable
      /\ orders' = [orders EXCEPT ![o] = s]
      /\ AllowOverfill \/ q <= Residual(r)
      /\ ~Seen(e)
      /\ ledger' = ledger \cup {[event |-> e, order |-> o, qty |-> q]}
      /\ processed' = processed \cup {e}
      /\ UNCHANGED <<known, byKey, kill>>
  BY DEF TypeOK, ApplyFill
<1> HIDE DEF r
<1>2. r.filled \in Nat /\ r.quantity \in Nat
  BY <1>1, BoundAssumption DEF Order
<1>3. AllowOverfill \/ r.filled + q <= r.quantity
  BY <1>1, <1>2 DEF Residual
<1>4. /\ s \in Order /\ Kept([r EXCEPT !.filled = r.filled + q], s)
      /\ s.state = IF r.filled + q >= r.quantity THEN "FILLED" ELSE "PARTIALLY_FILLED"
  BY <1>1, WithFillEffect
<1> HIDE DEF s
<1>5. orders'[o] = s /\ orders' \in [OrderId -> Order] /\ Others(o)
  BY <1>1, <1>4 DEF TypeOK, Others
<1> QED
  BY <1>1, <1>3, <1>4, <1>5 DEF FillStep, r

\* A create puts one new order in the registry.
CreateStep(o, q, w, k) ==
    /\ o \notin known
    /\ orders' \in [OrderId -> Order]
    /\ Others(o)
    /\ orders'[o] = NewOrder(q, w, k, q, NoOrder)
    /\ k \in ClientKey => byKey[k] = NoOrder
    /\ byKey' = IF k \in ClientKey THEN [byKey EXCEPT ![k] = o] ELSE byKey
    /\ known' = known \cup {o}
    /\ UNCHANGED <<processed, ledger, kill>>

\* A new order object is well typed.
LEMMA NewOrderType ==
    ASSUME NEW q \in 0 .. MaxQty, NEW w \in Owner, NEW k \in ClientKey \cup {NoKey},
           NEW c \in 0 .. MaxQty, NEW o \in OrderId \cup {NoOrder}
    PROVE  NewOrder(q, w, k, c, o) \in Order
BY BoundAssumption DEF NewOrder, Order, OrderState

\* create_order is a CreateStep.
LEMMA CreateEffect ==
    ASSUME TypeOK, NEW o \in OrderId, NEW q \in 0 .. MaxQty, NEW w \in Owner,
           NEW k \in ClientKey \cup {NoKey}, CreateOrder(o, q, w, k)
    PROVE  CreateStep(o, q, w, k)
<1>1. NewOrder(q, w, k, q, NoOrder) \in Order
  BY NewOrderType
<1> QED
  BY <1>1 DEF CreateOrder, KeyFree, CreateStep, TypeOK, Others

\* A completed replace closes one order and puts its successor in the registry.
ReplaceStep(o, n, total) ==
    /\ o \in known /\ n \in OrderId \ known
    /\ orders' \in [OrderId -> Order]
    /\ \A p \in OrderId \ {o, n} : orders'[p] = orders[p]
    /\ orders[o].state \in {"ACKNOWLEDGED", "PARTIALLY_FILLED"}
    /\ Kept([orders[o] EXCEPT !.replacedBy = n], orders'[o])
    /\ orders'[o].state = "REPLACED"
    /\ orders[o].filled < total
    /\ Kept(NewOrder(total - orders[o].filled, orders[o].owner, NoKey, total, o), orders'[n])
    /\ orders'[n].state \in {"CREATED", "APPROVED", "REJECTED", "FAILED"}
    /\ known' = known \cup {n}
    /\ UNCHANGED <<byKey, ledger, kill>>
    /\ processed' \subseteq EventId

\* replace is a ReplaceStep.
LEMMA ReplaceEffect ==
    ASSUME TypeOK, NEW o \in OrderId, NEW n \in OrderId, NEW total \in 1 .. MaxQty,
           NEW e \in EventId \cup {NoEvent}, NEW verdict, Replace(o, n, total, e, verdict)
    PROVE  ReplaceStep(o, n, total)
<1> DEFINE r == orders[o]
           fresh == NewOrder(ReplacementQty(r, total), r.owner, NoKey, total, o)
           c == [MarkReplaced(r) EXCEPT !.replacedBy = n]
           v == IF verdict = "none" THEN fresh ELSE Validated(fresh, verdict)
<1>1. /\ r \in Order /\ o \in known /\ n \notin known /\ o # n
      /\ IsReplaceable(r) /\ CanTransition(r.state, "REPLACED")
      /\ ReplacementQty(r, total) > 0
      /\ verdict \in Verdicts(fresh) \cup {"none"}
      /\ orders' = [orders EXCEPT ![o] = c, ![n] = v]
      /\ known' = known \cup {n}
      /\ UNCHANGED <<byKey, ledger, kill>>
  BY DEF TypeOK, Replace
<1>2. processed' \subseteq EventId
  BY RecordType DEF Replace
<1> HIDE DEF r
<1>3. r.state \in {"ACKNOWLEDGED", "PARTIALLY_FILLED"}
  BY <1>1 DEF IsReplaceable, CanTransition
<1>4. r.filled \in Nat /\ r.quantity \in Nat /\ r.owner \in Owner /\ total \in Nat
  BY <1>1, BoundAssumption DEF Order
<1>5. r.filled < total /\ ReplacementQty(r, total) = total - r.filled
      /\ ReplacementQty(r, total) \in 0 .. MaxQty
  BY <1>1, <1>4, BoundAssumption DEF ReplacementQty
<1>6. fresh \in Order /\ fresh.state = "CREATED"
  <2>1. total \in 0 .. MaxQty
    BY BoundAssumption
  <2>2. NewOrder(ReplacementQty(r, total), r.owner, NoKey, total, o) \in Order
    BY <1>4, <1>5, <2>1, NewOrderType
  <2> QED
    BY <2>2 DEF NewOrder
<1>7. c \in Order /\ c.state = "REPLACED" /\ Kept([r EXCEPT !.replacedBy = n], c)
  <2>1. /\ MarkReplaced(r) \in Order /\ Kept(r, MarkReplaced(r))
        /\ MarkReplaced(r).state = "REPLACED"
    BY <1>1, MarkEffect
  <2> QED
    BY <2>1, <1>1 DEF Order, Kept
<1> HIDE DEF c, fresh
<1>8. /\ v \in Order /\ Kept(fresh, v)
      /\ v.state \in {"CREATED", "APPROVED", "REJECTED", "FAILED"}
  <2>1. CASE verdict = "none"
    BY <2>1, <1>6 DEF Kept
  <2>2. CASE verdict # "none"
    <3>1. verdict \in Verdicts(fresh)
      BY <2>2, <1>1
    <3>2. v = Validated(fresh, verdict)
      BY <2>2
    <3> HIDE DEF v
    <3>3. /\ Validated(fresh, verdict) \in Order
          /\ Kept(fresh, Validated(fresh, verdict))
          /\ Validated(fresh, verdict).state \in {"APPROVED", "REJECTED", "FAILED"}
      BY <3>1, <1>6, ValidatedEffect
    <3> QED
      BY <3>2, <3>3
  <2> QED
    BY <2>1, <2>2
<1> HIDE DEF v
<1>9. orders'[o] = c /\ orders'[n] = v /\ orders' \in [OrderId -> Order]
      /\ \A p \in OrderId \ {o, n} : orders'[p] = orders[p]
  BY <1>1, <1>7, <1>8 DEF TypeOK
<1> QED
  BY <1>1, <1>2, <1>3, <1>5, <1>7, <1>8, <1>9 DEF ReplaceStep, r, fresh

KillStep ==
    /\ kill' \subseteq KillScope
    /\ UNCHANGED <<known, orders, byKey, processed, ledger>>

\* The parts of an order book state that the proofs carry from step to step.
IInv ==
    /\ TypeOK
    /\ FillOncePerEvent
    /\ StateMatchesFills
    /\ ReplacementLinked
    /\ ReplacementExact
    /\ KeyBindsOneOrder

\* Every step of the manager is one of the five, or changes nothing.
Step ==
    \/ \E o \in OrderId : TouchStep(o)
    \/ \E o \in OrderId, q \in Nat \ {0}, e \in EventId : FillStep(o, q, e)
    \/ \E o \in OrderId, q \in 0 .. MaxQty, w \in Owner, k \in ClientKey \cup {NoKey} :
          CreateStep(o, q, w, k)
    \/ \E o, n \in OrderId, total \in 1 .. MaxQty : ReplaceStep(o, n, total)
    \/ KillStep

\* Every step of the manager is one of the five kinds.
LEMMA NextIsStep ==
    ASSUME TypeOK, StateMatchesFills, Next
    PROVE  Step
<1>1. ASSUME NEW o \in OrderId, NEW e \in EventId \cup {NoEvent}, NEW confirm, Cancel(o, e, confirm)
      PROVE  TouchStep(o)
  <2>1. orders[o].state \notin {"VALIDATING", "EXPIRED"}
    BY <1>1 DEF Cancel, StateMatchesFills, FillsFit
  <2> QED
    BY <1>1, <2>1, CancelTouches
<1>2. CASE \E o \in OrderId, q \in 0 .. MaxQty, w \in Owner, k \in ClientKey \cup {NoKey} :
              CreateOrder(o, q, w, k)
  BY <1>2, CreateEffect DEF Step
<1>3. CASE \E o \in OrderId, verdict \in {"ok", "reject", "error"} : ValidateAndApprove(o, verdict)
  BY <1>3, ValidateTouches DEF Step
<1>4. CASE \E o \in OrderId, v \in Venue, riskOk \in BOOLEAN, e \in EventId \cup {NoEvent} :
              Submit(o, v, riskOk, e)
  BY <1>4, SubmitTouches DEF Step
<1>5. CASE \E o \in OrderId, e \in EventId \cup {NoEvent} : Acknowledge(o, e)
  BY <1>5, AcknowledgeTouches DEF Step
<1>6. ASSUME NEW o \in OrderId, NEW q \in 1 .. MaxQty, NEW e \in EventId, ApplyFill(o, q, e)
      PROVE  Step
  <2>1. q \in Nat \ {0}
    BY BoundAssumption
  <2> QED
    BY <1>6, <2>1, FillEffect DEF Step
<1>7. CASE \E o \in OrderId, e \in EventId \cup {NoEvent}, confirm \in BOOLEAN : Cancel(o, e, confirm)
  BY <1>7, <1>1 DEF Step
<1>8. CASE \E o \in OrderId, total \in 1 .. MaxQty : ReplaceRaises(o, total)
  BY <1>8, ReplaceRaisesTouches DEF Step
<1>9. CASE \E o, n \in OrderId, total \in 1 .. MaxQty, e \in EventId \cup {NoEvent},
              verdict \in {"none", "ok", "reject", "error"} : Replace(o, n, total, e, verdict)
  BY <1>9, ReplaceEffect DEF Step
<1>10. ASSUME NEW o \in OrderId, NEW q \in 1 .. MaxQty, NEW e \in EventId, ProcessEvent(o, q, e)
       PROVE  Step
  <2>1. \/ Acknowledge(o, e) \/ ApplyFill(o, q, e) \/ Cancel(o, e, TRUE) \/ RejectEvent(o, e)
    BY <1>10 DEF ProcessEvent
  <2> QED
    BY <2>1, <1>1, <1>6, AcknowledgeTouches, RejectTouches DEF Step
<1>11. CASE \E s \in KillScope : EngageKill(s) \/ ClearKill(s)
  BY <1>11 DEF Step, KillStep, EngageKill, ClearKill, TypeOK
<1> QED
  BY <1>2, <1>3, <1>4, <1>5, <1>6, <1>7, <1>8, <1>9, <1>10, <1>11 DEF Next

-----------------------------------------------------------------------------
(* Each kind of step preserves each part of the invariant.                 *)

\* Touching one order preserves the inductive invariant.
LEMMA TouchPreserves ==
    ASSUME IInv, NEW o \in OrderId, TouchStep(o)
    PROVE  IInv'
<1> USE DEF IInv
<1>1. TypeOK'
  BY DEF TypeOK, TouchStep
<1>2. FillOncePerEvent'
  BY DEF FillOncePerEvent, TouchStep
<1>3. /\ o \in known /\ orders[o] \in Order /\ orders'[o] \in Order
      /\ known \subseteq OrderId /\ known' = known /\ byKey' = byKey
      /\ Kept(orders[o], orders'[o])
      /\ \A p \in OrderId \ {o} : orders'[p] = orders[p]
  BY DEF TypeOK, TouchStep, Others
<1>4. StateMatchesFills'
  <2>1. FillsFit(orders[o])
    BY <1>3 DEF StateMatchesFills
  <2>2. orders[o].quantity \in Nat /\ orders[o].filled \in Nat
    BY <1>3, BoundAssumption DEF Order
  <2>3. FillsFit(orders'[o])
    BY <1>3, <2>1, <2>2 DEF FillsFit, TouchStep, TouchMove, Kept, Terminal, Fillable, Order, OrderState
  <2> QED
    BY <1>3, <2>3 DEF StateMatchesFills
<1>5. ReplacementLinked'
  <2>1. orders'[o].state = "REPLACED" <=> orders[o].state = "REPLACED"
    BY DEF TouchStep, TouchMove, Terminal, Fillable
  <2> QED
    BY <1>3, <2>1 DEF ReplacementLinked, Kept
<1>6. ReplacementExact'
  <2>1. \A p \in known : Kept(orders[p], orders'[p])
    BY <1>3 DEF Kept
  <2>2. \A n \in known : orders[n].replaces # NoOrder => orders[n].replaces \in known
    BY DEF ReplacementLinked
  <2> QED
    BY <1>3, <2>1, <2>2 DEF ReplacementExact, Kept
<1>7. KeyBindsOneOrder'
  <2>1. \A p \in known : orders'[p].key = orders[p].key
    BY <1>3 DEF Kept
  <2> QED
    BY <1>3, <2>1 DEF KeyBindsOneOrder
<1> QED
  BY <1>1, <1>2, <1>4, <1>5, <1>6, <1>7

\* A fill preserves the inductive invariant.
LEMMA FillPreserves ==
    ASSUME IInv, NEW o \in OrderId, NEW q \in Nat \ {0}, NEW e \in EventId, FillStep(o, q, e)
    PROVE  IInv'
<1> USE DEF IInv
<1>1. TypeOK'
  BY DEF TypeOK, FillStep
<1>2. FillOncePerEvent'
  BY DEF FillOncePerEvent, FillStep, Seen
<1>3. /\ o \in known /\ orders[o] \in Order /\ orders'[o] \in Order
      /\ known \subseteq OrderId /\ known' = known /\ byKey' = byKey
      /\ \A p \in OrderId \ {o} : orders'[p] = orders[p]
      /\ orders[o].state \in Fillable
  BY DEF TypeOK, FillStep, Others
<1>4. orders[o].quantity \in Nat /\ orders[o].filled \in Nat
  BY <1>3, BoundAssumption DEF Order
<1>5. Kept([orders[o] EXCEPT !.filled = orders[o].filled + q], orders'[o])
  BY DEF FillStep
<1>6. /\ orders'[o].quantity = orders[o].quantity
      /\ orders'[o].filled = orders[o].filled + q
      /\ orders'[o].key = orders[o].key
      /\ orders'[o].replaces = orders[o].replaces
      /\ orders'[o].replacedBy = orders[o].replacedBy
      /\ orders'[o].wanted = orders[o].wanted
  BY <1>3, <1>5 DEF Kept, Order
<1>7. orders'[o].state =
        IF orders[o].filled + q >= orders[o].quantity THEN "FILLED" ELSE "PARTIALLY_FILLED"
  BY DEF FillStep
<1>8. StateMatchesFills'
  <2>1. FillsFit(orders[o]) /\ (AllowOverfill \/ orders[o].filled + q <= orders[o].quantity)
    BY <1>3 DEF StateMatchesFills, FillStep
  <2>2. 0 < orders[o].quantity
    BY <1>3, <1>4, <2>1 DEF FillsFit, Fillable
  <2>3. FillsFit(orders'[o])
    BY <1>4, <1>6, <1>7, <2>1, <2>2 DEF FillsFit
  <2> QED
    BY <1>3, <2>3 DEF StateMatchesFills
<1>9. orders[o].state # "REPLACED" /\ orders'[o].state # "REPLACED"
  BY <1>3, <1>7 DEF Fillable
<1>10. ReplacementLinked'
  BY <1>3, <1>6, <1>9 DEF ReplacementLinked
<1>11. ReplacementExact'
  <2>1. ASSUME NEW n \in known, orders[n].replaces # NoOrder
        PROVE  orders[n].replaces \in known /\ orders[n].replaces # o
    BY <2>1, <1>9, NoneAssumption DEF ReplacementLinked, TypeOK
  <2>2. \A p \in known : /\ orders'[p].quantity = orders[p].quantity
                          /\ orders'[p].replaces = orders[p].replaces
                          /\ orders'[p].wanted = orders[p].wanted
    BY <1>3, <1>6
  <2>3. \A p \in known \ {o} : orders'[p].filled = orders[p].filled
    BY <1>3
  <2> QED
    BY <1>3, <2>1, <2>2, <2>3 DEF ReplacementExact
<1>12. KeyBindsOneOrder'
  <2>1. \A p \in known : orders'[p].key = orders[p].key
    BY <1>3, <1>6
  <2> QED
    BY <1>3, <2>1 DEF KeyBindsOneOrder
<1> QED
  BY <1>1, <1>2, <1>8, <1>10, <1>11, <1>12

\* A creation preserves the inductive invariant.
LEMMA CreatePreserves ==
    ASSUME IInv, NEW o \in OrderId, NEW q \in 0 .. MaxQty, NEW w \in Owner,
           NEW k \in ClientKey \cup {NoKey}, CreateStep(o, q, w, k)
    PROVE  IInv'
<1> USE DEF IInv
<1>1. TypeOK'
  BY DEF TypeOK, CreateStep
<1>2. FillOncePerEvent'
  BY DEF FillOncePerEvent, CreateStep
<1>3. /\ o \notin known /\ known' = known \cup {o} /\ known \subseteq OrderId
      /\ orders'[o] = NewOrder(q, w, k, q, NoOrder)
      /\ \A p \in OrderId \ {o} : orders'[p] = orders[p]
      /\ q \in Nat
  BY BoundAssumption DEF TypeOK, CreateStep, Others
<1>4. /\ orders'[o].state = "CREATED" /\ orders'[o].filled = 0 /\ orders'[o].quantity = q
      /\ orders'[o].key = k /\ orders'[o].replaces = NoOrder /\ orders'[o].replacedBy = NoOrder
  BY <1>3 DEF NewOrder
<1>5. \A p \in known : orders'[p] = orders[p]
  BY <1>3
<1>6. StateMatchesFills'
  <2>1. FillsFit(orders'[o])
    BY <1>3, <1>4 DEF FillsFit
  <2> QED
    BY <1>3, <1>5, <2>1 DEF StateMatchesFills
<1>7. ReplacementLinked'
  BY <1>3, <1>4, <1>5 DEF ReplacementLinked
<1>8. ReplacementExact'
  BY <1>3, <1>4, <1>5 DEF ReplacementExact, ReplacementLinked
<1>9. KeyBindsOneOrder'
  <2>1. CASE k \in ClientKey
    <3>1. byKey[k] = NoOrder /\ byKey' = [byKey EXCEPT ![k] = o]
      BY <2>1 DEF CreateStep
    <3>2. byKey'[k] = o /\ \A j \in ClientKey \ {k} : byKey'[j] = byKey[j]
      BY <3>1, <2>1 DEF TypeOK
    <3>3. ASSUME NEW p \in known, orders[p].key # NoKey
          PROVE  orders[p].key \in ClientKey \ {k} /\ byKey[orders[p].key] = p
      <4>1. byKey[orders[p].key] = p
        BY <3>3 DEF KeyBindsOneOrder
      <4>2. p # NoOrder /\ orders[p].key \in ClientKey
        BY <3>3, NoneAssumption DEF TypeOK, Order
      <4> QED
        BY <4>1, <4>2, <3>1
    <3>4. \A p \in known' : orders'[p].key # NoKey => byKey'[orders'[p].key] = p
      BY <1>3, <1>4, <1>5, <3>2, <3>3
    <3>5. \A j \in ClientKey :
            byKey'[j] # NoOrder => byKey'[j] \in known' /\ orders'[byKey'[j]].key = j
      BY <1>3, <1>4, <1>5, <3>2 DEF KeyBindsOneOrder
    <3> QED
      BY <3>4, <3>5 DEF KeyBindsOneOrder
  <2>2. CASE k = NoKey
    <3>1. byKey' = byKey
      BY <2>2, NoneAssumption DEF CreateStep
    <3> QED
      BY <1>3, <1>4, <1>5, <2>2, <3>1 DEF KeyBindsOneOrder
  <2> QED
    BY <2>1, <2>2
<1> QED
  BY <1>1, <1>2, <1>6, <1>7, <1>8, <1>9

\* A replacement preserves the inductive invariant.
LEMMA ReplacePreserves ==
    ASSUME IInv, NEW o \in OrderId, NEW n \in OrderId, NEW total \in 1 .. MaxQty,
           ReplaceStep(o, n, total)
    PROVE  IInv'
<1> USE DEF IInv
<1>1. TypeOK'
  BY DEF TypeOK, ReplaceStep
<1>2. FillOncePerEvent'
  BY DEF FillOncePerEvent, ReplaceStep
<1>3. /\ o \in known /\ n \notin known /\ o # n /\ known' = known \cup {n} /\ known \subseteq OrderId
      /\ orders[o] \in Order /\ orders'[o] \in Order /\ orders'[n] \in Order
      /\ \A p \in known \ {o} : orders'[p] = orders[p]
      /\ orders[o].state \in {"ACKNOWLEDGED", "PARTIALLY_FILLED"}
      /\ orders'[o].state = "REPLACED"
      /\ orders'[n].state \in {"CREATED", "APPROVED", "REJECTED", "FAILED"}
      /\ byKey' = byKey
      /\ orders[o].filled < total
  BY DEF TypeOK, ReplaceStep
<1>4. /\ orders'[o].quantity = orders[o].quantity
      /\ orders'[o].filled = orders[o].filled
      /\ orders'[o].key = orders[o].key
      /\ orders'[o].replaces = orders[o].replaces
      /\ orders'[o].replacedBy = n
      /\ orders'[o].wanted = orders[o].wanted
  <2>1. Kept([orders[o] EXCEPT !.replacedBy = n], orders'[o])
    BY DEF ReplaceStep
  <2> QED
    BY <1>3, <2>1 DEF Kept, Order
<1>5. /\ orders'[n].quantity = total - orders[o].filled
      /\ orders'[n].filled = 0
      /\ orders'[n].key = NoKey
      /\ orders'[n].replaces = o
      /\ orders'[n].replacedBy = NoOrder
      /\ orders'[n].wanted = total
  <2>1. Kept(NewOrder(total - orders[o].filled, orders[o].owner, NoKey, total, o), orders'[n])
    BY DEF ReplaceStep
  <2> QED
    BY <2>1 DEF Kept, NewOrder
<1>6. /\ orders[o].filled \in Nat /\ orders[o].quantity \in Nat /\ total \in Nat
      /\ 0 < orders'[n].quantity /\ orders'[n].quantity \in Nat
  BY <1>3, <1>5, BoundAssumption DEF Order
<1>7. StateMatchesFills'
  <2>1. FillsFit(orders[o])
    BY <1>3 DEF StateMatchesFills
  <2>2. FillsFit(orders'[o])
    BY <1>3, <1>4, <1>6, <2>1 DEF FillsFit
  <2>3. FillsFit(orders'[n])
    BY <1>3, <1>5, <1>6 DEF FillsFit
  <2> QED
    BY <1>3, <2>2, <2>3 DEF StateMatchesFills
<1>8. n # NoOrder /\ o # NoOrder
  BY NoneAssumption
<1>9. orders[o].replacedBy = NoOrder
  BY <1>3 DEF ReplacementLinked
<1>10. ReplacementLinked'
  <2>1. ASSUME NEW p \in known'
        PROVE  /\ orders'[p].state = "REPLACED" <=> orders'[p].replacedBy # NoOrder
               /\ orders'[p].replacedBy # NoOrder =>
                     /\ orders'[p].replacedBy \in known'
                     /\ orders'[p].replacedBy # p
                     /\ orders'[orders'[p].replacedBy].replaces = p
    <3>1. CASE p = n
      BY <3>1, <1>3, <1>5
    <3>2. CASE p = o
      BY <3>2, <1>3, <1>4, <1>5, <1>8
    <3>3. CASE p \in known \ {o}
      <4>1. orders'[p] = orders[p]
        BY <3>3, <1>3
      <4>2. orders[p].replacedBy # NoOrder =>
              orders[p].replacedBy \in known /\ orders[orders[p].replacedBy].replaces = p
        BY <3>3 DEF ReplacementLinked
      <4>3. \A m \in known : orders'[m].replaces = orders[m].replaces
        BY <1>3, <1>4
      <4> QED
        BY <3>3, <4>1, <4>2, <4>3, <1>3 DEF ReplacementLinked
    <3> QED
      BY <3>1, <3>2, <3>3, <1>3
  <2>2. ASSUME NEW m \in known', orders'[m].replaces # NoOrder
        PROVE  orders'[m].replaces \in known' /\ orders'[orders'[m].replaces].replacedBy = m
    <3>1. CASE m = n
      BY <3>1, <1>3, <1>4, <1>5
    <3>2. CASE m \in known
      <4>1. orders'[m].replaces = orders[m].replaces
        BY <3>2, <1>3, <1>4
      <4>2. orders[m].replaces \in known /\ orders[orders[m].replaces].replacedBy = m
        BY <3>2, <2>2, <4>1 DEF ReplacementLinked
      <4>3. orders[m].replaces # o
        BY <3>2, <4>2, <1>9, NoneAssumption DEF TypeOK
      <4> QED
        BY <4>1, <4>2, <4>3, <1>3
    <3> QED
      BY <3>1, <3>2, <1>3
  <2> QED
    BY <2>1, <2>2 DEF ReplacementLinked
<1>11. ReplacementExact'
  <2>1. \A p \in known : /\ orders'[p].filled = orders[p].filled
                          /\ orders'[p].quantity = orders[p].quantity
                          /\ orders'[p].replaces = orders[p].replaces
                          /\ orders'[p].wanted = orders[p].wanted
    BY <1>3, <1>4
  <2>2. \A p \in known : orders[p].replaces # NoOrder => orders[p].replaces \in known
    BY DEF ReplacementLinked
  <2>3. orders'[o].filled + orders'[n].quantity = orders'[n].wanted
    BY <1>4, <1>5, <1>6
  <2> QED
    BY <1>3, <1>5, <2>1, <2>2, <2>3 DEF ReplacementExact
<1>12. KeyBindsOneOrder'
  <2>1. \A p \in known : orders'[p].key = orders[p].key
    BY <1>3, <1>4
  <2> QED
    BY <1>3, <1>5, <2>1 DEF KeyBindsOneOrder
<1> QED
  BY <1>1, <1>2, <1>7, <1>10, <1>11, <1>12

-----------------------------------------------------------------------------
(* The theorems.                                                           *)

\* The empty registry satisfies the inductive invariant.
LEMMA InitIInv == Init => IInv
<1> SUFFICES ASSUME Init PROVE IInv
  OBVIOUS
<1>1. (CHOOSE w \in Owner : TRUE) \in Owner
  BY ScopeAssumption
<1>2. Blank \in Order
  BY <1>1, BoundAssumption, NewOrderType DEF Blank
<1>3. TypeOK
  BY <1>2, NoneAssumption DEF Init, TypeOK
<1> QED
  BY <1>3 DEF Init, IInv, FillOncePerEvent, StateMatchesFills, ReplacementLinked,
              ReplacementExact, KeyBindsOneOrder

\* Every step preserves the inductive invariant.
LEMMA StepIInv == IInv /\ [Next]_vars => IInv'
<1> SUFFICES ASSUME IInv, [Next]_vars PROVE IInv'
  OBVIOUS
<1>1. CASE UNCHANGED vars
  BY <1>1 DEF vars, IInv, TypeOK, FillOncePerEvent, StateMatchesFills, ReplacementLinked,
              ReplacementExact, KeyBindsOneOrder
<1>2. CASE Next
  <2>1. Step
    BY <1>2, NextIsStep DEF IInv
  <2>2. CASE KillStep
    BY <2>2 DEF KillStep, IInv, TypeOK, FillOncePerEvent, StateMatchesFills,
                ReplacementLinked, ReplacementExact, KeyBindsOneOrder
  <2> QED
    BY <2>1, <2>2, TouchPreserves, FillPreserves, CreatePreserves, ReplacePreserves DEF Step
<1> QED
  BY <1>1, <1>2

\* The invariant holds in every reachable state.
THEOREM Invariance == Spec => []IInv
BY InitIInv, StepIInv, PTL DEF Spec

\* The variables keep their types.
THEOREM TypeCorrect == Spec => []TypeOK
<1>1. IInv => TypeOK
  BY DEF IInv
<1> QED
  BY <1>1, Invariance, PTL

\* No event id is ever the cause of two fills.
THEOREM FillsAreIdempotent == Spec => []FillOncePerEvent
<1>1. IInv => FillOncePerEvent
  BY DEF IInv
<1> QED
  BY <1>1, Invariance, PTL

\* The state of an order always agrees with what has been filled; in particular it
\* is never filled beyond its quantity unless overfills are allowed.
THEOREM StatesMatchFills == Spec => []StateMatchesFills
<1>1. IInv => StateMatchesFills
  BY DEF IInv
<1> QED
  BY <1>1, Invariance, PTL

\* Chains of replacements do not fork and have at most one working order.
THEOREM ChainsAreLinear == Spec => []ReplacementLinked
<1>1. IInv => ReplacementLinked
  BY DEF IInv
<1> QED
  BY <1>1, Invariance, PTL

\* An order and its replacement never execute more than the replace asked for.
THEOREM ReplacementsAreExact == Spec => []ReplacementExact
<1>1. IInv => ReplacementExact
  BY DEF IInv
<1> QED
  BY <1>1, Invariance, PTL

\* A client's idempotency key belongs to one order.
THEOREM KeysAreIdempotent == Spec => []KeyBindsOneOrder
<1>1. IInv => KeyBindsOneOrder
  BY DEF IInv
<1> QED
  BY <1>1, Invariance, PTL

\* A closed order keeps its state, its quantities and its link to a successor.
THEOREM ClosedOrdersStayClosed == Spec => TerminalFrozen
<1>1. ASSUME IInv, [Next]_vars
      PROVE  [\A o \in known : orders[o].state \in Terminal =>
                /\ orders'[o].state = orders[o].state
                /\ orders'[o].filled = orders[o].filled
                /\ orders'[o].quantity = orders[o].quantity
                /\ orders'[o].replacedBy = orders[o].replacedBy]_vars
  <2>1. CASE UNCHANGED vars
    BY <2>1
  <2>2. CASE Next
    <3> SUFFICES ASSUME NEW o \in known, orders[o].state \in Terminal
                 PROVE  /\ orders'[o].state = orders[o].state
                        /\ orders'[o].filled = orders[o].filled
                        /\ orders'[o].quantity = orders[o].quantity
                        /\ orders'[o].replacedBy = orders[o].replacedBy
      OBVIOUS
    <3>1. Step /\ o \in OrderId
      BY <1>1, <2>2, NextIsStep DEF IInv, TypeOK
    <3>2. ASSUME NEW p \in OrderId, TouchStep(p)
          PROVE  /\ Kept(orders[o], orders'[o])
                 /\ orders'[o].state = orders[o].state
      <4>1. CASE p = o
        BY <3>2, <4>1 DEF TouchStep, TouchMove, Terminal, Fillable
      <4>2. CASE p # o
        BY <3>1, <3>2, <4>2 DEF TouchStep, Others, Kept
      <4> QED
        BY <4>1, <4>2
    <3>3. ASSUME NEW p \in OrderId, NEW q \in Nat \ {0}, NEW e \in EventId, FillStep(p, q, e)
          PROVE  orders'[o] = orders[o]
      <4>1. p # o
        BY <3>3 DEF FillStep, Fillable, Terminal
      <4> QED
        BY <3>1, <3>3, <4>1 DEF FillStep, Others
    <3>4. ASSUME NEW p \in OrderId, NEW q \in 0 .. MaxQty, NEW w \in Owner,
                 NEW k \in ClientKey \cup {NoKey}, CreateStep(p, q, w, k)
          PROVE  orders'[o] = orders[o]
      BY <3>1, <3>4 DEF CreateStep, Others
    <3>5. ASSUME NEW p \in OrderId, NEW n \in OrderId, NEW total \in 1 .. MaxQty,
                 ReplaceStep(p, n, total)
          PROVE  orders'[o] = orders[o]
      <4>1. p # o /\ n # o
        BY <3>5 DEF ReplaceStep, Terminal
      <4> QED
        BY <3>1, <3>5, <4>1 DEF ReplaceStep
    <3>6. CASE KillStep
      BY <3>6 DEF KillStep
    <3> QED
      BY <3>1, <3>2, <3>3, <3>4, <3>5, <3>6 DEF Step, Kept
  <2> QED
    BY <1>1, <2>1, <2>2
<1> QED
  BY <1>1, Invariance, PTL DEF Spec, TerminalFrozen

-----------------------------------------------------------------------------
(* The fills of an order add up.                                           *)

Fill == [event : EventId, order : OrderId, qty : Nat \ {0}]

\* A fill that is not among others adds its quantity to its order's, and to no other's.
LEMMA FilledInAdds ==
    ASSUME NEW fills \in SUBSET Fill, IsFiniteSet(fills), NEW f \in Fill, f \notin fills
    PROVE  /\ IsFiniteSet(fills \cup {f})
           /\ \A o : FilledIn(fills \cup {f}, o) =
                        IF o = f.order THEN FilledIn(fills, o) + f.qty ELSE FilledIn(fills, o)
<1>1. IsFiniteSet(fills \cup {f})
  BY FS_AddElement
<1>2. ASSUME NEW o
      PROVE  FilledIn(fills \cup {f}, o) =
                 IF o = f.order THEN FilledIn(fills, o) + f.qty ELSE FilledIn(fills, o)
  <2> DEFINE A == fills \cup {f}
             S == {g \in fills : g.order = o}
             q == [g \in fills |-> g.qty]
             p == [g \in A |-> g.qty]
  <2>1. IsFiniteSet(S) /\ (\A g \in S : p[g] = q[g])
    BY FS_Subset
  <2>2. SumFunctionOnSet(p, S) = SumFunctionOnSet(q, S)
    <3> HIDE DEF p, q, S
    <3>1. QED
      BY <2>1, SumAgrees
  <2>3. CASE o = f.order
    <3>1. {g \in A : g.order = o} = S \cup {f} /\ f \notin S /\ p[f] = f.qty
      BY <2>3
    <3>2. \A g \in S \cup {f} : p[g] \in Nat
      BY DEF Fill
    <3>3. SumFunctionOnSet(p, S \cup {f}) = SumFunctionOnSet(p, S) + p[f]
      <4> HIDE DEF p, S
      <4>1. QED
        BY <2>1, <3>1, <3>2, SumAdds
    <3>4. FilledIn(A, o) = SumFunctionOnSet(p, S \cup {f}) /\ FilledIn(fills, o) = SumFunctionOnSet(q, S)
      BY <3>1 DEF FilledIn
    <3> HIDE DEF p, q, S
    <3>5. QED
      BY <2>2, <2>3, <3>1, <3>3, <3>4
  <2>4. CASE o # f.order
    <3>1. {g \in A : g.order = o} = S
      BY <2>4
    <3>2. FilledIn(A, o) = SumFunctionOnSet(p, S) /\ FilledIn(fills, o) = SumFunctionOnSet(q, S)
      BY <3>1 DEF FilledIn
    <3>3. QED
      BY <2>2, <2>4, <3>2
  <2>5. QED
    BY <2>3, <2>4
<1>3. QED
  BY <1>1, <1>2

\* No fills, no quantity.
LEMMA FilledInNone == ASSUME NEW o PROVE FilledIn({}, o) = 0
<1>1. {f \in {} : f.order = o} = {}
  OBVIOUS
<1>2. QED
  BY <1>1, SumOfNone DEF FilledIn

\* What carries the sums from step to step: a new order has no fills yet.
LedgerInv ==
    /\ IsFiniteSet(ledger)
    /\ FilledMatchesLedger
    /\ \A o \in OrderId \ known : orders[o].filled = 0

\* Only a fill moves a filled quantity, and by what it records.
LEMMA StepKeepsLedger == IInv /\ LedgerInv /\ [Next]_vars => LedgerInv'
<1> SUFFICES ASSUME IInv, LedgerInv, [Next]_vars PROVE LedgerInv'
  OBVIOUS
<1>1. CASE UNCHANGED vars
  BY <1>1 DEF vars, LedgerInv, FilledMatchesLedger
<1>2. ASSUME UNCHANGED ledger, known \subseteq known',
             \A o \in OrderId : orders'[o].filled = orders[o].filled
      PROVE  LedgerInv'
  BY <1>2 DEF LedgerInv, FilledMatchesLedger
<1>3. CASE Next
  <2>1. Step
    BY <1>3, NextIsStep DEF IInv
  <2>2. ASSUME NEW p \in OrderId, TouchStep(p)
        PROVE  LedgerInv'
    <3>1. \A o \in OrderId : orders'[o].filled = orders[o].filled
      BY <2>2 DEF TouchStep, Others, Kept
    <3>2. QED
      BY <1>2, <2>2, <3>1 DEF TouchStep
  <2>3. ASSUME NEW p \in OrderId, NEW q \in Nat \ {0}, NEW e \in EventId, FillStep(p, q, e)
        PROVE  LedgerInv'
    <3> DEFINE f == [event |-> e, order |-> p, qty |-> q]
    <3>1. f \in Fill /\ f \notin ledger /\ ledger' = ledger \cup {f}
      BY <2>3 DEF FillStep, Seen, Fill
    <3>2. ledger \in SUBSET Fill
      BY DEF IInv, TypeOK, Fill
    <3>3. f.order = p /\ f.qty = q
      OBVIOUS
    <3>4. \A o \in OrderId : orders'[o].filled =
                IF o = p THEN orders[o].filled + q ELSE orders[o].filled
      BY <2>3 DEF FillStep, Others, Kept, IInv, TypeOK, Order
    <3> HIDE DEF f
    <3>5. /\ IsFiniteSet(ledger')
          /\ \A o \in OrderId : FilledIn(ledger', o) =
                IF o = p THEN FilledIn(ledger, o) + q ELSE FilledIn(ledger, o)
      BY <3>1, <3>2, <3>3, FilledInAdds DEF LedgerInv
    <3>6. p \in known /\ known' = known
      BY <2>3 DEF FillStep
    <3>7. QED
      BY <3>4, <3>5, <3>6 DEF LedgerInv, FilledMatchesLedger
  <2>4. ASSUME NEW p \in OrderId, NEW q \in 0 .. MaxQty, NEW w \in Owner,
               NEW k \in ClientKey \cup {NoKey}, CreateStep(p, q, w, k)
        PROVE  LedgerInv'
    <3>1. orders'[p].filled = 0 /\ orders[p].filled = 0
      BY <2>4 DEF CreateStep, NewOrder, LedgerInv
    <3>2. QED
      BY <1>2, <2>4, <3>1 DEF CreateStep, Others
  <2>5. ASSUME NEW p \in OrderId, NEW n \in OrderId, NEW total \in 1 .. MaxQty,
               ReplaceStep(p, n, total)
        PROVE  LedgerInv'
    <3>1. orders'[n].filled = 0 /\ orders[n].filled = 0
      BY <2>5 DEF ReplaceStep, Kept, NewOrder, LedgerInv
    <3>2. orders'[p].filled = orders[p].filled
      BY <2>5 DEF ReplaceStep, Kept, IInv, TypeOK, Order
    <3>3. QED
      BY <1>2, <2>5, <3>1, <3>2 DEF ReplaceStep
  <2>6. CASE KillStep
    BY <1>2, <2>6 DEF KillStep
  <2>7. QED
    BY <2>1, <2>2, <2>3, <2>4, <2>5, <2>6 DEF Step
<1>4. QED
  BY <1>1, <1>3

LEMMA InitLedger == Init => LedgerInv
<1>1. IsFiniteSet({})
  BY FS_EmptySet
<1>2. QED
  BY <1>1, FilledInNone DEF Init, LedgerInv, FilledMatchesLedger, Blank, NewOrder

\* The filled quantity of every order is the sum of the fills recorded for it.
THEOREM FillsAddUp == Spec => []FilledMatchesLedger
<1>1. LedgerInv => FilledMatchesLedger
  BY DEF LedgerInv
<1> QED
  BY <1>1, InitLedger, StepKeepsLedger, Invariance, PTL DEF Spec

-----------------------------------------------------------------------------
(* The order manager implements the order book.                            *)

\* The book's view of the state, by name.
Phases == [o \in OrderId |-> PhaseOf(o)]
Sizes  == [o \in OrderId |-> orders[o].quantity]
Dones  == [o \in OrderId |-> orders[o].filled]
Used   == {f.event : f \in ledger}

\* An empty registry is an empty book.
LEMMA InitIsBook == Init => Book!Init
BY DEF Init, Book!Init, PhaseOf, Blank, NewOrder

\* An order that is touched moves through its phases as the book allows.
LEMMA TouchIsBook ==
    ASSUME IInv, NEW o \in OrderId, TouchStep(o)
    PROVE  [Book!Next]_(Book!vars)
<1> DEFINE s == orders[o].state
           t == orders'[o].state
<1>1. /\ o \in known /\ orders[o] \in Order /\ orders'[o] \in Order
      /\ orders'[o].quantity = orders[o].quantity /\ orders'[o].filled = orders[o].filled
      /\ Others(o) /\ UNCHANGED <<known, ledger>>
      /\ TouchMove(s, t) \/ (s = "CREATED" /\ t = "APPROVED" /\ orders[o].quantity > 0)
  BY DEF TouchStep, Kept, IInv, TypeOK
<1>2. Sizes' = Sizes /\ Dones' = Dones /\ Used' = Used
  BY <1>1 DEF Sizes, Dones, Used, Others
<1>3. Phases' = [Phases EXCEPT ![o] = PhaseOf(o)']
  BY <1>1 DEF Phases, PhaseOf, Others
<1>4. Phases[o] = PhaseOf(o)
  BY DEF Phases
<1>5. \/ PhaseOf(o)' = PhaseOf(o)
      \/ PhaseOf(o) = "new" /\ PhaseOf(o)' = "approved" /\ orders[o].quantity > 0
      \/ PhaseOf(o) = "approved" /\ PhaseOf(o)' = "working"
      \/ PhaseOf(o) \in {"new", "approved", "working"} /\ PhaseOf(o)' = "closed"
  <2>1. s \in OrderState /\ t \in OrderState
    BY <1>1 DEF Order
  <2> HIDE DEF s, t
  <2>2. /\ PhaseOf(o) = IF s \in {"CREATED", "VALIDATING"} THEN "new"
                        ELSE IF s = "APPROVED" THEN "approved"
                        ELSE IF s \in Terminal THEN "closed" ELSE "working"
        /\ PhaseOf(o)' = IF t \in {"CREATED", "VALIDATING"} THEN "new"
                         ELSE IF t = "APPROVED" THEN "approved"
                         ELSE IF t \in Terminal THEN "closed" ELSE "working"
    BY <1>1 DEF PhaseOf, s, t
  <2>3. QED
    BY <1>1, <2>1, <2>2 DEF TouchMove, Terminal, OrderState, Fillable
<1>6. CASE PhaseOf(o)' = PhaseOf(o)
  <2>1. Phases' = Phases
    BY <1>3, <1>6 DEF Phases
  <2>2. QED
    BY <1>2, <2>1 DEF Book!vars, Phases, Sizes, Dones, Used
<1>7. CASE PhaseOf(o) = "new" /\ PhaseOf(o)' = "approved" /\ orders[o].quantity > 0
  <2>1. Book!Approve(o)
    BY <1>2, <1>3, <1>4, <1>7 DEF Book!Approve, Phases, Sizes, Dones, Used
  <2>2. QED
    BY <2>1 DEF Book!Next
<1>8. CASE PhaseOf(o) = "approved" /\ PhaseOf(o)' = "working"
  <2>1. Book!Release(o)
    BY <1>2, <1>3, <1>4, <1>8 DEF Book!Release, Phases, Sizes, Dones, Used
  <2>2. QED
    BY <2>1 DEF Book!Next
<1>9. CASE PhaseOf(o) \in {"new", "approved", "working"} /\ PhaseOf(o)' = "closed"
  <2>1. Book!Close(o)
    BY <1>2, <1>3, <1>4, <1>9 DEF Book!Close, Phases, Sizes, Dones, Used
  <2>2. QED
    BY <2>1 DEF Book!Next
<1>10. QED
  BY <1>5, <1>6, <1>7, <1>8, <1>9

\* A fill is one execution, which closes the order if it completes it.
LEMMA FillIsBook ==
    ASSUME IInv, ~AllowOverfill, NEW o \in OrderId, NEW q \in Nat \ {0}, NEW e \in EventId,
           FillStep(o, q, e)
    PROVE  [Book!Next]_(Book!vars)
<1> DEFINE r == orders[o]
<1>1. /\ o \in known /\ r \in Order /\ orders'[o] \in Order
      /\ r.state \in Fillable /\ Others(o) /\ known' = known /\ ~Seen(e)
      /\ orders'[o].quantity = r.quantity
      /\ orders'[o].filled = r.filled + q
      /\ orders'[o].state = IF r.filled + q >= r.quantity THEN "FILLED" ELSE "PARTIALLY_FILLED"
      /\ r.filled + q <= r.quantity
      /\ ledger' = ledger \cup {[event |-> e, order |-> o, qty |-> q]}
  BY DEF FillStep, Kept, IInv, TypeOK, Order
<1>2. r.filled \in Nat /\ r.quantity \in 0 .. MaxQty
  BY <1>1 DEF Order
<1>3. q \in 1 .. MaxQty
  BY <1>1, <1>2, BoundAssumption
<1>4. Sizes' = Sizes /\ Dones' = [Dones EXCEPT ![o] = r.filled + q]
  BY <1>1 DEF Sizes, Dones, Others
<1>5. Used' = Used \cup {e} /\ e \notin Used
  <2>1. \A x : x \in Used' <=> \E f \in ledger' : f.event = x
    BY DEF Used
  <2>2. \A x : x \in Used <=> \E f \in ledger : f.event = x
    BY DEF Used
  <2> DEFINE g == [event |-> e, order |-> o, qty |-> q]
  <2>0. ledger' = ledger \cup {g} /\ g.event = e
    BY <1>1
  <2> HIDE DEF g
  <2>3. \A x : x \in Used' <=> x \in Used \/ x = e
    BY <2>0, <2>1, <2>2
  <2>4. QED
    BY <1>1, <2>2, <2>3 DEF Seen
<1>6. PhaseOf(o) = "working"
  BY <1>1 DEF PhaseOf, Fillable, Terminal
<1>7. PhaseOf(o)' = IF r.filled + q = r.quantity THEN "closed" ELSE "working"
  <2>1. r.filled + q >= r.quantity <=> r.filled + q = r.quantity
    BY <1>1, <1>2
  <2>2. QED
    BY <1>1, <2>1 DEF PhaseOf, Terminal
<1>8. Phases' = [Phases EXCEPT ![o] = PhaseOf(o)']
  BY <1>1 DEF Phases, PhaseOf, Others
<1>9. Phases' = IF r.filled + q = r.quantity THEN [Phases EXCEPT ![o] = "closed"] ELSE Phases
  BY <1>6, <1>7, <1>8 DEF Phases
<1>10. Phases[o] = "working" /\ Sizes[o] = r.quantity /\ Dones[o] = r.filled
  BY <1>6 DEF Phases, Sizes, Dones
<1> HIDE DEF r
<1>11. Book!Execute(o, q, e)
  <2>1. Phases[o] = "working" /\ e \notin Used /\ q > 0 /\ Dones[o] + q <= Sizes[o]
    BY <1>1, <1>2, <1>3, <1>5, <1>10, BoundAssumption
  <2>2. /\ Dones' = [Dones EXCEPT ![o] = Dones[o] + q] /\ Used' = Used \cup {e}
        /\ Phases' = IF Dones[o] + q = Sizes[o] THEN [Phases EXCEPT ![o] = "closed"] ELSE Phases
        /\ Sizes' = Sizes
    BY <1>4, <1>5, <1>9, <1>10
  <2>3. QED
    BY <2>1, <2>2 DEF Book!Execute, Phases, Sizes, Dones, Used
<1>12. QED
  BY <1>3, <1>11 DEF Book!Next

\* create_order places an order.
LEMMA CreateIsBook ==
    ASSUME IInv, NEW o \in OrderId, NEW q \in 0 .. MaxQty, NEW w, NEW k, CreateStep(o, q, w, k),
           orders[o].filled = 0
    PROVE  [Book!Next]_(Book!vars)
<1>1. /\ o \notin known /\ Others(o) /\ known' = known \cup {o} /\ ledger' = ledger
      /\ orders'[o].quantity = q /\ orders'[o].filled = 0 /\ orders'[o].state = "CREATED"
  BY DEF CreateStep, NewOrder
<1>2. Sizes' = [Sizes EXCEPT ![o] = q] /\ Dones' = Dones /\ Used' = Used
  BY <1>1 DEF Sizes, Dones, Used, Others
<1>3. Phases' = [Phases EXCEPT ![o] = "new"]
  BY <1>1 DEF Phases, PhaseOf, Others
<1>4. Phases[o] = "absent"
  BY <1>1 DEF Phases, PhaseOf
<1>5. Book!Place(o, q)
  BY <1>2, <1>3, <1>4 DEF Book!Place, Phases, Sizes, Dones, Used
<1>6. QED
  BY <1>5 DEF Book!Next

\* replace is an amendment.
LEMMA ReplaceIsBook ==
    ASSUME IInv, NEW o \in OrderId, NEW n \in OrderId, NEW total \in 1 .. MaxQty,
           ReplaceStep(o, n, total), orders[n].filled = 0
    PROVE  [Book!Next]_(Book!vars)
<1> DEFINE r == orders[o]
           q == total - r.filled
<1>1. /\ o \in known /\ n \notin known /\ o # n
      /\ known' = known \cup {n} /\ ledger' = ledger
      /\ \A p \in OrderId \ {o, n} : orders'[p] = orders[p]
      /\ r.state \in {"ACKNOWLEDGED", "PARTIALLY_FILLED"} /\ r.filled < total
      /\ orders'[o].state = "REPLACED"
      /\ orders'[n].state \in {"CREATED", "APPROVED", "REJECTED", "FAILED"}
  BY DEF ReplaceStep
<1>2. r \in Order /\ r.filled \in Nat
  BY DEF IInv, TypeOK, Order
<1>3. orders'[o].quantity = r.quantity /\ orders'[o].filled = r.filled
  BY <1>2 DEF ReplaceStep, Kept, Order
<1>4. orders'[n].quantity = q /\ orders'[n].filled = 0
  BY DEF ReplaceStep, Kept, NewOrder
<1>5. q \in 1 .. MaxQty /\ r.filled + q <= MaxQty
  BY <1>1, <1>2, BoundAssumption
<1>6. Sizes' = [Sizes EXCEPT ![n] = q] /\ Dones' = Dones /\ Used' = Used
  BY <1>1, <1>3, <1>4 DEF Sizes, Dones, Used
<1> DEFINE p == PhaseOf(n)'
<1>7. Phases' = [Phases EXCEPT ![o] = "closed", ![n] = p] /\ p \in {"new", "approved", "closed"}
  <2>1. PhaseOf(o)' = "closed"
    BY <1>1 DEF PhaseOf, Terminal
  <2>2. p \in {"new", "approved", "closed"}
    BY <1>1 DEF PhaseOf, Terminal
  <2>3. \A x \in OrderId \ {o, n} : PhaseOf(x)' = PhaseOf(x)
    BY <1>1 DEF PhaseOf
  <2>4. QED
    BY <1>1, <2>1, <2>2, <2>3 DEF Phases
<1>8. Phases[o] = "working" /\ Phases[n] = "absent" /\ Dones[o] = r.filled
  BY <1>1 DEF Phases, PhaseOf, Dones, Terminal
<1> HIDE DEF p, q, r
<1>9. PICK x \in 1 .. MaxQty : x = q
  BY <1>5
<1>10. PICK y \in {"new", "approved", "closed"} : y = p
  BY <1>7
<1>11. Book!Amend(o, n, x, y)
  <2>1. 0 < x /\ Dones[o] + x <= MaxQty
    BY <1>5, <1>8, <1>9, BoundAssumption
  <2>2. QED
    BY <1>6, <1>7, <1>8, <1>9, <1>10, <2>1 DEF Book!Amend, Phases, Sizes, Dones, Used
<1>12. QED
  BY <1>11 DEF Book!Next

\* What orders holds at an id that is not registered has filled nothing.
UnknownEmpty == \A o \in OrderId \ known : orders[o].filled = 0

\* Nothing fills an order before it is registered.
LEMMA UnknownStaysEmpty == IInv /\ UnknownEmpty /\ [Next]_vars => UnknownEmpty'
<1> SUFFICES ASSUME IInv, UnknownEmpty, [Next]_vars
             PROVE  UnknownEmpty'
  OBVIOUS
<1>1. CASE UNCHANGED vars
  BY <1>1 DEF UnknownEmpty, vars
<1>2. CASE Next
  <2>1. Step
    BY <1>2, NextIsStep DEF IInv
  <2>2. ASSUME NEW o \in OrderId, TouchStep(o)
        PROVE  UnknownEmpty'
    BY <2>2 DEF TouchStep, Others, UnknownEmpty
  <2>3. ASSUME NEW o \in OrderId, NEW q \in Nat \ {0}, NEW e \in EventId, FillStep(o, q, e)
        PROVE  UnknownEmpty'
    BY <2>3 DEF FillStep, Others, UnknownEmpty
  <2>4. ASSUME NEW o \in OrderId, NEW q \in 0 .. MaxQty, NEW w \in Owner,
               NEW k \in ClientKey \cup {NoKey}, CreateStep(o, q, w, k)
        PROVE  UnknownEmpty'
    BY <2>4 DEF CreateStep, Others, UnknownEmpty
  <2>5. ASSUME NEW o \in OrderId, NEW n \in OrderId, NEW total \in 1 .. MaxQty,
               ReplaceStep(o, n, total)
        PROVE  UnknownEmpty'
    BY <2>5 DEF ReplaceStep, UnknownEmpty
  <2>6. CASE KillStep
    BY <2>6 DEF KillStep, UnknownEmpty
  <2>7. QED
    BY <2>1, <2>2, <2>3, <2>4, <2>5, <2>6 DEF Step
<1>3. QED
  BY <1>1, <1>2

\* Every step of the manager is a step of the book or a stutter.
LEMMA StepIsBook ==
    ASSUME ~AllowOverfill, IInv, UnknownEmpty, [Next]_vars
    PROVE  [Book!Next]_(Book!vars)
<1>1. CASE UNCHANGED vars
  BY <1>1 DEF vars, Book!vars, PhaseOf
<1>2. CASE Next
  <2>1. Step
    BY <1>2, NextIsStep DEF IInv
  <2>2. ASSUME NEW o \in OrderId, NEW q \in 0 .. MaxQty, NEW w \in Owner,
               NEW k \in ClientKey \cup {NoKey}, CreateStep(o, q, w, k)
        PROVE  [Book!Next]_(Book!vars)
    <3>1. orders[o].filled = 0
      BY <2>2 DEF CreateStep, UnknownEmpty
    <3>2. QED
      BY <2>2, <3>1, CreateIsBook
  <2>3. ASSUME NEW o \in OrderId, NEW n \in OrderId, NEW total \in 1 .. MaxQty,
               ReplaceStep(o, n, total)
        PROVE  [Book!Next]_(Book!vars)
    <3>1. orders[n].filled = 0
      BY <2>3 DEF ReplaceStep, UnknownEmpty
    <3>2. QED
      BY <2>3, <3>1, ReplaceIsBook
  <2>4. CASE KillStep
    BY <2>4 DEF KillStep, Book!vars, PhaseOf
  <2>5. QED
    BY <2>1, <2>2, <2>3, <2>4, TouchIsBook, FillIsBook DEF Step
<1>3. QED
  BY <1>1, <1>2

\* Without overfills, every behaviour of the order manager is one of an order book,
\* whatever clients, venues and operators do and in whatever order.
THEOREM ManagerImplementsBook ==
    ASSUME ~AllowOverfill
    PROVE  Spec => ImplementsBook
<1>1. Init => UnknownEmpty
  BY DEF Init, UnknownEmpty, Blank, NewOrder
<1>2. Spec => [](IInv /\ UnknownEmpty)
  BY <1>1, InitIInv, StepIInv, UnknownStaysEmpty, PTL DEF Spec
<1>3. IInv /\ UnknownEmpty /\ [Next]_vars => [Book!Next]_(Book!vars)
  BY StepIsBook
<1>4. QED
  BY <1>2, <1>3, InitIsBook, PTL DEF Spec, ImplementsBook, Book!Spec

=============================================================================
