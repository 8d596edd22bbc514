----------------------- MODULE ExecutionEngine_proofs -----------------------
(***************************************************************************)
(* Proofs about the engine for any set of orders, parents, events, venues  *)
(* and plans, through crashes and loads.                                   *)
(*   Halts: an engine halted with cancel_open stays quiet.                 *)
(*   Fills: its variables keep their types, a run stays within the         *)
(*   residual it was planned for, and every fill counts once.              *)
(*   Orders: states match fills, and what is closed stays closed.          *)
(***************************************************************************)
EXTENDS ExecutionEngine, OrderManager_proofs

\* An order object, whatever its quantities: halts look at states only.
IsOrder(r) ==
    /\ DOMAIN r = {"state", "quantity", "filled", "completed", "rejected", "owner", "key",
                   "replaces", "replacedBy", "wanted"}
    /\ r = [x \in DOMAIN r |-> r[x]]
    /\ r.state \in OrderState

AreOrders(f) == f = [o \in OrderId |-> f[o]] /\ \A o \in OrderId : IsOrder(f[o])

Quiet == Terminal \cup {"CREATED"}

\* The invariant that is inductive: what is saved is as quiet as what is in memory.
QuietInv ==
    /\ AreOrders(orders)
    /\ known \subseteq OrderId
    /\ swept => halted /\ \A o \in known : orders[o].state \in Quiet
    /\ saved # NoSave =>
          /\ AreOrders(saved.orders)
          /\ saved.known \subseteq OrderId
          /\ saved.swept => saved.halted /\ \A o \in saved.known : saved.orders[o].state \in Quiet

\* A transition gives an order in the new state if the table has it.
LEMMA MovedIsOrder ==
    ASSUME NEW r, IsOrder(r), NEW to \in OrderState
    PROVE  /\ IsOrder(Moved(r, to))
           /\ Moved(r, to).state = IF CanTransition(r.state, to) THEN to ELSE r.state
BY DEF Moved, IsOrder

\* Stamps leave the state alone.
LEMMA StampIsOrder ==
    ASSUME NEW r, IsOrder(r)
    PROVE  /\ IsOrder([r EXCEPT !.completed = TRUE])
           /\ [r EXCEPT !.completed = TRUE].state = r.state
           /\ IsOrder([r EXCEPT !.completed = TRUE, !.rejected = TRUE])
           /\ [r EXCEPT !.completed = TRUE, !.rejected = TRUE].state = r.state
           /\ \A n : IsOrder([r EXCEPT !.filled = n]) /\ [r EXCEPT !.filled = n].state = r.state
BY DEF IsOrder

\* Each lifecycle helper moves an order along the table or leaves its state alone.
LEMMA MarkIsOrder ==
    ASSUME NEW r, IsOrder(r)
    PROVE  /\ IsOrder(MarkFailed(r)) /\ IsOrder(MarkRejected(r))
           /\ IsOrder(MarkCancelled(r)) /\ IsOrder(MarkFilled(r))
           /\ MarkRejected(r).state =
                 IF CanTransition(r.state, "REJECTED") THEN "REJECTED" ELSE r.state
           /\ MarkCancelled(r).state =
                 IF CanTransition(r.state, "CANCELLED") THEN "CANCELLED" ELSE r.state
<1> DEFINE c == [r EXCEPT !.completed = TRUE]
           b == [r EXCEPT !.completed = TRUE, !.rejected = TRUE]
<1>1. IsOrder(c) /\ c.state = r.state /\ IsOrder(b) /\ b.state = r.state
  BY StampIsOrder
<1>2. /\ MarkFailed(r) = Moved(b, "FAILED")
      /\ MarkRejected(r) = Moved(b, "REJECTED")
      /\ MarkCancelled(r) = Moved(c, "CANCELLED")
      /\ MarkFilled(r) = Moved(c, "FILLED")
  BY DEF MarkFailed, MarkRejected, MarkCancelled, MarkFilled
<1>3. {"FAILED", "REJECTED", "CANCELLED", "FILLED"} \subseteq OrderState
  BY DEF OrderState
<1> HIDE DEF b, c
<1>4. IsOrder(Moved(b, "FAILED")) /\ IsOrder(Moved(c, "FILLED"))
  BY <1>1, <1>3, MovedIsOrder
<1>5. /\ IsOrder(Moved(b, "REJECTED"))
      /\ Moved(b, "REJECTED").state =
            IF CanTransition(r.state, "REJECTED") THEN "REJECTED" ELSE r.state
  BY <1>1, <1>3, MovedIsOrder
<1>6. /\ IsOrder(Moved(c, "CANCELLED"))
      /\ Moved(c, "CANCELLED").state =
            IF CanTransition(r.state, "CANCELLED") THEN "CANCELLED" ELSE r.state
  BY <1>1, <1>3, MovedIsOrder
<1>7. QED
  BY <1>2, <1>4, <1>5, <1>6

\* A cancel that is confirmed closes whatever can be open.
LEMMA CancelCloses ==
    ASSUME NEW r, IsOrder(r), r.state \notin Terminal
    PROVE  IsOrder(AfterCancel(r, TRUE)) /\ AfterCancel(r, TRUE).state = "CANCELLED"
<1> DEFINE b == BeginCancel(r)
<1>1. CASE r.state \in {"CREATED", "VALIDATING", "APPROVED"}
  <2>1. b = MarkCancelled(r)
    BY <1>1 DEF BeginCancel
  <2>2. IsOrder(b) /\ b.state = "CANCELLED"
    BY <1>1, <2>1, MarkIsOrder DEF CanTransition
  <2>3. QED
    BY <2>2 DEF AfterCancel
<1>2. CASE r.state \notin {"CREATED", "VALIDATING", "APPROVED"}
  <2>1. r.state \in {"SUBMITTED", "ACKNOWLEDGED", "PARTIALLY_FILLED", "CANCEL_PENDING"}
    BY <1>2 DEF IsOrder, OrderState, Terminal
  <2>2. IsOrder(b) /\ b.state = "CANCEL_PENDING"
    <3>1. CASE r.state = "CANCEL_PENDING"
      BY <3>1 DEF BeginCancel
    <3>2. CASE r.state # "CANCEL_PENDING"
      <4>1. b = Moved(r, "CANCEL_PENDING")
        BY <3>2, <1>2 DEF BeginCancel
      <4>2. "CANCEL_PENDING" \in OrderState /\ CanTransition(r.state, "CANCEL_PENDING")
        BY <2>1, <3>2 DEF OrderState, CanTransition
      <4>3. QED
        BY <4>1, <4>2, MovedIsOrder
    <3>3. QED
      BY <3>1, <3>2
  <2>3. AfterCancel(r, TRUE) = MarkCancelled(b)
    BY <2>2 DEF AfterCancel
  <2> HIDE DEF b
  <2>4. IsOrder(MarkCancelled(b)) /\ MarkCancelled(b).state = "CANCELLED"
    BY <2>2, MarkIsOrder DEF CanTransition
  <2>5. QED
    BY <2>3, <2>4
<1>3. QED
  BY <1>1, <1>2

\* A fill keeps an order an order.
LEMMA FillIsOrder ==
    ASSUME NEW r, IsOrder(r), NEW q
    PROVE  IsOrder(WithFill(r, q))
<1> DEFINE s == [r EXCEPT !.filled = r.filled + q]
<1>1. IsOrder(s)
  BY StampIsOrder
<1>2. WithFill(r, q) = ApplyFillState(s)
  BY DEF WithFill
<1> HIDE DEF s
<1>3. "PARTIALLY_FILLED" \in OrderState
  BY DEF OrderState
<1>4. IsOrder(MarkFilled(s)) /\ IsOrder(Moved(s, "PARTIALLY_FILLED"))
  BY <1>1, <1>3, MarkIsOrder, MovedIsOrder
<1>5. QED
  BY <1>1, <1>2, <1>4 DEF ApplyFillState

\* What a slice puts into the registry is an order.
LEMMA ChildIsOrder ==
    /\ IsOrder(Validated(Child, "reject"))
    /\ IsOrder(Validated(Child, "error"))
    /\ IsOrder(Approved)
    /\ IsOrder(MarkRejected(Approved))
    /\ IsOrder(Moved(Approved, "SUBMITTED"))
<1> DEFINE v == Moved(Child, "VALIDATING")
<1>1. IsOrder(Child)
  BY DEF Child, NewOrder, IsOrder, OrderState
<1>2. {"VALIDATING", "APPROVED", "SUBMITTED"} \subseteq OrderState
  BY DEF OrderState
<1>3. IsOrder(v)
  BY <1>1, <1>2, MovedIsOrder
<1>4. /\ Validated(Child, "reject") = MarkRejected(v)
      /\ Validated(Child, "error") = MarkFailed(v)
      /\ Approved = Moved(v, "APPROVED")
  BY Zenon DEF Validated, Approved
<1> HIDE DEF v
<1>5. IsOrder(MarkRejected(v)) /\ IsOrder(MarkFailed(v)) /\ IsOrder(Moved(v, "APPROVED"))
  BY <1>2, <1>3, MarkIsOrder, MovedIsOrder
<1>6. IsOrder(Approved)
  BY <1>4, <1>5
<1>7. QED
  BY <1>2, <1>4, <1>5, <1>6, MarkIsOrder, MovedIsOrder

\* An acknowledged child is an order, and acknowledging leaves a closed one alone.
LEMMA AckedIsOrder ==
    ASSUME NEW r, IsOrder(r)
    PROVE  IsOrder(Acked(r)) /\ (r.state \in Quiet => Acked(r) = r)
<1>1. "ACKNOWLEDGED" \in OrderState
  BY DEF OrderState
<1>2. QED
  BY <1>1, MovedIsOrder DEF Acked, Quiet, Terminal

-----------------------------------------------------------------------------
(* The steps.                                                              *)

\* Changing one order keeps the invariant if a quiet engine stays quiet.
LEMMA UpdateKeepsQuiet ==
    ASSUME QuietInv, NEW o, NEW s, o \in OrderId => IsOrder(s),
           orders' = [orders EXCEPT ![o] = s],
           swept /\ o \in known => s.state \in Quiet,
           UNCHANGED <<known, saved, swept>>, swept => halted'
    PROVE  QuietInv'
BY DEF QuietInv, AreOrders

\* No slice is started by an engine that was swept.
LEMMA MakeChildKeepsQuiet ==
    ASSUME QuietInv, NEW c \in OrderId, NEW r, IsOrder(r), MakeChild(c, r)
    PROVE  QuietInv'
<1>1. ~swept
  BY DEF QuietInv, MakeChild, MayWork
<1>2. /\ known' = known \cup {c}
      /\ orders' = [orders EXCEPT ![c] = r]
      /\ UNCHANGED <<saved, swept, halted>>
  BY DEF MakeChild
<1>3. QED
  BY <1>1, <1>2 DEF QuietInv, AreOrders

\* A venue's answer finds the child closed once the engine was swept.
LEMMA VenueKeepsQuiet ==
    ASSUME QuietInv, VenueWithoutFill \/ \E q \in 0 .. MaxQty : VenueFill(q)
    PROVE  QuietInv'
<1> DEFINE c == run.child
           r == orders[c]
<1>1. UNCHANGED <<known, saved, swept, halted>>
  BY DEF VenueWithoutFill, VenueFill, VenueKeeps
<1>2. c \in OrderId => IsOrder(r) /\ IsOrder(Acked(r))
  BY AckedIsOrder DEF QuietInv, AreOrders
<1>3. swept /\ c \in known => c \in OrderId /\ r.state \in Quiet /\ halted
  BY DEF QuietInv
<1>4. swept /\ c \in known => Acked(r) = r
  BY <1>2, <1>3, AckedIsOrder
<1>5. swept => halted'
  BY <1>1 DEF QuietInv
<1>6. CASE VenueWithoutFill
  <2>1. orders' = [orders EXCEPT ![c] = Acked(r)]
    BY <1>6 DEF VenueWithoutFill
  <2> HIDE DEF c, r
  <2>2. QED
    BY <1>1, <1>2, <1>3, <1>4, <1>5, <2>1, UpdateKeepsQuiet
<1>7. ASSUME NEW q \in 0 .. MaxQty, VenueFill(q)
      PROVE  QuietInv'
  <2>1. \/ CanFill(Acked(r), q) /\ orders' = [orders EXCEPT ![c] = WithFill(Acked(r), q)]
        \/ orders' = [orders EXCEPT ![c] = Acked(r)]
    BY <1>7 DEF VenueFill
  <2>2. c \in OrderId => IsOrder(WithFill(Acked(r), q))
    BY <1>2, FillIsOrder
  <2>3. swept /\ c \in known => ~CanFill(Acked(r), q)
    <3>1. Quiet \cap Fillable = {}
      BY DEF Quiet, Fillable, Terminal
    <3>2. QED
      BY <1>3, <1>4, <3>1 DEF CanFill
  <2> HIDE DEF c, r
  <2>4. CASE CanFill(Acked(r), q) /\ orders' = [orders EXCEPT ![c] = WithFill(Acked(r), q)]
    BY <1>1, <1>5, <2>2, <2>3, <2>4, UpdateKeepsQuiet
  <2>5. CASE orders' = [orders EXCEPT ![c] = Acked(r)]
    BY <1>1, <1>2, <1>3, <1>4, <1>5, <2>5, UpdateKeepsQuiet
  <2>6. QED
    BY <2>1, <2>4, <2>5
<1>8. QED
  BY <1>6, <1>7

\* Nothing a feed delivers reopens an order.
LEMMA EventKeepsQuiet ==
    ASSUME QuietInv, NEW o \in OrderId, NEW q, NEW e, ApplyEvent(o, q, e)
    PROVE  QuietInv'
<1> DEFINE r == orders[o]
<1>1. UNCHANGED <<saved, swept>> /\ o \in known
  BY DEF ApplyEvent
<1>2. IsOrder(r) /\ (swept => halted /\ r.state \in Quiet)
  BY <1>1 DEF QuietInv, AreOrders
<1>3. halted' = halted
  BY DEF ApplyEvent
<1>4. CASE UNCHANGED book
  BY <1>1, <1>3, <1>4 DEF QuietInv, book, AreOrders
<1>5. CASE Acknowledge(o, e)
  <2>1. /\ orders' = [orders EXCEPT ![o] = Moved(r, "ACKNOWLEDGED")]
        /\ known' = known /\ r.state = "SUBMITTED"
    BY <1>5 DEF Acknowledge
  <2>2. "SUBMITTED" \notin Quiet /\ "ACKNOWLEDGED" \in OrderState
    BY DEF Quiet, Terminal, OrderState
  <2>3. IsOrder(Moved(r, "ACKNOWLEDGED"))
    BY <1>2, <2>2, MovedIsOrder
  <2> HIDE DEF r
  <2>4. QED
    BY <1>1, <1>2, <1>3, <2>1, <2>2, <2>3, UpdateKeepsQuiet
<1>6. CASE ApplyFill(o, q, e)
  <2>1. /\ orders' = [orders EXCEPT ![o] = WithFill(r, q)]
        /\ known' = known /\ r.state \in Fillable
    BY <1>6 DEF ApplyFill
  <2>2. Quiet \cap Fillable = {}
    BY DEF Quiet, Fillable, Terminal
  <2>3. IsOrder(WithFill(r, q))
    BY <1>2, FillIsOrder
  <2> HIDE DEF r
  <2>4. QED
    BY <1>1, <1>2, <1>3, <2>1, <2>2, <2>3, UpdateKeepsQuiet
<1>7. CASE Cancel(o, e, TRUE)
  <2>1. /\ orders' = [orders EXCEPT ![o] = AfterCancel(r, TRUE)]
        /\ known' = known /\ r.state \notin Terminal
    BY <1>7 DEF Cancel
  <2>2. IsOrder(AfterCancel(r, TRUE)) /\ AfterCancel(r, TRUE).state \in Quiet
    BY <1>2, <2>1, CancelCloses DEF Quiet, Terminal
  <2> HIDE DEF r
  <2>3. QED
    BY <1>1, <1>2, <1>3, <2>1, <2>2, UpdateKeepsQuiet
<1>8. CASE RejectEvent(o, e)
  <2>1. orders' = [orders EXCEPT ![o] = MarkRejected(r)] /\ known' = known
    BY <1>8 DEF RejectEvent
  <2>2. IsOrder(MarkRejected(r)) /\ (r.state \in Quiet => MarkRejected(r).state \in Quiet)
    BY <1>2, MarkIsOrder DEF Quiet, Terminal
  <2> HIDE DEF r
  <2>3. QED
    BY <1>1, <1>2, <1>3, <2>1, <2>2, UpdateKeepsQuiet
<1>9. QED
  BY <1>4, <1>5, <1>6, <1>7, <1>8 DEF ApplyEvent, ProcessEvent

\* halt with cancel_open closes every order that is not CREATED.
LEMMA HaltKeepsQuiet ==
    ASSUME QuietInv, NEW cancelOpen \in BOOLEAN, Halt(cancelOpen)
    PROVE  QuietInv'
<1>1. /\ UNCHANGED <<known, saved>> /\ halted' = TRUE
      /\ swept' = (swept \/ cancelOpen)
      /\ orders' = [o \in OrderId |->
                       IF cancelOpen /\ o \in known /\ orders[o].state \notin Terminal \cup {"CREATED"}
                       THEN AfterCancel(orders[o], TRUE) ELSE orders[o]]
  BY DEF Halt
<1>2. \A o \in OrderId : IsOrder(orders[o])
  BY DEF QuietInv, AreOrders
<1>3. \A o \in OrderId : IsOrder(orders'[o])
  BY <1>1, <1>2, CancelCloses
<1>4. AreOrders(orders')
  BY <1>1, <1>3 DEF AreOrders
<1>5. ASSUME swept', NEW o \in known
      PROVE  orders'[o].state \in Quiet
  <2>1. o \in OrderId /\ IsOrder(orders[o])
    BY <1>2 DEF QuietInv
  <2>2. CASE orders[o].state \in Quiet
    BY <1>1, <2>1, <2>2 DEF Quiet
  <2>3. CASE orders[o].state \notin Quiet
    <3>1. cancelOpen
      BY <1>1, <1>5, <2>3 DEF QuietInv
    <3>2. orders'[o] = AfterCancel(orders[o], TRUE)
      BY <1>1, <2>1, <2>3, <3>1 DEF Quiet
    <3>3. orders[o].state \notin Terminal
      BY <2>3 DEF Quiet
    <3>4. AfterCancel(orders[o], TRUE).state = "CANCELLED"
      BY <2>1, <3>3, CancelCloses
    <3>5. QED
      BY <3>2, <3>4 DEF Quiet, Terminal
  <2>4. QED
    BY <2>2, <2>3
<1>6. QED
  BY <1>1, <1>4, <1>5 DEF QuietInv, AreOrders

\* What a client places is only CREATED, halted or not.
LEMMA ClientOrderKeepsQuiet ==
    ASSUME QuietInv, NEW o \in OrderId, NEW q, NEW w, NEW k, ClientOrder(o, q, w, k)
    PROVE  QuietInv'
<1> DEFINE r == NewOrder(q, w, k, q, NoOrder)
<1>1. /\ known' = known \cup {o}
      /\ orders' = [orders EXCEPT ![o] = r]
      /\ UNCHANGED <<halted, swept, saved>>
  BY DEF ClientOrder, CreateOrder
<1>2. IsOrder(r) /\ r.state = "CREATED"
  BY DEF NewOrder, IsOrder, OrderState
<1> HIDE DEF r
<1>3. AreOrders(orders') /\ orders'[o] = r /\ \A p \in OrderId \ {o} : orders'[p] = orders[p]
  BY <1>1, <1>2 DEF QuietInv, AreOrders
<1>4. QED
  BY <1>1, <1>2, <1>3 DEF QuietInv, AreOrders, Quiet

\* Saving keeps what is quiet in memory quiet in the file.
LEMMA SaveKeepsQuiet ==
    ASSUME QuietInv, Save
    PROVE  QuietInv'
<1>1. UNCHANGED <<known, orders, halted, swept>>
  BY DEF Save, book
<1>2. /\ saved'.known = known /\ saved'.orders = orders
      /\ saved'.swept = swept /\ saved'.halted = halted
  BY DEF Save, Snapshot
<1>3. QED
  BY <1>1, <1>2 DEF QuietInv, AreOrders

\* A new process starts with empty books.
LEMMA RestartKeepsQuiet ==
    ASSUME QuietInv, Restart
    PROVE  QuietInv'
<1>1. /\ known' = {} /\ orders' = [o \in OrderId |-> Blank]
      /\ swept' = FALSE /\ saved' = saved
  BY DEF Restart
<1>2. IsOrder(Blank)
  BY DEF Blank, NewOrder, IsOrder, OrderState
<1>3. QED
  BY <1>1, <1>2 DEF QuietInv, AreOrders

\* What is loaded is quiet if it was when it was saved.
LEMMA LoadKeepsQuiet ==
    ASSUME QuietInv, Load
    PROVE  QuietInv'
<1>1. /\ saved # NoSave /\ saved' = saved
      /\ known' = known \cup saved.known
      /\ orders' = [o \in OrderId |-> IF o \in saved.known THEN saved.orders[o] ELSE orders[o]]
      /\ halted' = saved.halted
      /\ swept' = (saved.swept /\ known \subseteq saved.known)
  BY DEF Load
<1>2. AreOrders(orders')
  BY <1>1 DEF QuietInv, AreOrders
<1>3. ASSUME swept'
      PROVE  halted' /\ \A o \in known' : orders'[o].state \in Quiet
  BY <1>1, <1>3 DEF QuietInv
<1>4. QED
  BY <1>1, <1>2, <1>3 DEF QuietInv, AreOrders

\* Every step of the engine preserves the inductive invariant.
LEMMA StepKeepsQuiet == QuietInv /\ [EngineNext]_engineVars => QuietInv'
<1> SUFFICES ASSUME QuietInv, [EngineNext]_engineVars
             PROVE  QuietInv'
  OBVIOUS
<1>1. CASE UNCHANGED <<known, orders, saved, swept>> /\ halted' \in {halted, TRUE}
  BY <1>1 DEF QuietInv, AreOrders
<1>2. CASE UNCHANGED engineVars
  BY <1>1, <1>2 DEF engineVars, book
<1>3. ASSUME NEW p \in Parent, NEW w \in Owner, NEW plan \in Plans, Begin(p, w, plan)
      PROVE  QuietInv'
  BY <1>1, <1>3 DEF Begin, book
<1>4. ASSUME NEW w \in Owner, BeginRefused(w)
      PROVE  QuietInv'
  BY <1>1, <1>4 DEF BeginRefused, book
<1>5. CASE SliceBlocked \/ SliceEmpty \/ VenueRaises \/ Finish
  BY <1>1, <1>5 DEF SliceBlocked, SliceEmpty, VenueRaises, VenueKeeps, Finish, book
<1>6. ASSUME NEW c \in OrderId, SliceRefused(c)
      PROVE  QuietInv'
  BY <1>6, ChildIsOrder, MakeChildKeepsQuiet DEF SliceRefused
<1>7. ASSUME NEW c \in OrderId, SliceUnrouted(c) \/ SliceBroken(c)
      PROVE  QuietInv'
  BY <1>7, ChildIsOrder, MakeChildKeepsQuiet DEF SliceUnrouted, SliceBroken
<1>8. ASSUME NEW c \in OrderId, NEW v \in Venue, SliceSubmitted(c, v) \/ SliceLeft(c, v)
      PROVE  QuietInv'
  BY <1>8, ChildIsOrder, MakeChildKeepsQuiet DEF SliceSubmitted, SliceLeft
<1>9. CASE VenueWithoutFill \/ \E q \in 0 .. MaxQty : VenueFill(q)
  BY <1>9, VenueKeepsQuiet
<1>10. ASSUME NEW s \in KillScope, Kill(s) \/ Clear(s)
       PROVE  QuietInv'
  <2>1. CASE Kill(s)
    <3>1. UNCHANGED <<known, orders, saved, swept>> /\ halted' = (halted \/ s = Global)
      BY <2>1 DEF Kill, EngageKill
    <3>2. QED
      BY <3>1 DEF QuietInv, AreOrders
  <2>2. CASE Clear(s)
    BY <1>1, <2>2 DEF Clear, ClearKill
  <2>3. QED
    BY <1>10, <2>1, <2>2
<1>11. CASE ExecuteStep
  BY <1>5, <1>6, <1>7, <1>8, <1>9, <1>11 DEF ExecuteStep
<1>12. ASSUME NEW o \in OrderId, NEW q \in 0 .. MaxQty, NEW w \in Owner, NEW k \in ClientKey,
              ClientOrder(o, q, w, k)
       PROVE  QuietInv'
  BY <1>12, ClientOrderKeepsQuiet
<1>13. QED
  BY <1>2, <1>3, <1>4, <1>10, <1>11, <1>12, EventKeepsQuiet, HaltKeepsQuiet, SaveKeepsQuiet,
     RestartKeepsQuiet, LoadKeepsQuiet DEF EngineNext

\* A new engine has no orders.
LEMMA InitIsQuiet == EngineInit => QuietInv
<1>1. IsOrder(Blank)
  BY DEF Blank, NewOrder, IsOrder, OrderState
<1>2. QED
  BY <1>1 DEF EngineInit, Init, QuietInv, AreOrders

\* For any orders, parents, plans, venues and events, and through crashes and loads at
\* any moment: an engine halted with cancel_open has nothing open until it is loaded.
THEOREM HaltIsFinal == EngineSpec => []SweptStaysQuiet
<1>1. QuietInv => SweptStaysQuiet
  BY DEF QuietInv, SweptStaysQuiet, Quiet
<1>2. QED
  BY <1>1, InitIsQuiet, StepKeepsQuiet, PTL DEF EngineSpec

-----------------------------------------------------------------------------
(* The invariant.                                                          *)

SavedFile ==
    [known : SUBSET OrderId, orders : [OrderId -> Order],
     parentOf : [OrderId -> Parent \cup {NoParent}], kill : SUBSET KillScope,
     state : ExecutionState, halted : BOOLEAN, events : SUBSET FeedEvent,
     history : SUBSET Fill, swept : BOOLEAN]

EngineVarsOK ==
    /\ state \in ExecutionState
    /\ halted \in BOOLEAN
    /\ engineEvents \subseteq FeedEvent
    /\ filledQty \in [Parent -> Nat]
    /\ parentOf \in [OrderId -> Parent \cup {NoParent}]
    /\ run \in Run
    /\ saved # NoSave => saved \in SavedFile
    /\ history \subseteq Fill
    /\ swept \in BOOLEAN

Quantities == [o \in OrderId |-> orders[o].quantity]
Children == (run.made \cup {run.child}) \ {NoOrder}

\* The children of a call are registered, and with the slices still to come they stay
\* within the budget.
RunInv ==
    /\ IsFiniteSet(run.made) /\ run.made \subseteq known
    /\ run.child \in known \cup {NoOrder}
    /\ SumFunction(run.plan) \in Nat
    /\ run.parent # NoParent =>
          SumFunctionOnSet(Quantities, Children) + SumFunction(run.plan) <= run.budget

\* Fills come from the feed, whose ids the engine keeps, or from the venue, once for each
\* child and not before it has answered.
Booked(fills, ids, events, child) ==
    /\ IsFiniteSet(fills) /\ fills \subseteq Fill
    /\ \A f \in fills : /\ f.order \in ids
                        /\ f.event \in FeedEvent => f.event \in events
                        /\ f.event \notin FeedEvent =>
                              f.event = FillEvent(f.order) /\ f.order # child

BookInv ==
    /\ Booked(history, known, engineEvents, run.child)
    /\ FillsCountOnce
    /\ saved # NoSave =>
          /\ Booked(saved.history, saved.known, saved.events, NoOrder)
          /\ \A o \in saved.known : saved.orders[o].filled = FilledIn(saved.history, o)

TypeInv == TypeOK /\ EngineVarsOK
EngineInv == TypeInv /\ RunInv /\ (~LoadAnywhere => BookInv)

-----------------------------------------------------------------------------
(* What happens to one order.                                              *)

LEMMA KeptIsTransitive ==
    ASSUME NEW r, NEW s, NEW t, Kept(r, s), Kept(s, t) PROVE Kept(r, t)
BY DEF Kept

\* A cancel keeps all of an order but its state and its stamps.
LEMMA CancelKeeps ==
    ASSUME NEW r \in Order, NEW confirm
    PROVE  AfterCancel(r, confirm) \in Order /\ Kept(r, AfterCancel(r, confirm))
<1> DEFINE b == BeginCancel(r)
<1>1. Kept(r, r)
  BY DEF Kept
<1>2. "CANCEL_PENDING" \in OrderState
  BY DEF OrderState
<1>3. b = MarkCancelled(r) \/ b = r \/ b = Moved(r, "CANCEL_PENDING")
  BY DEF BeginCancel
<1>4. b \in Order /\ Kept(r, b)
  BY <1>1, <1>2, <1>3, MovedEffect, MarkEffect
<1>5. AfterCancel(r, confirm) = MarkCancelled(b) \/ AfterCancel(r, confirm) = b
  BY DEF AfterCancel
<1> HIDE DEF b
<1>6. MarkCancelled(b) \in Order /\ Kept(b, MarkCancelled(b))
  BY <1>4, MarkEffect
<1>7. QED
  BY <1>4, <1>5, <1>6, KeptIsTransitive

LEMMA AckKeeps ==
    ASSUME NEW r \in Order
    PROVE  Acked(r) \in Order /\ Kept(r, Acked(r))
<1>1. "ACKNOWLEDGED" \in OrderState
  BY DEF OrderState
<1>2. Kept(r, r)
  BY DEF Kept
<1>3. QED
  BY <1>1, <1>2, MovedEffect DEF Acked

\* A fill adds its quantity.
LEMMA FillKeeps ==
    ASSUME NEW r \in Order, NEW q \in Nat
    PROVE  /\ WithFill(r, q) \in Order
           /\ WithFill(r, q).quantity = r.quantity
           /\ WithFill(r, q).filled = r.filled + q
<1> DEFINE f == [r EXCEPT !.filled = r.filled + q]
<1>1. f \in Order /\ f.quantity = r.quantity /\ f.filled = r.filled + q
  BY DEF Order
<1>2. WithFill(r, q) = ApplyFillState(f)
  BY DEF WithFill
<1> HIDE DEF f
<1>3. "PARTIALLY_FILLED" \in OrderState
  BY DEF OrderState
<1>4. /\ MarkFilled(f) \in Order /\ Kept(f, MarkFilled(f))
      /\ Moved(f, "PARTIALLY_FILLED") \in Order /\ Kept(f, Moved(f, "PARTIALLY_FILLED"))
  BY <1>1, <1>3, MarkEffect, MovedEffect
<1>5. WithFill(r, q) \in {f, MarkFilled(f), Moved(f, "PARTIALLY_FILLED")}
  BY <1>2 DEF ApplyFillState
<1>6. QED
  BY <1>1, <1>4, <1>5 DEF Kept

LEMMA HeadAndTail ==
    ASSUME NEW S, NEW s \in Seq(S), s # <<>>
    PROVE  Head(s) \in S /\ Tail(s) \in Seq(S)
OBVIOUS

LEMMA FunctionIsSequence ==
    ASSUME NEW S, NEW n \in Nat, NEW s \in [1 .. n -> S]
    PROVE  s \in Seq(S)
OBVIOUS

LEMMA SequenceOfMore ==
    ASSUME NEW S, NEW T, S \subseteq T, NEW s \in Seq(S)
    PROVE  s \in Seq(T)
<1>1. Len(s) \in Nat /\ s = [i \in 1 .. Len(s) |-> s[i]] /\ \A i \in 1 .. Len(s) : s[i] \in S
  OBVIOUS
<1>2. \A i \in 1 .. Len(s) : s[i] \in T
  BY <1>1
<1>3. [i \in 1 .. Len(s) |-> s[i]] \in Seq(T)
  BY <1>1, <1>2
<1>4. QED
  BY <1>1, <1>3

LEMMA NatSequence ==
    ASSUME NEW s \in Seq(0 .. MaxQty) PROVE s \in Seq(Nat)
<1>1. 0 .. MaxQty \subseteq Nat
  BY BoundAssumption
<1>2. QED
  BY <1>1, SequenceOfMore

\* A slice is never larger than what the plan has for it.
LEMMA SliceFits ==
    ASSUME TypeInv, RunInv, AtSlice
    PROVE  /\ SliceQty \in 0 .. MaxQty /\ SliceQty <= Head(run.plan)
           /\ Tail(run.plan) \in Seq(0 .. MaxQty)
           /\ SumFunction(Tail(run.plan)) \in Nat
           /\ SumFunction(run.plan) = Head(run.plan) + SumFunction(Tail(run.plan))
           /\ Head(run.plan) \in Nat
<1>1. run.parent \in Parent /\ run.plan \in Seq(0 .. MaxQty) /\ run.plan # <<>>
  BY DEF TypeInv, EngineVarsOK, Run, AtSlice
<1>2. filledQty[run.parent] \in Nat /\ ParentQty \in Nat /\ MaxQty \in Nat
  BY <1>1, ParentAssumption, BoundAssumption DEF TypeInv, EngineVarsOK
<1>3. ParentResidual(run.parent) \in Nat
  BY <1>2 DEF ParentResidual
<1>4. Head(run.plan) \in 0 .. MaxQty /\ Tail(run.plan) \in Seq(0 .. MaxQty)
  BY <1>1, HeadAndTail
<1>5. run.plan \in Seq(Nat)
  BY <1>1, NatSequence
<1>6. /\ SumFunction(Tail(run.plan)) \in Nat
      /\ SumFunction(run.plan) = Head(run.plan) + SumFunction(Tail(run.plan))
  BY <1>1, <1>5, SumOfTail
<1>7. QED
  BY <1>2, <1>3, <1>4, <1>6 DEF SliceQty

\* What a slice puts into the registry has the quantity of the slice and no fills.
LEMMA ChildKeeps ==
    ASSUME TypeInv, RunInv, AtSlice,
           NEW s \in {Validated(Child, "reject"), Validated(Child, "error"), Approved,
                      MarkRejected(Approved), Moved(Approved, "SUBMITTED")}
    PROVE  s \in Order /\ s.quantity = SliceQty /\ s.filled = 0
<1> DEFINE v == Moved(Child, "VALIDATING")
<1>1. Child \in Order /\ Child.quantity = SliceQty /\ Child.filled = 0
  <2>1. SliceQty \in 0 .. MaxQty /\ run.owner \in Owner
    BY SliceFits DEF TypeInv, EngineVarsOK, Run
  <2>2. QED
    BY <2>1, NewOrderType DEF Child, NewOrder
<1>2. {"VALIDATING", "APPROVED", "SUBMITTED"} \subseteq OrderState
  BY DEF OrderState
<1>3. v \in Order /\ Kept(Child, v)
  BY <1>1, <1>2, MovedEffect
<1>4. /\ Validated(Child, "reject") = MarkRejected(v)
      /\ Validated(Child, "error") = MarkFailed(v)
      /\ Approved = Moved(v, "APPROVED")
  BY Zenon DEF Validated, Approved
<1> HIDE DEF v
<1>5. /\ MarkRejected(v) \in Order /\ Kept(v, MarkRejected(v))
      /\ MarkFailed(v) \in Order /\ Kept(v, MarkFailed(v))
      /\ Approved \in Order /\ Kept(v, Approved)
  BY <1>2, <1>3, <1>4, MarkEffect, MovedEffect
<1>6. /\ MarkRejected(Approved) \in Order /\ Kept(Approved, MarkRejected(Approved))
      /\ Moved(Approved, "SUBMITTED") \in Order /\ Kept(Approved, Moved(Approved, "SUBMITTED"))
  BY <1>2, <1>5, MarkEffect, MovedEffect
<1>7. QED
  BY <1>1, <1>3, <1>4, <1>5, <1>6 DEF Kept

-----------------------------------------------------------------------------
(* Runs and books under the changes that steps make.                       *)

\* Children are registered orders, so their quantities add up to a natural.
LEMMA ChildrenFacts ==
    ASSUME TypeInv, RunInv
    PROVE  /\ Children \subseteq known /\ known \subseteq OrderId /\ IsFiniteSet(Children)
           /\ \A o \in OrderId : orders[o].quantity \in Nat /\ orders[o].filled \in Nat
           /\ SumFunctionOnSet(Quantities, Children) \in Nat
<1>1. Children \subseteq known /\ known \subseteq OrderId
  BY DEF Children, TypeInv, TypeOK, RunInv
<1>2. IsFiniteSet(Children)
  <2>1. IsFiniteSet(run.made \cup {run.child})
    BY FS_AddElement DEF RunInv
  <2>2. QED
    BY <2>1, FS_Subset DEF Children
<1>3. \A o \in OrderId : orders[o].quantity \in Nat /\ orders[o].filled \in Nat
  BY BoundAssumption DEF TypeInv, TypeOK, Order
<1>4. \A o \in Children : Quantities[o] \in Nat
  BY <1>1, <1>3 DEF Quantities
<1>5. SumFunctionOnSet(Quantities, Children) \in Nat
  BY <1>2, <1>4, SumIsNat
<1>6. QED
  BY <1>1, <1>2, <1>3, <1>5

\* A call goes on as before while its children keep their quantities.
LEMMA RunGoesOn ==
    ASSUME TypeInv, RunInv, known \subseteq known', run' = run,
           \A o \in known : orders'[o].quantity = orders[o].quantity
    PROVE  RunInv'
<1>1. Children' = Children
  BY DEF Children
<1>2. \A o \in Children : Quantities'[o] = Quantities[o]
  BY ChildrenFacts DEF Quantities
<1>3. SumFunctionOnSet(Quantities', Children) = SumFunctionOnSet(Quantities, Children)
  BY <1>2, ChildrenFacts, SumAgrees
<1>4. QED
  BY <1>1, <1>3 DEF RunInv

\* Without a call there is nothing to keep.
LEMMA IdleFacts ==
    /\ Idle \in Run /\ Idle.parent = NoParent /\ Idle.child = NoOrder
    /\ Idle.made = {} /\ Idle.plan = <<>> /\ SumFunction(<<>>) = 0
<1>1. (CHOOSE w \in Owner : TRUE) \in Owner
  BY ScopeAssumption
<1>2. SumFunction(<<>>) = 0
  <2>1. DOMAIN <<>> = {}
    OBVIOUS
  <2>2. QED
    BY <2>1, SumOfNone DEF SumFunction
<1>3. QED
  BY <1>1, <1>2 DEF Idle, Run

LEMMA RunEnds == ASSUME run' = Idle PROVE RunInv'
<1>1. IsFiniteSet({})
  BY FS_EmptySet
<1>2. QED
  BY <1>1, IdleFacts DEF RunInv

\* Books stay right while no fill is booked, no quantity moves and new orders have none.
LEMMA BooksStay ==
    ASSUME TypeInv, BookInv, UNCHANGED <<history, saved>>, known \subseteq known',
           engineEvents \subseteq engineEvents',
           \A o \in known : orders'[o].filled = orders[o].filled,
           \A o \in known' \ known : orders'[o].filled = 0,
           run'.child = NoOrder \/ run'.child = run.child \/ run'.child \notin known
    PROVE  BookInv'
<1>1. \A f \in history : f.order \in known /\ f.order # NoOrder
  BY NoneAssumption DEF BookInv, Booked, TypeInv, TypeOK
<1>2. Booked(history, known', engineEvents', run'.child)
  BY <1>1 DEF BookInv, Booked
<1>3. ASSUME NEW o \in known' \ known
      PROVE  FilledIn(history, o) = 0
  <2>1. {f \in history : f.order = o} = {}
    BY <1>1, <1>3
  <2>2. QED
    BY <2>1, SumOfNone DEF FilledIn
<1>4. \A o \in known' : orders'[o].filled = FilledIn(history, o)
  BY <1>3 DEF BookInv, FillsCountOnce
<1>5. QED
  BY <1>2, <1>4 DEF BookInv, FillsCountOnce

\* A fill that is booked for the first time, with its quantity.
LEMMA BooksGrow ==
    ASSUME TypeInv, BookInv, UNCHANGED <<known, saved>>,
           NEW f \in Fill, f \notin history, f.order \in known, history' = history \cup {f},
           engineEvents \subseteq engineEvents',
           \A o \in known : orders'[o].filled =
               IF o = f.order THEN orders[o].filled + f.qty ELSE orders[o].filled,
           run'.child = NoOrder \/ run'.child = run.child,
           f.event \in FeedEvent => f.event \in engineEvents',
           f.event \notin FeedEvent => f.event = FillEvent(f.order) /\ run'.child = NoOrder
    PROVE  BookInv'
<1>1. history \subseteq Fill /\ IsFiniteSet(history)
  BY DEF BookInv, Booked
<1>2. /\ IsFiniteSet(history')
      /\ \A o : FilledIn(history', o) =
             IF o = f.order THEN FilledIn(history, o) + f.qty ELSE FilledIn(history, o)
  BY <1>1, FilledInAdds
<1>3. \A g \in history' : g.order # NoOrder
  BY <1>1, NoneAssumption DEF Fill
<1>4. Booked(history', known, engineEvents', run'.child)
  BY <1>1, <1>2, <1>3 DEF BookInv, Booked
<1>5. \A o \in known : orders'[o].filled = FilledIn(history', o)
  BY <1>2 DEF BookInv, FillsCountOnce
<1>6. QED
  BY <1>4, <1>5 DEF BookInv, FillsCountOnce

\* Steps that leave the orders alone.
LEMMA OrdersStay ==
    ASSUME EngineInv, UNCHANGED <<known, orders, byKey, processed, ledger>>,
           UNCHANGED <<parentOf, history, saved, engineEvents>>,
           kill' \subseteq KillScope, state' \in ExecutionState, halted' \in BOOLEAN,
           swept' \in BOOLEAN, filledQty' \in [Parent -> Nat], run' \in Run, RunInv',
           run'.child = NoOrder \/ run'.child = run.child
    PROVE  EngineInv'
<1>1. TypeInv'
  BY DEF EngineInv, TypeInv, TypeOK, EngineVarsOK
<1>2. BookInv => BookInv'
  BY BooksStay DEF EngineInv
<1>3. QED
  BY <1>1, <1>2 DEF EngineInv

\* Steps that change one order of the registry and book no fill.
LEMMA OneOrderMoves ==
    ASSUME EngineInv, NEW o \in known, NEW s \in Order, Kept(orders[o], s),
           orders' = [orders EXCEPT ![o] = s],
           UNCHANGED <<known, byKey, ledger, kill, parentOf, history, saved>>,
           UNCHANGED <<halted, swept, filledQty>>, state' \in ExecutionState,
           processed' \subseteq EventId, engineEvents \subseteq engineEvents',
           engineEvents' \subseteq FeedEvent, run' \in Run,
           run' = run \/ RunInv', run'.child = NoOrder \/ run'.child = run.child
    PROVE  EngineInv'
<1>1. o \in OrderId
  BY DEF EngineInv, TypeInv, TypeOK
<1>2. \A p \in OrderId : /\ orders'[p].quantity = orders[p].quantity
                         /\ orders'[p].filled = orders[p].filled
  BY <1>1 DEF EngineInv, TypeInv, TypeOK, Kept
<1>3. TypeInv'
  BY <1>1 DEF EngineInv, TypeInv, TypeOK, EngineVarsOK
<1>4. known \subseteq OrderId
  BY DEF EngineInv, TypeInv, TypeOK
<1>5. RunInv'
  BY <1>2, <1>4, RunGoesOn DEF EngineInv
<1>6. BookInv => BookInv'
  BY <1>2, <1>4, BooksStay DEF EngineInv
<1>7. QED
  BY <1>3, <1>5, <1>6 DEF EngineInv

-----------------------------------------------------------------------------
(* execute                                                                 *)

\* Assigning a record's fields one after the other gives a record of the same set.
LEMMA RunFields ==
    ASSUME NEW r \in Run, NEW plan \in Seq(0 .. MaxQty), NEW c \in OrderId \cup {NoOrder},
           NEW made \in SUBSET OrderId, NEW a \in BOOLEAN, NEW e \in BOOLEAN
    PROVE  /\ [r EXCEPT !.plan = plan] \in Run
           /\ [r EXCEPT !.plan = plan, !.errors = e] \in Run
           /\ [r EXCEPT !.plan = plan, !.child = c] \in Run
           /\ [r EXCEPT !.plan = plan, !.made = made] \in Run
           /\ [r EXCEPT !.child = c, !.made = made] \in Run
           /\ [r EXCEPT !.child = c, !.made = made, !.anyFill = a] \in Run
BY DEF Run

\* A plan is accepted only if it fits the residual, which becomes the budget.
LEMMA BeginStep ==
    ASSUME EngineInv, NEW p \in Parent, NEW w \in Owner, NEW plan \in Plans, Begin(p, w, plan)
    PROVE  EngineInv'
<1>1. PICK n \in 0 .. MaxSlices : plan \in [1 .. n -> 0 .. MaxQty]
  BY DEF Plans
<1>2. plan \in Seq(0 .. MaxQty)
  <2>1. n \in Nat
    BY ParentAssumption
  <2>2. QED
    BY <1>1, <2>1, FunctionIsSequence
<1>3. filledQty[p] \in Nat /\ ParentQty \in Nat
  BY ParentAssumption, BoundAssumption DEF EngineInv, TypeInv, EngineVarsOK
<1>4. ParentResidual(p) \in Nat
  BY <1>3 DEF ParentResidual
<1>5. run' = [Idle EXCEPT !.parent = p, !.owner = w, !.plan = plan, !.budget = ParentResidual(p)]
  BY DEF Begin
<1>6. run' \in Run /\ run'.parent = p /\ run'.plan = plan /\ run'.made = {}
      /\ run'.child = NoOrder /\ run'.budget = ParentResidual(p)
  BY <1>2, <1>4, <1>5, IdleFacts DEF Run
<1>7. SumFunction(plan) \in Nat /\ SumFunction(plan) <= ParentResidual(p)
  <2>1. plan \in Seq(Nat)
    BY <1>2, NatSequence
  <2>2. SumFunction(plan) \in Nat
    <3>1. CASE plan = <<>>
      BY <3>1, IdleFacts
    <3>2. CASE plan # <<>>
      BY <2>1, <3>2, SumOfTail
    <3>3. QED
      BY <3>1, <3>2
  <2>3. QED
    BY <2>2 DEF Begin, PlanFits
<1>8. RunInv'
  <2>1. Children' = {}
    BY <1>6 DEF Children
  <2>2. SumFunctionOnSet(Quantities', Children') = 0
    BY <2>1, SumOfNone
  <2>3. IsFiniteSet({})
    BY FS_EmptySet
  <2>4. QED
    BY <1>4, <1>6, <1>7, <2>2, <2>3 DEF RunInv
<1>9. state' \in ExecutionState
  BY DEF Begin, ExecutionState
<1>10. /\ UNCHANGED <<known, orders, byKey, processed, ledger>>
       /\ UNCHANGED <<parentOf, history, saved, engineEvents>>
       /\ UNCHANGED <<kill, halted, swept, filledQty>>
  BY DEF Begin, book
<1>11. QED
  BY <1>6, <1>8, <1>9, <1>10, OrdersStay DEF EngineInv, TypeInv, TypeOK, EngineVarsOK

\* Steps of execute that touch neither orders nor books.
LEMMA PlainStep ==
    ASSUME EngineInv, \/ \E w \in Owner : BeginRefused(w)
                      \/ SliceBlocked \/ SliceEmpty \/ VenueRaises \/ Finish
    PROVE  EngineInv'
<1>1. /\ UNCHANGED <<known, orders, byKey, processed, ledger>>
      /\ UNCHANGED <<parentOf, history, saved, engineEvents>>
      /\ UNCHANGED <<kill, halted, swept>>
  BY DEF BeginRefused, SliceBlocked, SliceEmpty, VenueRaises, VenueKeeps, Finish, book
<1>2. state' \in ExecutionState
  BY DEF BeginRefused, SliceBlocked, SliceEmpty, VenueRaises, Abort, Escape, Finish,
         ExecutionState, EngineInv, TypeInv, EngineVarsOK
<1>3. TypeInv /\ RunInv
  BY DEF EngineInv
<1>4. filledQty' \in [Parent -> Nat]
  <2>1. CASE Finish
    <3>1. \A o \in run.made : [p \in OrderId |-> orders[p].filled][o] \in Nat
      BY <1>3, ChildrenFacts DEF RunInv
    <3>2. SyncedQty \in Nat
      BY <1>3, <3>1, SumIsNat DEF SyncedQty, RunInv
    <3>3. QED
      BY <2>1, <3>2 DEF Finish, EngineInv, TypeInv, EngineVarsOK
  <2>2. CASE ~Finish
    BY <2>2 DEF BeginRefused, SliceBlocked, SliceEmpty, VenueRaises, VenueKeeps, EngineInv,
                TypeInv, EngineVarsOK
  <2>3. QED
    BY <2>1, <2>2
<1>5. \/ run' = run \/ run' = Idle
      \/ AtSlice /\ run' = [run EXCEPT !.plan = Tail(run.plan)]
  BY DEF BeginRefused, SliceBlocked, SliceEmpty, VenueRaises, Abort, Escape, Finish
<1>6. run' \in Run /\ RunInv' /\ (run'.child = NoOrder \/ run'.child = run.child)
  <2>1. CASE run' = run
    BY <1>1, <1>3, <2>1, RunGoesOn DEF TypeInv, EngineVarsOK
  <2>2. CASE run' = Idle
    BY <2>2, IdleFacts, RunEnds
  <2>3. CASE AtSlice /\ run' = [run EXCEPT !.plan = Tail(run.plan)]
    <3>1. /\ SumFunction(Tail(run.plan)) \in Nat /\ Head(run.plan) \in Nat
          /\ SumFunction(run.plan) = Head(run.plan) + SumFunction(Tail(run.plan))
          /\ Tail(run.plan) \in Seq(0 .. MaxQty)
      BY <1>3, <2>3, SliceFits
    <3>2. run' \in Run /\ run'.plan = Tail(run.plan) /\ run'.parent = run.parent
          /\ run'.made = run.made /\ run'.child = run.child /\ run'.budget = run.budget
      BY <1>3, <2>3, <3>1 DEF Run, TypeInv, EngineVarsOK
    <3>3. Children' = Children /\ Quantities' = Quantities
      BY <1>1, <3>2 DEF Children, Quantities
    <3>4. SumFunctionOnSet(Quantities, Children) \in Nat /\ run.budget \in Nat
      BY <1>3, ChildrenFacts DEF TypeInv, EngineVarsOK, Run
    <3>5. QED
      BY <1>1, <1>3, <3>1, <3>2, <3>3, <3>4 DEF RunInv
  <2>4. QED
    BY <1>5, <2>1, <2>2, <2>3
<1>7. kill' \subseteq KillScope /\ halted' \in BOOLEAN /\ swept' \in BOOLEAN
  BY <1>1, <1>3 DEF TypeInv, TypeOK, EngineVarsOK
<1>8. QED
  BY <1>1, <1>2, <1>4, <1>6, <1>7, OrdersStay

\* The quantity of a new child comes on top of those of the children before it.
LEMMA ChildAdds ==
    ASSUME TypeInv, RunInv, NEW c \in OrderId, NEW r \in Order, r.quantity = SliceQty,
           MakeChild(c, r)
    PROVE  /\ SliceQty \in Nat
           /\ SumFunctionOnSet(Quantities', Children) = SumFunctionOnSet(Quantities, Children)
           /\ SumFunctionOnSet(Quantities', Children \cup {c}) =
                  SumFunctionOnSet(Quantities, Children) + SliceQty
<1>1. /\ c \notin known
      /\ orders' = [orders EXCEPT ![c] = r]
  BY DEF MakeChild, FreshIds
<1>2. /\ Children \subseteq known /\ known \subseteq OrderId /\ IsFiniteSet(Children)
      /\ \A o \in OrderId : orders[o].quantity \in Nat
  BY ChildrenFacts
<1>3. SliceQty \in Nat
  BY SliceFits, BoundAssumption DEF MakeChild
<1>4. Quantities'[c] = SliceQty /\ \A o \in Children : Quantities'[o] = Quantities[o]
  BY <1>1, <1>2 DEF Quantities, TypeInv, TypeOK
<1>5. SumFunctionOnSet(Quantities', Children) = SumFunctionOnSet(Quantities, Children)
  BY <1>2, <1>4, SumAgrees
<1>6. \A o \in Children \cup {c} : Quantities'[o] \in Nat
  BY <1>2, <1>3, <1>4 DEF Quantities
<1>7. c \notin Children
  BY <1>1, <1>2
<1>8. SumFunctionOnSet(Quantities', Children \cup {c}) =
          SumFunctionOnSet(Quantities', Children) + Quantities'[c]
  BY <1>2, <1>6, <1>7, SumAdds
<1>9. QED
  BY <1>3, <1>4, <1>5, <1>8

\* How a slice goes on with its call, once its child is in the registry.
NextOfSlice(c) ==
    \/ run' = Idle
    \/ run' = run
    \/ run' = [run EXCEPT !.plan = Tail(run.plan), !.errors = TRUE]
    \/ run' = [run EXCEPT !.plan = Tail(run.plan), !.child = c]
    \/ run' = [run EXCEPT !.plan = Tail(run.plan), !.made = @ \cup {c}]

LEMMA SliceRun ==
    ASSUME TypeInv, RunInv, NEW c \in OrderId, NEW r \in Order, r.quantity = SliceQty,
           MakeChild(c, r), NextOfSlice(c)
    PROVE  /\ run' \in Run /\ RunInv'
           /\ run'.child = NoOrder \/ run'.child = run.child \/ run'.child \notin known
<1>1. /\ c \notin known /\ known' = known \cup {c} /\ AtSlice
      /\ orders' = [orders EXCEPT ![c] = r]
  BY DEF MakeChild, FreshIds
<1>2. known \subseteq OrderId /\ run \in Run /\ c # NoOrder
  BY NoneAssumption DEF TypeInv, TypeOK, EngineVarsOK
<1>3. /\ Tail(run.plan) \in Seq(0 .. MaxQty) /\ SliceQty <= Head(run.plan)
      /\ SumFunction(Tail(run.plan)) \in Nat /\ Head(run.plan) \in Nat
      /\ SumFunction(run.plan) = Head(run.plan) + SumFunction(Tail(run.plan))
  BY <1>1, SliceFits
<1>4. /\ SliceQty \in Nat
      /\ SumFunctionOnSet(Quantities', Children) = SumFunctionOnSet(Quantities, Children)
      /\ SumFunctionOnSet(Quantities', Children \cup {c}) =
             SumFunctionOnSet(Quantities, Children) + SliceQty
  BY ChildAdds
<1>5. SumFunctionOnSet(Quantities, Children) \in Nat /\ run.budget \in Nat
  BY <1>2, ChildrenFacts DEF Run
<1>6. run.parent # NoParent /\ run.child = NoOrder
  BY <1>1 DEF AtSlice
<1>7. IsFiniteSet(run.made \cup {c}) /\ run.made \cup {c} \in SUBSET OrderId
  BY <1>2, FS_AddElement DEF RunInv, Run
<1>8. CASE run' = Idle
  BY <1>8, IdleFacts, RunEnds
<1>9. CASE run' = run
  BY <1>1, <1>2, <1>9, RunGoesOn DEF TypeInv, TypeOK
<1>10. CASE run' = [run EXCEPT !.plan = Tail(run.plan), !.errors = TRUE]
  <2>1. run' \in Run /\ run'.parent = run.parent /\ run'.budget = run.budget
        /\ run'.made = run.made /\ run'.child = NoOrder /\ run'.plan = Tail(run.plan)
    BY <1>2, <1>3, <1>6, <1>10 DEF Run
  <2>2. Children' = Children
    BY <1>6, <2>1 DEF Children
  <2>3. RunInv'
    BY <1>1, <1>3, <1>4, <1>5, <1>6, <2>1, <2>2, SMTT(30) DEF RunInv
  <2>4. QED
    BY <2>1, <2>3
<1>11. CASE run' = [run EXCEPT !.plan = Tail(run.plan), !.child = c]
  <2>1. run' \in Run /\ run'.parent = run.parent /\ run'.budget = run.budget
        /\ run'.made = run.made /\ run'.child = c /\ run'.plan = Tail(run.plan)
    BY <1>2, <1>3, <1>6, <1>11 DEF Run
  <2>2. Children' = Children \cup {c}
    BY <1>2, <1>6, <2>1 DEF Children
  <2>3. RunInv'
    BY <1>1, <1>3, <1>4, <1>5, <1>6, <2>1, <2>2, SMTT(30) DEF RunInv
  <2>4. QED
    BY <1>1, <2>1, <2>3
<1>12. CASE run' = [run EXCEPT !.plan = Tail(run.plan), !.made = @ \cup {c}]
  <2>1. run' \in Run /\ run'.parent = run.parent /\ run'.budget = run.budget
        /\ run'.made = run.made \cup {c} /\ run'.child = NoOrder /\ run'.plan = Tail(run.plan)
    BY <1>2, <1>3, <1>6, <1>7, <1>12 DEF Run
  <2>2. Children' = Children \cup {c}
    BY <1>2, <1>6, <2>1 DEF Children
  <2>3. RunInv'
    BY <1>1, <1>3, <1>4, <1>5, <1>6, <1>7, <2>1, <2>2 DEF RunInv
  <2>4. QED
    BY <2>1, <2>3
<1>13. QED
  BY <1>8, <1>9, <1>10, <1>11, <1>12 DEF NextOfSlice

\* A slice puts one new order into the registry, without fills.
LEMMA SliceStep ==
    ASSUME EngineInv, NEW c \in OrderId,
           NEW r \in {Validated(Child, "reject"), Validated(Child, "error"), Approved,
                      MarkRejected(Approved), Moved(Approved, "SUBMITTED")},
           MakeChild(c, r), NextOfSlice(c), state' \in ExecutionState
    PROVE  EngineInv'
<1>1. /\ c \notin known /\ known' = known \cup {c} /\ AtSlice
      /\ orders' = [orders EXCEPT ![c] = r]
      /\ parentOf' = [parentOf EXCEPT ![c] = run.parent]
      /\ UNCHANGED <<byKey, processed, ledger, kill, halted, engineEvents, filledQty, saved>>
      /\ UNCHANGED <<history, swept>>
  BY DEF MakeChild, FreshIds
<1>2. TypeInv /\ RunInv
  BY DEF EngineInv
<1>3. r \in Order /\ r.quantity = SliceQty /\ r.filled = 0
  BY <1>1, <1>2, ChildKeeps
<1>4. /\ run' \in Run /\ RunInv'
      /\ run'.child = NoOrder \/ run'.child = run.child \/ run'.child \notin known
  BY <1>2, <1>3, SliceRun
<1>5. TypeInv'
  <2>1. run.parent \in Parent
    BY <1>1, <1>2 DEF AtSlice, TypeInv, EngineVarsOK, Run
  <2>2. TypeOK'
    BY <1>1, <1>2, <1>3 DEF TypeInv, TypeOK
  <2>3. EngineVarsOK'
    BY <1>1, <1>2, <1>4, <2>1 DEF TypeInv, EngineVarsOK
  <2>4. QED
    BY <2>2, <2>3 DEF TypeInv
<1>6. BookInv => BookInv'
  <2>1. \A o \in known : orders'[o] = orders[o]
    BY <1>1, <1>2 DEF TypeInv, TypeOK
  <2>2. \A o \in known' \ known : orders'[o].filled = 0
    BY <1>1, <1>2, <1>3 DEF TypeInv, TypeOK
  <2>3. QED
    BY <1>1, <1>2, <1>4, <2>1, <2>2, BooksStay
<1>7. QED
  BY <1>4, <1>5, <1>6 DEF EngineInv

LEMMA SliceSteps ==
    ASSUME EngineInv, NEW c \in OrderId,
           \/ SliceRefused(c) \/ SliceBroken(c) \/ SliceUnrouted(c)
           \/ \E v \in Venue : SliceSubmitted(c, v) \/ SliceLeft(c, v)
    PROVE  EngineInv'
<1>1. "FAILED" \in ExecutionState /\ state \in ExecutionState
  BY DEF ExecutionState, EngineInv, TypeInv, EngineVarsOK
<1>2. CASE SliceRefused(c)
  <2>1. NextOfSlice(c) /\ state' \in ExecutionState
    BY <1>1, <1>2 DEF SliceRefused, Abort, NextOfSlice
  <2>2. QED
    BY <1>2, <2>1, SliceStep DEF SliceRefused
<1>3. CASE SliceBroken(c)
  BY <1>1, <1>3, SliceStep DEF SliceBroken, Escape, NextOfSlice
<1>4. CASE SliceUnrouted(c)
  BY <1>1, <1>4, SliceStep DEF SliceUnrouted, NextOfSlice
<1>5. CASE \E v \in Venue : SliceSubmitted(c, v)
  BY <1>1, <1>5, SliceStep DEF SliceSubmitted, NextOfSlice
<1>6. CASE \E v \in Venue : SliceLeft(c, v)
  BY <1>1, <1>6, SliceStep DEF SliceLeft, NextOfSlice
<1>7. QED
  BY <1>2, <1>3, <1>4, <1>5, <1>6

-----------------------------------------------------------------------------
(* The venue's answers.                                                    *)

\* The child at the venue is a registered order, and its call may move on.
LEMMA AtVenueFacts ==
    ASSUME TypeInv, RunInv, AtVenue
    PROVE  /\ run.child \in known /\ run.child \in OrderId /\ orders[run.child] \in Order
           /\ run \in Run /\ IsFiniteSet(run.made \cup {run.child})
           /\ run.made \cup {run.child} \in SUBSET OrderId
           /\ run.made \cup {run.child} \subseteq known
           /\ AckRecorded(run.child) \subseteq EventId
           /\ FillEvent(run.child) \in EventId \ FeedEvent
<1>1. run.child \in known /\ run.child \in OrderId
  BY DEF AtVenue, RunInv, TypeInv, TypeOK
<1>2. orders[run.child] \in Order /\ run \in Run
  BY <1>1 DEF TypeInv, TypeOK, EngineVarsOK
<1>3. IsFiniteSet(run.made \cup {run.child})
  BY FS_AddElement DEF RunInv
<1>4. run.made \cup {run.child} \in SUBSET OrderId /\ run.made \cup {run.child} \subseteq known
  BY <1>1, <1>2 DEF Run, RunInv
<1>5. AckEvent(run.child) \in EventId /\ FillEvent(run.child) \in EventId
  BY <1>1, EventAssumption
<1>6. AckRecorded(run.child) \subseteq EventId
  BY <1>5 DEF AckRecorded, TypeInv, TypeOK
<1>7. FillEvent(run.child) \notin FeedEvent
  BY <1>1 DEF FeedEvent
<1>8. QED
  BY <1>1, <1>2, <1>3, <1>4, <1>5, <1>6, <1>7

\* Once the venue has answered, the child counts among those of the call as before.
LEMMA NextSliceRun ==
    ASSUME TypeInv, RunInv, AtVenue, UNCHANGED known, NEW a \in BOOLEAN,
           \A o \in known : orders'[o].quantity = orders[o].quantity,
           run' = [run EXCEPT !.child = NoOrder, !.made = @ \cup {run.child}, !.anyFill = a]
    PROVE  run' \in Run /\ RunInv' /\ run'.child = NoOrder
<1> DEFINE c == run.child
<1>1. /\ c \in known /\ c # NoOrder /\ run \in Run /\ IsFiniteSet(run.made \cup {c})
      /\ run.made \cup {c} \in SUBSET OrderId /\ run.made \cup {c} \subseteq known
  BY AtVenueFacts DEF AtVenue
<1>2. /\ run' \in Run /\ run'.parent = run.parent /\ run'.budget = run.budget
      /\ run'.made = run.made \cup {c} /\ run'.child = NoOrder /\ run'.plan = run.plan
  BY <1>1 DEF Run
<1>3. Children' = Children
  BY <1>1, <1>2 DEF Children
<1>4. SumFunctionOnSet(Quantities', Children) = SumFunctionOnSet(Quantities, Children)
  <2>1. \A o \in Children : Quantities'[o] = Quantities[o]
    BY ChildrenFacts DEF Quantities
  <2>2. QED
    BY <2>1, ChildrenFacts, SumAgrees
<1>5. RunInv'
  BY <1>1, <1>2, <1>3, <1>4 DEF RunInv
<1>6. QED
  BY <1>2, <1>5

LEMMA AnswerStep == ASSUME EngineInv, VenueWithoutFill PROVE EngineInv'
<1> DEFINE c == run.child
<1>1. /\ AtVenue /\ orders' = [orders EXCEPT ![c] = Acked(orders[c])]
      /\ processed' = AckRecorded(c)
      /\ run' = [run EXCEPT !.child = NoOrder, !.made = @ \cup {run.child}]
      /\ UNCHANGED <<known, byKey, ledger, kill, parentOf, history, saved>>
      /\ UNCHANGED <<halted, swept, filledQty, state, engineEvents>>
  BY DEF VenueWithoutFill, VenueKeeps, NextSlice
<1>2. TypeInv /\ RunInv
  BY DEF EngineInv
<1>3. c \in known /\ c \in OrderId /\ orders[c] \in Order /\ AckRecorded(c) \subseteq EventId
  BY <1>1, <1>2, AtVenueFacts
<1>4. Acked(orders[c]) \in Order /\ Kept(orders[c], Acked(orders[c]))
  BY <1>3, AckKeeps
<1>5. \A o \in known : orders'[o].quantity = orders[o].quantity
  BY <1>1, <1>2, <1>3, <1>4 DEF TypeInv, TypeOK, Kept
<1>6. run.anyFill \in BOOLEAN /\ run' = [run EXCEPT !.child = NoOrder,
                                          !.made = @ \cup {run.child}, !.anyFill = run.anyFill]
  BY <1>1, <1>2 DEF TypeInv, EngineVarsOK, Run
<1>7. run' \in Run /\ RunInv' /\ run'.child = NoOrder
  BY <1>1, <1>2, <1>5, <1>6, NextSliceRun
<1>8. state' \in ExecutionState /\ engineEvents' \subseteq FeedEvent
  BY <1>1, <1>2 DEF TypeInv, EngineVarsOK
<1>9. QED
  BY <1>1, <1>3, <1>4, <1>7, <1>8, OneOrderMoves

\* A fill of one order, booked under an id that accounts for no other fill.
LEMMA FillMoves ==
    ASSUME EngineInv, NEW o \in known, NEW r \in Order, Kept(orders[o], r),
           NEW q \in Nat \ {0}, NEW e \in EventId,
           LET f == [event |-> e, order |-> o, qty |-> q]
           IN  /\ ~LoadAnywhere => f \notin history
               /\ ledger' = ledger \cup {f} /\ history' = history \cup {f},
           orders' = [orders EXCEPT ![o] = WithFill(r, q)],
           UNCHANGED <<known, byKey, kill, parentOf, saved>>,
           UNCHANGED <<halted, swept, filledQty, state>>,
           processed' \subseteq EventId, engineEvents \subseteq engineEvents',
           engineEvents' \subseteq FeedEvent, run' \in Run,
           run' = run \/ RunInv', run'.child = NoOrder \/ run'.child = run.child,
           e \in FeedEvent => e \in engineEvents',
           e \notin FeedEvent => e = FillEvent(o) /\ run'.child = NoOrder
    PROVE  EngineInv'
<1> DEFINE f == [event |-> e, order |-> o, qty |-> q]
<1>1. TypeInv /\ RunInv /\ o \in OrderId /\ f \in Fill
  BY DEF EngineInv, TypeInv, TypeOK, Fill
<1>2. /\ WithFill(r, q) \in Order /\ WithFill(r, q).quantity = orders[o].quantity
      /\ WithFill(r, q).filled = orders[o].filled + q
  BY FillKeeps DEF Kept
<1>3. /\ \A p \in OrderId : orders'[p].quantity = orders[p].quantity
      /\ \A p \in OrderId : orders'[p].filled =
             IF p = o THEN orders[p].filled + q ELSE orders[p].filled
  BY <1>1, <1>2 DEF TypeInv, TypeOK
<1>4. TypeInv'
  <2>1. TypeOK'
    BY <1>1, <1>2 DEF TypeInv, TypeOK, Fill
  <2>2. EngineVarsOK'
    BY <1>1 DEF TypeInv, EngineVarsOK
  <2>3. QED
    BY <2>1, <2>2 DEF TypeInv
<1>5. known \subseteq OrderId
  BY <1>1 DEF TypeInv, TypeOK
<1>6. RunInv'
  BY <1>1, <1>3, <1>5, RunGoesOn
<1>7. ASSUME ~LoadAnywhere
      PROVE  BookInv'
  <2>1. BookInv /\ f \notin history /\ history' = history \cup {f}
    BY <1>7 DEF EngineInv
  <2>2. f.order = o /\ f.qty = q /\ f.event = e
    OBVIOUS
  <2> HIDE DEF f
  <2>3. QED
    BY <1>1, <1>3, <1>5, <2>1, <2>2, BooksGrow
<1>8. QED
  BY <1>4, <1>6, <1>7 DEF EngineInv

LEMMA VenueFillStep ==
    ASSUME EngineInv, NEW q \in 0 .. MaxQty, VenueFill(q) PROVE EngineInv'
<1> DEFINE c == run.child
           r == Acked(orders[c])
           f == [event |-> FillEvent(c), order |-> c, qty |-> q]
<1>1. TypeInv /\ RunInv /\ AtVenue
  BY DEF EngineInv, VenueFill
<1>2. /\ c \in known /\ c \in OrderId /\ c # NoOrder /\ orders[c] \in Order
      /\ AckRecorded(c) \subseteq EventId
      /\ FillEvent(c) \in EventId /\ FillEvent(c) \notin FeedEvent
  BY <1>1, AtVenueFacts DEF AtVenue
<1>3. r \in Order /\ Kept(orders[c], r)
  BY <1>2, AckKeeps
<1>4. /\ UNCHANGED <<known, byKey, kill, parentOf, saved>>
      /\ UNCHANGED <<halted, swept, filledQty, engineEvents>>
  BY DEF VenueFill, VenueKeeps
<1>5. engineEvents' \subseteq FeedEvent /\ state \in ExecutionState /\ "FAILED" \in ExecutionState
  BY <1>1, <1>4 DEF TypeInv, EngineVarsOK, ExecutionState
<1>6. CASE /\ CanFill(r, q)
           /\ orders' = [orders EXCEPT ![c] = WithFill(r, q)]
           /\ processed' = AckRecorded(c) \cup {FillEvent(c)}
           /\ ledger' = ledger \cup {f}
           /\ history' = history \cup {f}
           /\ run' = [run EXCEPT !.child = NoOrder, !.made = @ \cup {c}, !.anyFill = TRUE]
           /\ UNCHANGED state
  <2>1. q \in Nat \ {0}
    BY <1>6, BoundAssumption DEF CanFill
  <2>2. WithFill(r, q) \in Order /\ WithFill(r, q).quantity = orders[c].quantity
    BY <1>3, <2>1, FillKeeps DEF Kept
  <2>3. \A o \in known : orders'[o].quantity = orders[o].quantity
    BY <1>1, <1>2, <1>6, <2>2 DEF TypeInv, TypeOK
  <2>4. run' \in Run /\ RunInv' /\ run'.child = NoOrder
    BY <1>1, <1>4, <1>6, <2>3, NextSliceRun
  <2>5. ~LoadAnywhere => f \notin history
    BY <1>2 DEF EngineInv, BookInv, Booked
  <2>6. processed' \subseteq EventId
    BY <1>2, <1>6
  <2> HIDE DEF r
  <2>7. QED
    BY <1>2, <1>3, <1>4, <1>5, <1>6, <2>1, <2>4, <2>5, <2>6, FillMoves
<1>7. CASE /\ orders' = [orders EXCEPT ![c] = r]
           /\ processed' = AckRecorded(c)
           /\ UNCHANGED <<ledger, history>>
           /\ Abort
  <2>1. run' = Idle /\ state' \in ExecutionState
    BY <1>5, <1>7 DEF Abort
  <2>2. run' \in Run /\ run'.child = NoOrder /\ RunInv'
    BY <2>1, IdleFacts, RunEnds
  <2> HIDE DEF r
  <2>3. QED
    BY <1>2, <1>3, <1>4, <1>5, <1>7, <2>1, <2>2, OneOrderMoves
<1>8. QED
  BY <1>6, <1>7 DEF VenueFill

-----------------------------------------------------------------------------
(* Events, halts, kills and clients.                                       *)

LEMMA KeptSelf == ASSUME NEW r PROVE Kept(r, r)
BY DEF Kept

\* An event that moves an order without filling it.
LEMMA EventMoves ==
    ASSUME EngineInv, NEW o \in known, NEW s \in Order, Kept(orders[o], s), NEW e \in FeedEvent,
           orders' = [orders EXCEPT ![o] = s], ledger' = ledger,
           UNCHANGED <<known, byKey, kill, parentOf, saved>>,
           UNCHANGED <<halted, swept, filledQty, state, run>>,
           Record(e) \/ UNCHANGED processed,
           engineEvents' = IF e \in processed' THEN engineEvents \cup {e} ELSE engineEvents,
           history' = history \cup (ledger' \ ledger)
    PROVE  EngineInv'
<1>1. history' = history
  OBVIOUS
<1>2. e \in EventId
  BY DEF FeedEvent
<1>3. processed' \subseteq EventId
  BY <1>2, RecordType DEF EngineInv, TypeInv, TypeOK
<1>4. /\ engineEvents \subseteq engineEvents' /\ engineEvents' \subseteq FeedEvent
      /\ run' \in Run /\ state' \in ExecutionState
  BY DEF EngineInv, TypeInv, EngineVarsOK
<1>5. QED
  BY <1>1, <1>3, <1>4, OneOrderMoves

LEMMA ApplyEventStep ==
    ASSUME EngineInv, NEW o \in OrderId, NEW q \in 1 .. MaxQty, NEW e \in FeedEvent,
           ApplyEvent(o, q, e)
    PROVE  EngineInv'
<1>1. /\ e \notin engineEvents /\ o \in known
      /\ UNCHANGED <<state, halted, filledQty, parentOf, run, saved, swept>>
  BY DEF ApplyEvent
<1>2. TypeInv /\ RunInv /\ orders[o] \in Order
  BY DEF EngineInv, TypeInv, TypeOK
<1>3. CASE engineEvents' = engineEvents \cup {e} /\ UNCHANGED <<book, history>>
  <2>1. UNCHANGED <<known, orders, byKey, processed, ledger, kill>>
    BY <1>3 DEF book
  <2>2. TypeInv'
    BY <1>1, <1>2, <1>3, <2>1 DEF TypeInv, TypeOK, EngineVarsOK
  <2>3. RunInv'
    BY <1>1, <1>2, <2>1, RunGoesOn
  <2>4. BookInv => BookInv'
    BY <1>1, <1>2, <1>3, <2>1, BooksStay
  <2>5. QED
    BY <2>2, <2>3, <2>4 DEF EngineInv
<1>4. CASE /\ ProcessEvent(o, q, e)
           /\ engineEvents' = IF e \in processed' THEN engineEvents \cup {e} ELSE engineEvents
           /\ history' = history \cup (ledger' \ ledger)
  <2>1. "ACKNOWLEDGED" \in OrderState
    BY DEF OrderState
  <2>2. CASE Acknowledge(o, e)
    <3>1. /\ orders' = [orders EXCEPT ![o] = Moved(orders[o], "ACKNOWLEDGED")]
          /\ UNCHANGED <<known, byKey, ledger, kill>> /\ Record(e)
      BY <2>2 DEF Acknowledge
    <3>2. /\ Moved(orders[o], "ACKNOWLEDGED") \in Order
          /\ Kept(orders[o], Moved(orders[o], "ACKNOWLEDGED"))
      BY <1>2, <2>1, MovedEffect
    <3>3. QED
      BY <1>1, <1>4, <3>1, <3>2, EventMoves
  <2>3. CASE Cancel(o, e, TRUE)
    <3>1. /\ orders' = [orders EXCEPT ![o] = AfterCancel(orders[o], TRUE)]
          /\ UNCHANGED <<known, byKey, ledger, kill>> /\ Record(e)
      BY <2>3 DEF Cancel
    <3>2. AfterCancel(orders[o], TRUE) \in Order /\ Kept(orders[o], AfterCancel(orders[o], TRUE))
      BY <1>2, CancelKeeps
    <3>3. QED
      BY <1>1, <1>4, <3>1, <3>2, EventMoves
  <2>4. CASE RejectEvent(o, e)
    <3>1. /\ orders' = [orders EXCEPT ![o] = MarkRejected(orders[o])]
          /\ UNCHANGED <<known, byKey, ledger, kill>>
          /\ Record(e) \/ UNCHANGED processed
      BY <2>4 DEF RejectEvent
    <3>2. MarkRejected(orders[o]) \in Order /\ Kept(orders[o], MarkRejected(orders[o]))
      BY <1>2, MarkEffect
    <3>3. QED
      BY <1>1, <1>4, <3>1, <3>2, EventMoves
  <2>5. CASE ApplyFill(o, q, e)
    <3> DEFINE f == [event |-> e, order |-> o, qty |-> q]
    <3>1. /\ orders' = [orders EXCEPT ![o] = WithFill(orders[o], q)]
          /\ ledger' = ledger \cup {f} /\ processed' = processed \cup {e}
          /\ UNCHANGED <<known, byKey, kill>>
      BY <2>5 DEF ApplyFill
    <3>2. f \notin ledger
      BY <2>5 DEF ApplyFill, Seen
    <3>3. history' = history \cup {f}
      BY <1>4, <3>1, <3>2
    <3>4. engineEvents' = engineEvents \cup {e}
      BY <1>4, <3>1
    <3>5. e \in EventId /\ q \in Nat \ {0}
      BY BoundAssumption DEF FeedEvent
    <3>6. ~LoadAnywhere => f \notin history
      BY <1>1 DEF EngineInv, BookInv, Booked
    <3>7. processed' \subseteq EventId /\ engineEvents' \subseteq FeedEvent /\ run' \in Run
      BY <1>1, <1>2, <3>1, <3>4, <3>5 DEF TypeInv, TypeOK, EngineVarsOK
    <3>8. QED
      BY <1>1, <1>2, <3>1, <3>3, <3>4, <3>5, <3>6, <3>7, KeptSelf, FillMoves
  <2>6. QED
    BY <1>4, <2>2, <2>3, <2>4, <2>5 DEF ProcessEvent
<1>5. QED
  BY <1>3, <1>4 DEF ApplyEvent

\* A halt may cancel many orders; it books nothing.
LEMMA HaltStep ==
    ASSUME EngineInv, NEW cancelOpen \in BOOLEAN, Halt(cancelOpen) PROVE EngineInv'
<1>1. /\ UNCHANGED <<known, byKey, processed, ledger, engineEvents, filledQty>>
      /\ UNCHANGED <<parentOf, run, saved, history>>
      /\ kill' = kill \cup {Global} /\ Global \in KillScope
      /\ halted' = TRUE /\ state' = "HALTED" /\ swept' \in BOOLEAN
  BY DEF Halt, EngineInv, TypeInv, EngineVarsOK
<1>2. TypeInv /\ RunInv /\ known \subseteq OrderId
  BY DEF EngineInv, TypeInv, TypeOK
<1> DEFINE moved(o) == IF cancelOpen /\ o \in known /\ orders[o].state \notin Terminal \cup {"CREATED"}
                       THEN AfterCancel(orders[o], TRUE) ELSE orders[o]
<1>3. orders' = [o \in OrderId |-> moved(o)]
  BY DEF Halt
<1>4. ASSUME NEW o \in OrderId
      PROVE  moved(o) \in Order /\ Kept(orders[o], moved(o))
  <2>1. orders[o] \in Order
    BY <1>2 DEF TypeInv, TypeOK
  <2>2. QED
    BY <2>1, CancelKeeps, KeptSelf
<1> HIDE DEF moved
<1>5. \A o \in OrderId : /\ orders'[o].quantity = orders[o].quantity
                         /\ orders'[o].filled = orders[o].filled
  BY <1>3, <1>4 DEF Kept
<1>6. TypeInv'
  <2>1. orders' \in [OrderId -> Order]
    BY <1>3, <1>4
  <2>2. "HALTED" \in ExecutionState
    BY DEF ExecutionState
  <2>3. QED
    BY <1>1, <1>2, <2>1, <2>2 DEF TypeInv, TypeOK, EngineVarsOK
<1>7. RunInv'
  BY <1>1, <1>2, <1>5, RunGoesOn
<1>8. BookInv => BookInv'
  BY <1>1, <1>2, <1>5, BooksStay
<1>9. QED
  BY <1>6, <1>7, <1>8 DEF EngineInv

LEMMA EngineKillStep ==
    ASSUME EngineInv, NEW s \in KillScope, Kill(s) \/ Clear(s) PROVE EngineInv'
<1>1. /\ UNCHANGED <<known, orders, byKey, processed, ledger>>
      /\ UNCHANGED <<parentOf, history, saved, engineEvents>>
      /\ UNCHANGED <<filledQty, run, swept>>
      /\ kill' \subseteq KillScope /\ state' \in ExecutionState /\ halted' \in BOOLEAN
  BY DEF Kill, Clear, EngageKill, ClearKill, ExecutionState, EngineInv, TypeInv, TypeOK,
         EngineVarsOK
<1>2. TypeInv /\ RunInv /\ filledQty \in [Parent -> Nat] /\ run \in Run /\ swept \in BOOLEAN
  BY DEF EngineInv, TypeInv, EngineVarsOK
<1>3. RunInv'
  BY <1>1, <1>2, RunGoesOn
<1>4. QED
  BY <1>1, <1>2, <1>3, OrdersStay

LEMMA ClientStep ==
    ASSUME EngineInv, NEW o \in OrderId, NEW q \in 0 .. MaxQty, NEW w \in Owner,
           NEW k \in ClientKey, ClientOrder(o, q, w, k)
    PROVE  EngineInv'
<1> DEFINE r == NewOrder(q, w, k, q, NoOrder)
<1>1. /\ o \notin known /\ known' = known \cup {o} /\ orders' = [orders EXCEPT ![o] = r]
      /\ byKey' = [byKey EXCEPT ![k] = o]
      /\ UNCHANGED <<processed, ledger, kill, state, halted, engineEvents, filledQty>>
      /\ UNCHANGED <<parentOf, run, saved, history, swept>>
  BY DEF ClientOrder, CreateOrder
<1>2. r \in Order /\ r.filled = 0
  <2>1. r \in Order
    BY NewOrderType
  <2>2. QED
    BY <2>1 DEF NewOrder
<1> HIDE DEF r
<1>3. TypeInv /\ RunInv /\ known \subseteq OrderId
  BY DEF EngineInv, TypeInv, TypeOK
<1>4. /\ \A p \in known : orders'[p] = orders[p]
      /\ \A p \in known' \ known : orders'[p].filled = 0
  BY <1>1, <1>2, <1>3 DEF TypeInv, TypeOK
<1>5. TypeInv'
  BY <1>1, <1>2, <1>3 DEF TypeInv, TypeOK, EngineVarsOK
<1>6. RunInv'
  BY <1>1, <1>3, <1>4, RunGoesOn
<1>7. BookInv => BookInv'
  BY <1>1, <1>3, <1>4, BooksStay
<1>8. QED
  BY <1>5, <1>6, <1>7 DEF EngineInv

-----------------------------------------------------------------------------
(* save, a new process, load.                                              *)

LEMMA BlankType == Blank \in Order /\ Blank.filled = 0
<1>1. (CHOOSE w \in Owner : TRUE) \in Owner
  BY ScopeAssumption
<1>2. 0 \in 0 .. MaxQty
  BY BoundAssumption
<1>3. Blank \in Order
  BY <1>1, <1>2, NewOrderType DEF Blank
<1>4. QED
  BY <1>3 DEF Blank, NewOrder

LEMMA SaveStep == ASSUME EngineInv, Save PROVE EngineInv'
<1>1. /\ saved' = Snapshot
      /\ UNCHANGED <<known, orders, byKey, processed, ledger, kill>>
      /\ UNCHANGED <<state, halted, engineEvents, filledQty, parentOf, run, history, swept>>
  BY DEF Save, book
<1>2. TypeInv /\ RunInv /\ known \subseteq OrderId
  BY DEF EngineInv, TypeInv, TypeOK
<1>3. /\ Snapshot.known = known /\ Snapshot.orders = orders /\ Snapshot.history = history
      /\ Snapshot.events = engineEvents
  BY DEF Snapshot
<1>4. Snapshot \in SavedFile
  BY <1>2 DEF Snapshot, SavedFile, TypeInv, TypeOK, EngineVarsOK, Fill
<1>5. TypeInv'
  BY <1>1, <1>2, <1>4 DEF TypeInv, TypeOK, EngineVarsOK
<1>6. RunInv'
  BY <1>1, <1>2, RunGoesOn
<1>7. ASSUME BookInv
      PROVE  BookInv'
  <2>1. Booked(history, known, engineEvents, NoOrder)
    BY <1>2, <1>7, NoneAssumption DEF BookInv, Booked
  <2>2. \A o \in known : orders[o].filled = FilledIn(history, o)
    BY <1>7 DEF BookInv, FillsCountOnce
  <2>3. QED
    BY <1>1, <1>3, <1>7, <2>1, <2>2 DEF BookInv, FillsCountOnce
<1>8. QED
  BY <1>5, <1>6, <1>7 DEF EngineInv

\* Nothing is in memory of a new engine, so nothing is owed.
LEMMA EmptyBooks ==
    ASSUME known' = {}, history' = {}, UNCHANGED saved, NEW child, run'.child = child,
           saved # NoSave =>
               /\ Booked(saved.history, saved.known, saved.events, NoOrder)
               /\ \A o \in saved.known : saved.orders[o].filled = FilledIn(saved.history, o)
    PROVE  BookInv'
<1>1. IsFiniteSet({})
  BY FS_EmptySet
<1>2. QED
  BY <1>1 DEF BookInv, Booked, FillsCountOnce

LEMMA RestartStep == ASSUME EngineInv, Restart PROVE EngineInv'
<1>1. /\ known' = {} /\ orders' = [o \in OrderId |-> Blank]
      /\ byKey' = [k \in ClientKey |-> NoOrder]
      /\ processed' = {} /\ ledger' = {} /\ kill' = {}
      /\ state' = "IDLE" /\ halted' = FALSE /\ engineEvents' = {}
      /\ filledQty' = [p \in Parent |-> 0] /\ parentOf' = [o \in OrderId |-> NoParent]
      /\ run' = Idle /\ history' = {} /\ swept' = FALSE /\ saved' = saved
  BY DEF Restart
<1>2. TypeInv'
  <2>1. "IDLE" \in ExecutionState
    BY DEF ExecutionState
  <2>2. saved # NoSave => saved \in SavedFile
    BY DEF EngineInv, TypeInv, EngineVarsOK
  <2>3. TypeOK'
    BY <1>1, BlankType DEF TypeOK
  <2>4. EngineVarsOK'
    BY <1>1, <2>1, <2>2, IdleFacts DEF EngineVarsOK
  <2>5. QED
    BY <2>3, <2>4 DEF TypeInv
<1>3. RunInv'
  BY <1>1, RunEnds
<1>4. BookInv => BookInv'
  BY <1>1, EmptyBooks DEF BookInv
<1>5. QED
  BY <1>2, <1>3, <1>4 DEF EngineInv

LEMMA LoadStep == ASSUME EngineInv, Load PROVE EngineInv'
<1>1. /\ run = Idle /\ saved # NoSave /\ (known = {} \/ LoadAnywhere)
      /\ known' = known \cup saved.known
      /\ orders' = [o \in OrderId |-> IF o \in saved.known THEN saved.orders[o] ELSE orders[o]]
      /\ parentOf' =
            [o \in OrderId |-> IF o \in saved.known THEN saved.parentOf[o] ELSE parentOf[o]]
      /\ kill' = saved.kill /\ state' = saved.state /\ halted' = saved.halted
      /\ engineEvents' = saved.events
      /\ history' = saved.history \cup {f \in history : f.order \notin saved.known}
      /\ swept' = (saved.swept /\ known \subseteq saved.known)
      /\ UNCHANGED <<byKey, processed, ledger, filledQty, run, saved>>
  BY DEF Load
<1>2. TypeInv /\ saved \in SavedFile
  BY <1>1 DEF EngineInv, TypeInv, EngineVarsOK
<1>3. TypeInv'
  <2>1. TypeOK'
    BY <1>1, <1>2 DEF TypeInv, TypeOK, SavedFile
  <2>2. EngineVarsOK'
    BY <1>1, <1>2 DEF TypeInv, EngineVarsOK, SavedFile
  <2>3. QED
    BY <2>1, <2>2 DEF TypeInv
<1>4. RunInv'
  BY <1>1, RunEnds
<1>5. ASSUME ~LoadAnywhere
      PROVE  BookInv'
  <2>1. BookInv /\ known = {}
    BY <1>1, <1>5 DEF EngineInv
  <2>2. history = {}
    BY <2>1 DEF BookInv, Booked
  <2>3. history' = saved.history /\ known' = saved.known /\ engineEvents' = saved.events
    BY <1>1, <2>1, <2>2
  <2>4. run'.child = NoOrder
    BY <1>1, IdleFacts
  <2>5. /\ Booked(saved.history, saved.known, saved.events, NoOrder)
        /\ \A o \in saved.known : saved.orders[o].filled = FilledIn(saved.history, o)
    BY <1>1, <2>1 DEF BookInv
  <2>6. saved.known \subseteq OrderId
    BY <1>2 DEF SavedFile
  <2>7. \A o \in saved.known : orders'[o] = saved.orders[o]
    BY <1>1, <2>6
  <2>8. QED
    BY <1>1, <2>3, <2>4, <2>5, <2>7 DEF BookInv, FillsCountOnce
<1>6. QED
  BY <1>3, <1>4, <1>5 DEF EngineInv

-----------------------------------------------------------------------------
(* Every step.                                                             *)

LEMMA InitEngine == EngineInit => EngineInv
<1> SUFFICES ASSUME EngineInit PROVE EngineInv
  OBVIOUS
<1>1. /\ known = {} /\ orders = [o \in OrderId |-> Blank] /\ byKey = [k \in ClientKey |-> NoOrder]
      /\ processed = {} /\ ledger = {} /\ kill = {} /\ state = "IDLE" /\ halted = FALSE
      /\ engineEvents = {} /\ filledQty = [p \in Parent |-> 0]
      /\ parentOf = [o \in OrderId |-> NoParent] /\ run = Idle /\ saved = NoSave
      /\ history = {} /\ swept = FALSE
  BY DEF EngineInit, Init
<1>2. TypeInv
  <2>1. "IDLE" \in ExecutionState
    BY DEF ExecutionState
  <2>2. TypeOK
    BY <1>1, BlankType DEF TypeOK
  <2>3. EngineVarsOK
    BY <1>1, <2>1, IdleFacts DEF EngineVarsOK
  <2>4. QED
    BY <2>2, <2>3 DEF TypeInv
<1>3. IsFiniteSet({})
  BY FS_EmptySet
<1>4. RunInv
  BY <1>1, <1>3, IdleFacts DEF RunInv
<1>5. BookInv
  BY <1>1, <1>3 DEF BookInv, Booked, FillsCountOnce
<1>6. QED
  BY <1>2, <1>4, <1>5 DEF EngineInv

LEMMA StepKeepsEngine == EngineInv /\ [EngineNext]_engineVars => EngineInv'
<1> SUFFICES ASSUME EngineInv, [EngineNext]_engineVars PROVE EngineInv'
  OBVIOUS
<1>1. CASE UNCHANGED engineVars
  BY <1>1 DEF engineVars, book, EngineInv, TypeInv, TypeOK, EngineVarsOK, RunInv, Children,
              Quantities, BookInv, FillsCountOnce
<1>2. CASE ExecuteStep
  <2>1. CASE SliceBlocked \/ SliceEmpty \/ VenueRaises \/ Finish
    BY <2>1, PlainStep
  <2>2. CASE \E c \in OrderId :
                \/ SliceRefused(c) \/ SliceBroken(c) \/ SliceUnrouted(c)
                \/ \E v \in Venue : SliceSubmitted(c, v) \/ SliceLeft(c, v)
    BY <2>2, SliceSteps
  <2>3. CASE VenueWithoutFill
    BY <2>3, AnswerStep
  <2>4. CASE \E q \in 0 .. MaxQty : VenueFill(q)
    BY <2>4, VenueFillStep
  <2>5. QED
    BY <1>2, <2>1, <2>2, <2>3, <2>4 DEF ExecuteStep
<1>3. CASE \E p \in Parent, w \in Owner, plan \in Plans : Begin(p, w, plan)
  BY <1>3, BeginStep
<1>4. CASE \E w \in Owner : BeginRefused(w)
  BY <1>4, PlainStep
<1>5. CASE \E o \in OrderId, q \in 1 .. MaxQty, e \in FeedEvent : ApplyEvent(o, q, e)
  BY <1>5, ApplyEventStep
<1>6. CASE \E cancelOpen \in BOOLEAN : Halt(cancelOpen)
  BY <1>6, HaltStep
<1>7. CASE \E s \in KillScope : Kill(s) \/ Clear(s)
  BY <1>7, EngineKillStep
<1>8. CASE \E o \in OrderId, q \in 0 .. MaxQty, w \in Owner, k \in ClientKey :
              ClientOrder(o, q, w, k)
  BY <1>8, ClientStep
<1>9. CASE Save \/ Restart \/ Load
  BY <1>9, SaveStep, RestartStep, LoadStep
<1>10. QED
  BY <1>1, <1>2, <1>3, <1>4, <1>5, <1>6, <1>7, <1>8, <1>9 DEF EngineNext

LEMMA EngineInvariant == EngineSpec => []EngineInv
  BY InitEngine, StepKeepsEngine, PTL DEF EngineSpec

\* The engine's variables, and the file it saved last, hold what the class holds.
THEOREM EngineTypes == EngineSpec => []EngineTypeOK
<1>1. EngineInv => EngineTypeOK
  BY DEF EngineInv, TypeInv, EngineVarsOK, SavedFile, EngineTypeOK, Fill
<1>2. QED
  BY <1>1, EngineInvariant, PTL

\* The children of a call of execute, however many and however they end, stay together
\* within the residual the call was planned for.
THEOREM RunsStayWithinResidual == EngineSpec => []RunWithinResidual
<1>1. EngineInv => RunWithinResidual
  <2>1. SUFFICES ASSUME TypeInv, RunInv, run.parent # NoParent
                 PROVE  SumFunctionOnSet(Quantities, Children) <= run.budget
    BY DEF EngineInv, RunWithinResidual, Quantities, Children
  <2>2. SumFunctionOnSet(Quantities, Children) \in Nat /\ SumFunction(run.plan) \in Nat
        /\ run.budget \in Nat
    BY <2>1, ChildrenFacts DEF RunInv, TypeInv, EngineVarsOK, Run
  <2>3. SumFunctionOnSet(Quantities, Children) + SumFunction(run.plan) <= run.budget
    BY <2>1 DEF RunInv
  <2>4. QED
    BY <2>2, <2>3
<1>2. QED
  BY <1>1, EngineInvariant, PTL

\* An engine that is only loaded when it is empty counts every fill once, through any
\* number of crashes and whatever the feed delivers again.
THEOREM FillsCountOnceAcrossRestarts == ~LoadAnywhere => (EngineSpec => []FillsCountOnce)
<1>1. SUFFICES ASSUME ~LoadAnywhere PROVE EngineSpec => []FillsCountOnce
  OBVIOUS
<1>2. EngineInv => FillsCountOnce
  BY <1>1 DEF EngineInv, BookInv
<1>3. QED
  BY <1>2, EngineInvariant, PTL
-----------------------------------------------------------------------------
(* Orders of the engine agree with their fills, and what is closed stays.  *)

\* A step of an order that agrees with its fills: it still does, and a closed one stays.
Lives(r, s) ==
    FillsFit(r) =>
        /\ FillsFit(s)
        /\ r.state \in Terminal =>
              s.state = r.state /\ s.filled = r.filled /\ s.quantity = r.quantity

OrdersLive ==
    /\ known \subseteq known'
    /\ \A o \in known : Lives(orders[o], orders'[o])
    /\ \A o \in known' \ known : FillsFit(orders'[o])

\* What is saved fits as well, so that it can be loaded.
FitInv ==
    /\ StateMatchesFills
    /\ saved # NoSave => \A o \in saved.known : FillsFit(saved.orders[o])

LEMMA LivesSelf == ASSUME NEW r PROVE Lives(r, r)
BY DEF Lives

\* A move that neither fills nor approves.
LEMMA MoveLives ==
    ASSUME NEW r \in Order, NEW s \in Order, Kept(r, s), TouchMove(r.state, s.state)
    PROVE  Lives(r, s)
<1>1. r.quantity \in Nat /\ r.filled \in Nat /\ s.quantity = r.quantity /\ s.filled = r.filled
  BY BoundAssumption DEF Order, Kept
<1>2. r.state \in OrderState
  BY DEF Order
<1>3. FillsFit(r) => FillsFit(s)
  BY <1>1, <1>2 DEF FillsFit, TouchMove, Terminal, Fillable, OrderState
<1>4. r.state \in Terminal => s.state = r.state
  BY DEF TouchMove, Terminal, Fillable
<1>5. QED
  BY <1>1, <1>3, <1>4 DEF Lives

\* A fill within the residual of a working order.
LEMMA FillLives ==
    ASSUME NEW r \in Order, NEW s, NEW q \in Nat \ {0}, r.state \in Fillable,
           AllowOverfill \/ r.filled + q <= r.quantity,
           Kept([r EXCEPT !.filled = r.filled + q], s),
           s.state = IF r.filled + q >= r.quantity THEN "FILLED" ELSE "PARTIALLY_FILLED"
    PROVE  Lives(r, s)
<1>1. r.quantity \in Nat /\ r.filled \in Nat
  BY BoundAssumption DEF Order
<1>2. s.quantity = r.quantity /\ s.filled = r.filled + q
  BY DEF Kept, Order
<1>3. FillsFit(r) => 0 < r.quantity
  BY <1>1 DEF FillsFit, Fillable
<1>4. FillsFit(r) => FillsFit(s)
  BY <1>1, <1>2, <1>3 DEF FillsFit
<1>5. r.state \notin Terminal
  BY DEF Fillable, Terminal
<1>6. QED
  BY <1>4, <1>5 DEF Lives

\* One order moves in the registry.
LEMMA OneLives ==
    ASSUME TypeOK, NEW o \in known, NEW s, Lives(orders[o], s),
           orders' = [orders EXCEPT ![o] = s], known' = known
    PROVE  OrdersLive
<1>1. \A p \in known : orders'[p] = IF p = o THEN s ELSE orders[p]
  BY DEF TypeOK
<1>2. \A p \in known : Lives(orders[p], orders'[p])
  BY <1>1, LivesSelf
<1>3. QED
  BY <1>2 DEF OrdersLive

LEMMA NoneMoves ==
    ASSUME UNCHANGED <<known, orders>>
    PROVE  OrdersLive
BY LivesSelf DEF OrdersLive

\* One order enters the registry.
LEMMA OneEnters ==
    ASSUME TypeOK, NEW o \in OrderId \ known, NEW s, FillsFit(s),
           orders' = [orders EXCEPT ![o] = s], known' = known \cup {o}
    PROVE  OrdersLive
<1>1. \A p \in known : orders'[p] = orders[p]
  BY DEF TypeOK
<1>2. orders'[o] = s
  BY DEF TypeOK
<1>3. \A p \in known : Lives(orders[p], orders'[p])
  BY <1>1, LivesSelf
<1>4. QED
  BY <1>2, <1>3 DEF OrdersLive

\* A child is made for at least one lot, and approved, submitted or closed at once.
LEMMA ChildFits ==
    ASSUME TypeInv, RunInv, AtSlice, SliceQty > 0,
           NEW s \in {Validated(Child, "reject"), Validated(Child, "error"), Approved,
                      MarkRejected(Approved), Moved(Approved, "SUBMITTED")}
    PROVE  FillsFit(s)
<1>1. SliceQty \in Nat /\ SliceQty \in 0 .. MaxQty /\ run.owner \in Owner
  BY SliceFits, BoundAssumption DEF TypeInv, EngineVarsOK, Run
<1>2. Child \in Order /\ Child.state = "CREATED" /\ Child.quantity = SliceQty
  <2>1. Child \in Order
    BY <1>1, NewOrderType DEF Child
  <2>2. QED
    BY <2>1 DEF Child, NewOrder
<1>3. Verdicts(Child) = {"ok", "reject", "error"}
  BY <1>1, <1>2 DEF Verdicts
<1>4. /\ Validated(Child, "reject").state \in {"REJECTED", "FAILED"}
      /\ Validated(Child, "error").state \in {"REJECTED", "FAILED"}
      /\ Approved \in Order /\ Approved.state = "APPROVED"
  BY <1>2, <1>3, ValidatedEffect DEF Approved
<1>5. /\ MarkRejected(Approved).state = "REJECTED"
      /\ Moved(Approved, "SUBMITTED").state = "SUBMITTED"
  BY <1>4, MarkEffect, MovedEffect DEF CanTransition, OrderState
<1>6. s.state \in {"REJECTED", "FAILED", "APPROVED", "SUBMITTED"}
  BY <1>4, <1>5
<1>7. s.quantity = SliceQty /\ s.filled = 0
  BY ChildKeeps
<1>8. QED
  BY <1>1, <1>6, <1>7 DEF FillsFit

LEMMA SliceLives ==
    ASSUME EngineInv, NEW c \in OrderId,
           \/ SliceRefused(c) \/ SliceBroken(c) \/ SliceUnrouted(c)
           \/ \E v \in Venue : SliceSubmitted(c, v) \/ SliceLeft(c, v)
    PROVE  OrdersLive /\ saved' = saved
<1>1. PICK s \in {Validated(Child, "reject"), Validated(Child, "error"), Approved,
                  MarkRejected(Approved), Moved(Approved, "SUBMITTED")} : MakeChild(c, s)
  BY DEF SliceRefused, SliceBroken, SliceUnrouted, SliceSubmitted, SliceLeft
<1>2. /\ AtSlice /\ SliceQty > 0 /\ c \notin known /\ known' = known \cup {c}
      /\ orders' = [orders EXCEPT ![c] = s] /\ saved' = saved
  BY <1>1 DEF MakeChild, FreshIds
<1>3. TypeInv /\ RunInv /\ TypeOK
  BY DEF EngineInv, TypeInv
<1>4. FillsFit(s)
  BY <1>2, <1>3, ChildFits
<1>5. QED
  BY <1>2, <1>3, <1>4, OneEnters

\* An acknowledgement moves a submitted child and nothing else.
LEMMA AckLives ==
    ASSUME NEW r \in Order
    PROVE  /\ Acked(r) \in Order /\ Kept(r, Acked(r))
           /\ TouchMove(r.state, Acked(r).state) /\ Lives(r, Acked(r))
<1>1. Acked(r) \in Order /\ Kept(r, Acked(r))
  BY AckKeeps
<1>2. Moved(r, "ACKNOWLEDGED").state =
          IF CanTransition(r.state, "ACKNOWLEDGED") THEN "ACKNOWLEDGED" ELSE r.state
  BY MovedEffect DEF OrderState
<1>3. TouchMove(r.state, Acked(r).state)
  BY <1>2 DEF Acked, TouchMove
<1>4. QED
  BY <1>1, <1>3, MoveLives

\* The venue's answer: what it fills fits what the child then is, whatever feeds and
\* halts did to the child while the venue had it.
LEMMA VenueLives ==
    ASSUME EngineInv, FitInv,
           VenueWithoutFill \/ VenueRaises \/ \E q \in 0 .. MaxQty : VenueFill(q)
    PROVE  OrdersLive /\ saved' = saved
<1> DEFINE c == run.child
           r == Acked(orders[c])
<1>1. TypeInv /\ RunInv /\ TypeOK /\ AtVenue /\ UNCHANGED <<known, saved>>
  BY DEF EngineInv, TypeInv, VenueWithoutFill, VenueRaises, VenueFill, VenueKeeps
<1>2. c \in known /\ orders[c] \in Order /\ FillsFit(orders[c])
  BY <1>1, AtVenueFacts DEF FitInv, StateMatchesFills
<1>3. r \in Order /\ Kept(orders[c], r) /\ Lives(orders[c], r)
  BY <1>2, AckLives
<1>4. CASE orders' = orders
  BY <1>1, <1>4, NoneMoves
<1>5. CASE orders' = [orders EXCEPT ![c] = r]
  BY <1>1, <1>2, <1>3, <1>5, OneLives
<1>6. ASSUME NEW q \in 0 .. MaxQty, CanFill(r, q), orders' = [orders EXCEPT ![c] = WithFill(r, q)]
      PROVE  OrdersLive
  <2> DEFINE s == WithFill(r, q)
  <2> HIDE DEF r
  <2>1. /\ q \in Nat \ {0} /\ r.state \in Fillable /\ r.filled \in Nat /\ r.quantity \in Nat
        /\ AllowOverfill \/ q <= Residual(r)
    BY <1>3, <1>6, BoundAssumption DEF CanFill, Order
  <2>2. AllowOverfill \/ r.filled + q <= r.quantity
    BY <2>1 DEF Residual
  <2>3. /\ Kept([r EXCEPT !.filled = r.filled + q], s)
        /\ s.state = IF r.filled + q >= r.quantity THEN "FILLED" ELSE "PARTIALLY_FILLED"
    BY <1>3, <2>1, WithFillEffect
  <2> HIDE DEF s
  <2>4. Lives(r, s)
    BY <1>3, <2>1, <2>2, <2>3, FillLives
  <2>5. orders[c].state \notin Terminal
    <3>1. orders[c].state \in Terminal => r.state = orders[c].state
      BY <1>2, <1>3 DEF Lives
    <3>2. QED
      BY <2>1, <3>1 DEF Fillable, Terminal
  <2>6. Lives(orders[c], s)
    BY <1>3, <2>4, <2>5 DEF Lives
  <2>7. QED
    BY <1>1, <1>2, <1>6, <2>6, OneLives DEF s
<1>7. \/ orders' = orders
      \/ orders' = [orders EXCEPT ![c] = r]
      \/ \E q \in 0 .. MaxQty : CanFill(r, q) /\ orders' = [orders EXCEPT ![c] = WithFill(r, q)]
  BY DEF VenueWithoutFill, VenueRaises, VenueFill
<1> HIDE DEF c, r
<1>8. QED
  BY <1>1, <1>4, <1>5, <1>6, <1>7

\* An event of a feed is a step of the order manager.
LEMMA EventLives ==
    ASSUME EngineInv, FitInv, NEW o \in OrderId, NEW q \in 1 .. MaxQty, NEW e \in FeedEvent,
           ApplyEvent(o, q, e)
    PROVE  OrdersLive /\ saved' = saved
<1>1. TypeOK /\ StateMatchesFills /\ known \subseteq OrderId
  BY DEF EngineInv, TypeInv, TypeOK, FitInv
<1>2. e \in EventId /\ q \in Nat \ {0} /\ saved' = saved
  BY BoundAssumption DEF FeedEvent, ApplyEvent
<1>3. ASSUME TouchStep(o)
      PROVE  OrdersLive
  <2>1. /\ o \in known /\ orders[o] \in Order /\ orders'[o] \in Order /\ known' = known
        /\ Kept(orders[o], orders'[o]) /\ \A p \in OrderId \ {o} : orders'[p] = orders[p]
    BY <1>1, <1>3 DEF TouchStep, Others, TypeOK
  <2>2. Lives(orders[o], orders'[o])
    <3>1. CASE TouchMove(orders[o].state, orders'[o].state)
      BY <2>1, <3>1, MoveLives
    <3>2. CASE /\ orders[o].state = "CREATED" /\ orders'[o].state = "APPROVED"
               /\ orders[o].quantity > 0
      BY <2>1, <3>2, BoundAssumption DEF Lives, FillsFit, Kept, Order, Terminal
    <3>3. QED
      BY <1>3, <3>1, <3>2 DEF TouchStep
  <2>3. \A p \in known : Lives(orders[p], orders'[p])
    BY <1>1, <2>1, <2>2, LivesSelf
  <2>4. QED
    BY <2>1, <2>3 DEF OrdersLive
<1>4. ASSUME FillStep(o, q, e)
      PROVE  OrdersLive
  <2>1. /\ o \in known /\ orders[o] \in Order /\ known' = known
        /\ \A p \in OrderId \ {o} : orders'[p] = orders[p]
    BY <1>1, <1>4 DEF FillStep, Others, TypeOK
  <2>2. Lives(orders[o], orders'[o])
    BY <1>2, <1>4, <2>1, FillLives DEF FillStep
  <2>3. \A p \in known : Lives(orders[p], orders'[p])
    BY <1>1, <2>1, <2>2, LivesSelf
  <2>4. QED
    BY <2>1, <2>3 DEF OrdersLive
<1>5. CASE ProcessEvent(o, q, e)
  <2>1. CASE Acknowledge(o, e)
    BY <1>1, <1>2, <1>3, <2>1, AcknowledgeTouches
  <2>2. CASE ApplyFill(o, q, e)
    BY <1>1, <1>2, <1>4, <2>2, FillEffect
  <2>3. CASE Cancel(o, e, TRUE)
    <3>1. orders[o].state \notin {"VALIDATING", "EXPIRED"}
      BY <1>1, <2>3 DEF Cancel, StateMatchesFills, FillsFit
    <3>2. QED
      BY <1>1, <1>2, <1>3, <2>3, <3>1, CancelTouches
  <2>4. CASE RejectEvent(o, e)
    BY <1>1, <1>2, <1>3, <2>4, RejectTouches
  <2>5. QED
    BY <1>5, <2>1, <2>2, <2>3, <2>4 DEF ProcessEvent
<1>6. CASE UNCHANGED book
  BY <1>2, <1>6, NoneMoves DEF book
<1>7. QED
  BY <1>2, <1>5, <1>6 DEF ApplyEvent

\* A halt cancels what is open and leaves what is closed.
LEMMA HaltLives ==
    ASSUME EngineInv, FitInv, NEW cancelOpen \in BOOLEAN, Halt(cancelOpen)
    PROVE  OrdersLive /\ saved' = saved
<1>1. known' = known /\ saved' = saved /\ known \subseteq OrderId
  BY DEF Halt, EngineInv, TypeInv, TypeOK
<1>2. ASSUME NEW o \in known
      PROVE  Lives(orders[o], orders'[o])
  <2> DEFINE r == orders[o]
             s == AfterCancel(r, TRUE)
  <2>1. r \in Order
    BY <1>1 DEF EngineInv, TypeInv, TypeOK
  <2>2. orders'[o] = IF cancelOpen /\ r.state \notin Terminal \cup {"CREATED"} THEN s ELSE r
    BY <1>1 DEF Halt
  <2>3. ASSUME r.state \notin Terminal
        PROVE  Lives(r, s)
    <3>1. IsOrder(r)
      BY <2>1 DEF Order, IsOrder
    <3>2. s.state = "CANCELLED" /\ s \in Order /\ Kept(r, s)
      BY <2>1, <2>3, <3>1, CancelCloses, CancelKeeps
    <3>3. QED
      BY <2>1, <2>3, <3>2, MoveLives DEF TouchMove
  <2> HIDE DEF r, s
  <2>4. QED
    BY <2>2, <2>3, LivesSelf DEF r
<1>3. QED
  BY <1>1, <1>2 DEF OrdersLive

LEMMA ClientLives ==
    ASSUME EngineInv, NEW o \in OrderId, NEW q \in 0 .. MaxQty, NEW w \in Owner,
           NEW k \in ClientKey, ClientOrder(o, q, w, k)
    PROVE  OrdersLive /\ saved' = saved
<1> DEFINE s == NewOrder(q, w, k, q, NoOrder)
<1>1. /\ TypeOK /\ o \notin known /\ known' = known \cup {o}
      /\ orders' = [orders EXCEPT ![o] = s] /\ saved' = saved
  BY DEF ClientOrder, CreateOrder, EngineInv, TypeInv
<1>2. FillsFit(s)
  BY BoundAssumption DEF NewOrder, FillsFit
<1> HIDE DEF s
<1>3. QED
  BY <1>1, <1>2, OneEnters

\* Every step but those of a new process lets the orders live.
LEMMA StepLives ==
    ASSUME EngineInv, FitInv, [EngineNext]_engineVars
    PROVE  \/ OrdersLive /\ (saved' = saved \/ Save)
           \/ Restart \/ Load
<1>1. CASE \/ UNCHANGED engineVars
           \/ SliceBlocked \/ SliceEmpty \/ Finish \/ Save
           \/ \E p \in Parent, w \in Owner, plan \in Plans : Begin(p, w, plan)
           \/ \E w \in Owner : BeginRefused(w)
           \/ \E s \in KillScope : Kill(s) \/ Clear(s)
  <2>1. UNCHANGED <<known, orders>> /\ (saved' = saved \/ Save)
    BY <1>1 DEF engineVars, book, SliceBlocked, SliceEmpty, Finish, Save, Begin, BeginRefused,
                Kill, Clear, EngageKill, ClearKill
  <2>2. QED
    BY <2>1, NoneMoves
<1>2. CASE \E c \in OrderId :
              \/ SliceRefused(c) \/ SliceBroken(c) \/ SliceUnrouted(c)
              \/ \E v \in Venue : SliceSubmitted(c, v) \/ SliceLeft(c, v)
  BY <1>2, SliceLives
<1>3. CASE VenueWithoutFill \/ VenueRaises \/ \E q \in 0 .. MaxQty : VenueFill(q)
  BY <1>3, VenueLives
<1>4. CASE \E o \in OrderId, q \in 1 .. MaxQty, e \in FeedEvent : ApplyEvent(o, q, e)
  BY <1>4, EventLives
<1>5. CASE \E cancelOpen \in BOOLEAN : Halt(cancelOpen)
  BY <1>5, HaltLives
<1>6. CASE \E o \in OrderId, q \in 0 .. MaxQty, w \in Owner, k \in ClientKey :
              ClientOrder(o, q, w, k)
  BY <1>6, ClientLives
<1>7. QED
  BY <1>1, <1>2, <1>3, <1>4, <1>5, <1>6 DEF EngineNext, ExecuteStep

LEMMA StepKeepsFit == EngineInv /\ FitInv /\ [EngineNext]_engineVars => FitInv'
<1> SUFFICES ASSUME EngineInv, FitInv, [EngineNext]_engineVars PROVE FitInv'
  OBVIOUS
<1>1. CASE OrdersLive /\ (saved' = saved \/ Save)
  <2>1. StateMatchesFills'
    BY <1>1 DEF OrdersLive, Lives, FitInv, StateMatchesFills
  <2>2. CASE saved' = saved
    BY <2>1, <2>2 DEF FitInv
  <2>3. CASE Save
    <3>1. saved'.known = known /\ saved'.orders = orders
      BY <2>3 DEF Save, Snapshot
    <3>2. QED
      BY <2>1, <3>1 DEF FitInv, StateMatchesFills
  <2>4. QED
    BY <1>1, <2>2, <2>3
<1>2. CASE Restart
  BY <1>2 DEF Restart, FitInv, StateMatchesFills
<1>3. CASE Load
  <2>1. /\ saved # NoSave /\ known' = known \cup saved.known /\ saved' = saved
        /\ orders' = [o \in OrderId |-> IF o \in saved.known THEN saved.orders[o] ELSE orders[o]]
    BY <1>3 DEF Load
  <2>2. known \subseteq OrderId /\ saved.known \subseteq OrderId
    BY <2>1 DEF EngineInv, TypeInv, TypeOK, EngineVarsOK, SavedFile
  <2>3. \A o \in known' : orders'[o] = IF o \in saved.known THEN saved.orders[o] ELSE orders[o]
    BY <2>1, <2>2
  <2>4. QED
    BY <2>1, <2>3 DEF FitInv, StateMatchesFills
<1>4. QED
  BY <1>1, <1>2, <1>3, StepLives

LEMMA FitInvariant == EngineSpec => [](EngineInv /\ FitInv)
<1>1. EngineInit => FitInv
  BY DEF EngineInit, Init, FitInv, StateMatchesFills
<1>2. QED
  BY <1>1, InitEngine, StepKeepsEngine, StepKeepsFit, PTL DEF EngineSpec

\* State and fills of every order agree however slices, venues, feeds and halts
\* interleave, and after any crash and any load, also over newer orders.
THEOREM EngineStatesMatchFills == EngineSpec => []StateMatchesFills
<1>1. FitInv => StateMatchesFills
  BY DEF FitInv
<1>2. QED
  BY <1>1, FitInvariant, PTL

\* An engine that is only loaded when it is empty never reopens a closed order, nor
\* fills it further: not for a venue whose child was cancelled before it answered,
\* not for a late or repeated event.
THEOREM EngineClosedStaysClosed == ~LoadAnywhere => (EngineSpec => ClosedStaysClosed)
<1>1. SUFFICES ASSUME ~LoadAnywhere PROVE EngineSpec => ClosedStaysClosed
  OBVIOUS
<1>2. EngineInv /\ FitInv /\ [EngineNext]_engineVars =>
          [\A o \in known \cap known' : orders[o].state \in Terminal =>
              /\ orders'[o].state = orders[o].state
              /\ orders'[o].filled = orders[o].filled
              /\ orders'[o].quantity = orders[o].quantity]_engineVars
  <2> SUFFICES ASSUME EngineInv, FitInv, [EngineNext]_engineVars,
                      NEW o \in known \cap known', orders[o].state \in Terminal
               PROVE  /\ orders'[o].state = orders[o].state
                      /\ orders'[o].filled = orders[o].filled
                      /\ orders'[o].quantity = orders[o].quantity
    OBVIOUS
  <2>1. OrdersLive \/ known' = {} \/ known = {}
    BY <1>1, StepLives DEF Restart, Load
  <2>2. FillsFit(orders[o])
    BY DEF FitInv, StateMatchesFills
  <2>3. QED
    BY <2>1, <2>2 DEF OrdersLive, Lives
<1>3. QED
  BY <1>2, FitInvariant, PTL DEF EngineSpec, ClosedStaysClosed

=============================================================================
