--------------------------- MODULE ExecutionEngine ---------------------------
(***************************************************************************)
(* The execution engine (iqrp/app/execution/engine.py) around its order    *)
(* manager: execute works a parent order slice by slice, venues answer,    *)
(* operators halt and kill, event feeds deliver, and the engine is saved,  *)
(* dies, and is loaded into a new process.                                 *)
(*                                                                         *)
(* execute is one call, but not one step: it hands control to the venue    *)
(* adapters its caller passed, and checks for a halt before every slice.   *)
(* So a slice is one step up to the venue and one from its answer on, and  *)
(* whatever an adapter may call happens in between; a crash may happen     *)
(* anywhere.  One parent per call of execute, one such call at a time.     *)
(***************************************************************************)
EXTENDS OrderManager, Sequences

CONSTANTS
    Parent,         \* parent orders that callers hold
    ParentQty,      \* the size every parent is approved for
    MaxSlices,      \* bound on the slices of one plan
    Persistent,     \* the engine is saved, restarted and loaded
    LoadAnywhere,   \* it is also loaded when it has orders already
    NoParent, NoSave

\* The event ids execute derives from the child and the venue's order id.
AckEvent(o)  == <<"ack", o>>
FillEvent(o) == <<"fill", o>>
FeedEvent == EventId \ UNION {{AckEvent(o), FillEvent(o)} : o \in OrderId}

ASSUME ParentAssumption ==
    /\ NoParent \notin Parent
    /\ ParentQty \in 1 .. MaxQty
    /\ MaxSlices \in Nat
    /\ Persistent \in BOOLEAN
    /\ LoadAnywhere \in BOOLEAN
ASSUME EventAssumption ==
    /\ \A o \in OrderId : AckEvent(o) \in EventId /\ FillEvent(o) \in EventId
    /\ \A o, p \in OrderId : AckEvent(o) # FillEvent(p)

VARIABLES
    state,          \* ExecutionEngine.state
    halted,         \* ExecutionEngine._halted
    engineEvents,   \* ExecutionEngine._processed_events
    filledQty,      \* ParentOrder.filled_qty
    parentOf,       \* Order.parent_id
    run,            \* the call of execute in progress
    saved,          \* the file that save wrote last
    history,        \* auxiliary: the fills that the orders in memory account for
    swept           \* auxiliary: halted with cancel_open since the last load

book == <<known, orders, byKey, processed, ledger, kill>>
engineVars == <<book, state, halted, engineEvents, filledQty, parentOf, run, saved, history, swept>>

ExecutionState ==
    {"IDLE", "PLANNING", "VALIDATING", "EXECUTING", "PARTIALLY_EXECUTED",
     "COMPLETING", "COMPLETED", "CANCELLED", "FAILED", "HALTED"}

\* plan: slices not yet sent; child: the order at the venue; made: child_orders.
Run ==
    [parent : Parent \cup {NoParent},
     owner  : Owner,
     plan   : Seq(0 .. MaxQty),
     child  : OrderId \cup {NoOrder},
     made   : SUBSET OrderId,
     anyFill : BOOLEAN,
     errors : BOOLEAN,
     budget : Nat]                  \* auxiliary: the residual when the run was planned

Idle == [parent |-> NoParent, owner |-> CHOOSE w \in Owner : TRUE, plan |-> <<>>,
         child |-> NoOrder, made |-> {}, anyFill |-> FALSE, errors |-> FALSE, budget |-> 0]

EngineInit ==
    /\ Init
    /\ state = "IDLE"
    /\ halted = FALSE
    /\ engineEvents = {}
    /\ filledQty = [p \in Parent |-> 0]
    /\ parentOf = [o \in OrderId |-> NoParent]
    /\ run = Idle
    /\ saved = NoSave
    /\ history = {}
    /\ swept = FALSE

ParentResidual(p) == IF ParentQty > filledQty[p] THEN ParentQty - filledQty[p] ELSE 0

\* Mutant: the halted flag is not consulted, only the state.
MayWorkByState(w) ==
    /\ state # "HALTED"
    /\ {Global, w} \cap kill = {}

\* _assert_not_halted, for the strategy that the call is for.
MayWork(w) ==
    /\ ~halted
    /\ state # "HALTED"
    /\ {Global, w} \cap kill = {}

\* Control is with the caller, or with a venue adapter that execute has called.
Outside == run.parent = NoParent \/ run.child # NoOrder

-----------------------------------------------------------------------------
(* execute                                                                 *)

\* Ids are drawn at random: no new order gets one that is or was saved.
SavedOrders == IF saved = NoSave THEN {} ELSE saved.known
FreshIds == OrderId \ (known \cup SavedOrders)

\* Mutant: every slice is clipped to the residual, their sum is not looked at.
PlanFitsBySlice(p, plan) == \A i \in DOMAIN plan : plan[i] <= ParentResidual(p)

\* The plan is checked as a whole, since the residual is not updated between slices.
PlanFits(p, plan) == SumFunction(plan) <= ParentResidual(p)

\* The state is IDLE, PLANNING, VALIDATING and EXECUTING in turn, forced where the
\* table has no such edge.  The algorithm's plan may be anything that fits.
Begin(p, w, plan) ==
    /\ run = Idle
    /\ MayWork(w)
    /\ PlanFits(p, plan)
    /\ Cardinality({i \in DOMAIN plan : plan[i] > 0}) <= Cardinality(FreshIds)  \* bound: no run starves for ids
    /\ state' = "EXECUTING"
    /\ run' = [Idle EXCEPT !.parent = p, !.owner = w, !.plan = plan, !.budget = ParentResidual(p)]
    /\ UNCHANGED <<book, halted, engineEvents, filledQty, parentOf, saved, history, swept>>

\* No run comes of the call: the risk engine, the validator or the residual check
\* refuses the parent, there is nothing to trade, or something is raised before the
\* part that catches exceptions.
BeginRefused(w) ==
    /\ run = Idle
    /\ MayWork(w)
    /\ state' \in {"FAILED", "COMPLETED", "PLANNING", "VALIDATING"}
    /\ UNCHANGED <<book, halted, engineEvents, filledQty, parentOf, run, saved, history, swept>>

\* What an exception inside execute leaves: the parent is not synchronised.
Abort ==
    /\ run' = Idle
    /\ state' = IF state \in {"HALTED", "FAILED"} THEN state ELSE "FAILED"

\* An exception of a kind that execute does not catch.
Escape == run' = Idle /\ UNCHANGED state

AtSlice == run.parent # NoParent /\ run.child = NoOrder /\ run.plan # <<>>
SliceQty ==
    LET r == ParentResidual(run.parent)
    IN  IF Head(run.plan) < r THEN Head(run.plan) ELSE r

SliceBlocked ==
    /\ AtSlice
    /\ ~MayWork(run.owner)
    /\ Abort
    /\ UNCHANGED <<book, halted, engineEvents, filledQty, parentOf, saved, history, swept>>

\* Mutant: the loop does not move on from an empty slice.
SliceEmptyAgain ==
    /\ AtSlice
    /\ MayWork(run.owner)
    /\ SliceQty = 0
    /\ UNCHANGED engineVars

SliceEmpty ==
    /\ AtSlice
    /\ MayWork(run.owner)
    /\ SliceQty = 0
    /\ run' = [run EXCEPT !.plan = Tail(run.plan)]
    /\ UNCHANGED <<book, state, halted, engineEvents, filledQty, parentOf, saved, history, swept>>

\* The part every slice shares: a fresh child is put into the registry directly.
MakeChild(c, r) ==
    /\ AtSlice
    /\ MayWork(run.owner)
    /\ SliceQty > 0
    /\ c \in FreshIds
    /\ known' = known \cup {c}
    /\ orders' = [orders EXCEPT ![c] = r]
    /\ parentOf' = [parentOf EXCEPT ![c] = run.parent]
    /\ UNCHANGED <<byKey, processed, ledger, kill, halted, engineEvents, filledQty, saved,
                   history, swept>>

Child == NewOrder(SliceQty, run.owner, NoKey, SliceQty, NoOrder)
Approved == Validated(Child, "ok")

\* validate_and_approve, or the risk check of submit, refuses the child and raises.
SliceRefused(c) ==
    /\ \/ MakeChild(c, Validated(Child, "reject"))
       \/ MakeChild(c, Validated(Child, "error"))
       \/ MakeChild(c, MarkRejected(Approved))
    /\ Abort

\* An adapter raises when the router asks for its state.
SliceBroken(c) ==
    /\ MakeChild(c, Approved)
    /\ Escape

\* The router finds no venue: the child stays approved, the loop goes on without it.
SliceUnrouted(c) ==
    /\ MakeChild(c, Approved)
    /\ run' = [run EXCEPT !.plan = Tail(run.plan), !.errors = TRUE]
    /\ UNCHANGED state

\* The router never picks a venue that is killed, so submit finds no kill switch.
SliceSubmitted(c, v) ==
    /\ v \notin kill
    /\ MakeChild(c, Moved(Approved, "SUBMITTED"))
    /\ run' = [run EXCEPT !.plan = Tail(run.plan), !.child = c]
    /\ UNCHANGED state

\* No adapter is called when the venue is not simulated: the child is left with the
\* venue, and what becomes of it arrives by a feed.
SliceLeft(c, v) ==
    /\ v \notin kill
    /\ MakeChild(c, Moved(Approved, "SUBMITTED"))
    /\ run' = [run EXCEPT !.plan = Tail(run.plan), !.made = @ \cup {c}]
    /\ UNCHANGED state

AtVenue == run.parent # NoParent /\ run.child # NoOrder

Acked(r) == IF r.state = "SUBMITTED" THEN Moved(r, "ACKNOWLEDGED") ELSE r
AckRecorded(o) ==
    IF orders[o].state = "SUBMITTED" THEN processed \cup {AckEvent(o)} ELSE processed
VenueKeeps == UNCHANGED <<known, byKey, kill, halted, engineEvents, filledQty, parentOf, saved, swept>>
\* Mutant: the child is dropped before it is recorded among the children of the call.
NextSliceAfterReset == run' = [run EXCEPT !.child = NoOrder, !.made = @ \cup {NoOrder}]

\* child_orders.append(child), after the venue has answered.
NextSlice == run' = [run EXCEPT !.child = NoOrder, !.made = @ \cup {run.child}]

\* ACK and REJECT are treated alike: the child is acknowledged.
VenueWithoutFill ==
    /\ AtVenue
    /\ orders' = [orders EXCEPT ![run.child] = Acked(@)]
    /\ processed' = AckRecorded(run.child)
    /\ NextSlice
    /\ UNCHANGED <<ledger, state, history>>
    /\ VenueKeeps

\* The adapter raises: whatever the venue did, the engine knows nothing of it.
VenueRaises ==
    /\ AtVenue
    /\ Abort \/ Escape
    /\ UNCHANGED <<orders, processed, ledger, history>>
    /\ VenueKeeps

\* Mutant: the fill is judged by its size alone, not by what became of the child.
CanFillInAnyState(r, q) == 0 < q /\ (AllowOverfill \/ q <= Residual(r))

\* FILL and PARTIAL_FILL; apply_fill raises for an order that was cancelled while the
\* venue had it, for a quantity that does not fit, and for a fill without a price.
CanFill(r, q) == r.state \in Fillable /\ 0 < q /\ (AllowOverfill \/ q <= Residual(r))
VenueFill(q) ==
    /\ AtVenue
    /\ q <= orders[run.child].quantity
    /\ LET c == run.child
           r == Acked(orders[c])
           f == [event |-> FillEvent(c), order |-> c, qty |-> q]
       IN  \/ /\ CanFill(r, q)
              /\ orders' = [orders EXCEPT ![c] = WithFill(r, q)]
              /\ processed' = AckRecorded(c) \cup {FillEvent(c)}
              /\ ledger' = ledger \cup {f}
              /\ history' = history \cup {f}
              /\ run' = [run EXCEPT !.child = NoOrder, !.made = @ \cup {c}, !.anyFill = TRUE]
              /\ UNCHANGED state
           \/ /\ orders' = [orders EXCEPT ![c] = r]
              /\ processed' = AckRecorded(c)
              /\ UNCHANGED <<ledger, history>>
              /\ Abort
    /\ VenueKeeps

\* ParentOrder.sync_fills_from_children sees the children of this call only.
SyncedQty == SumFunctionOnSet([o \in OrderId |-> orders[o].filled], run.made)

Finish ==
    /\ run.parent # NoParent /\ run.child = NoOrder /\ run.plan = <<>>
    /\ filledQty' = [filledQty EXCEPT ![run.parent] = SyncedQty]
    /\ state' = IF run.errors /\ ~run.anyFill THEN "FAILED"
                ELSE IF run.anyFill /\ SyncedQty < ParentQty THEN "PARTIALLY_EXECUTED"
                ELSE "COMPLETED"
    /\ run' = Idle
    /\ UNCHANGED <<book, halted, engineEvents, parentOf, saved, history, swept>>

-----------------------------------------------------------------------------
(* Events, halts and kills                                                 *)

\* apply_event skips the ids it has seen, then lets the order manager decide; it
\* keeps the id unless process_event raises.
ApplyEvent(o, q, e) ==
    /\ Outside
    /\ e \notin engineEvents
    /\ o \in known
    /\ \/ /\ IsDuplicateEvent(e)
          /\ engineEvents' = engineEvents \cup {e}
          /\ UNCHANGED <<book, history>>
       \/ /\ ProcessEvent(o, q, e)
          /\ engineEvents' = IF e \in processed' THEN engineEvents \cup {e} ELSE engineEvents
          /\ history' = history \cup (ledger' \ ledger)
    /\ UNCHANGED <<state, halted, filledQty, parentOf, run, saved, swept>>

\* halt with cancel_open cancels every open order but those still CREATED.
Halt(cancelOpen) ==
    /\ Outside
    /\ Global \in KillScope
    /\ halted' = TRUE
    /\ state' = "HALTED"
    /\ kill' = kill \cup {Global}
    /\ orders' = [o \in OrderId |->
                     IF cancelOpen /\ o \in known /\ orders[o].state \notin Terminal \cup {"CREATED"}
                     THEN AfterCancel(orders[o], TRUE) ELSE orders[o]]
    /\ swept' = (swept \/ cancelOpen)
    /\ UNCHANGED <<known, byKey, processed, ledger, engineEvents, filledQty, parentOf, run, saved,
                   history>>

\* kill: a global kill halts the engine too, without cancelling anything.
Kill(s) ==
    /\ Outside
    /\ EngageKill(s)
    /\ halted' = (halted \/ s = Global)
    /\ state' = IF s = Global THEN "HALTED" ELSE state
    /\ UNCHANGED <<engineEvents, filledQty, parentOf, run, saved, history, swept>>

Clear(s) ==
    /\ Outside
    /\ ClearKill(s)
    /\ UNCHANGED <<state, halted, engineEvents, filledQty, parentOf, run, saved, history, swept>>

\* A client places an order with the engine's order manager; OrderManager has the rest
\* of such an order's life, here only feeds, halts and restarts touch it again.
ClientOrder(o, q, w, k) ==
    /\ Outside
    /\ o \in FreshIds
    /\ Len(run.plan) < Cardinality(FreshIds)    \* bound: no run starves for ids
    /\ CreateOrder(o, q, w, k)
    /\ UNCHANGED <<state, halted, engineEvents, filledQty, parentOf, run, saved, history, swept>>

-----------------------------------------------------------------------------
(* save, a new process, load                                               *)

\* Mutant: the event ids the engine has consumed are not saved.
SnapshotWithoutEvents ==
    [known |-> known, orders |-> orders, parentOf |-> parentOf, kill |-> kill, state |-> state,
     halted |-> halted, events |-> {}, history |-> history, swept |-> swept]

Snapshot ==
    [known |-> known, orders |-> orders, parentOf |-> parentOf, kill |-> kill, state |-> state,
     halted |-> halted, events |-> engineEvents,
     history |-> history, swept |-> swept]          \* the last two are auxiliary

Save ==
    /\ Persistent
    /\ Outside
    /\ saved' = Snapshot
    /\ UNCHANGED <<book, state, halted, engineEvents, filledQty, parentOf, run, history, swept>>

\* A crash at any moment: a new engine, nothing of the old one but the file.
Restart ==
    /\ Persistent
    /\ known' = {}
    /\ orders' = [o \in OrderId |-> Blank]
    /\ byKey' = [k \in ClientKey |-> NoOrder]
    /\ processed' = {}
    /\ ledger' = {}
    /\ kill' = {}
    /\ state' = "IDLE"
    /\ halted' = FALSE
    /\ engineEvents' = {}
    /\ filledQty' = [p \in Parent |-> 0]
    /\ parentOf' = [o \in OrderId |-> NoParent]
    /\ run' = Idle
    /\ history' = {}
    /\ swept' = FALSE
    /\ UNCHANGED saved

\* load overwrites orders by id and keeps the others; what the order manager and the
\* fill manager remember of events is neither saved nor reset.
Load ==
    /\ run = Idle
    /\ saved # NoSave
    /\ known = {} \/ LoadAnywhere
    /\ known' = known \cup saved.known
    /\ orders' = [o \in OrderId |-> IF o \in saved.known THEN saved.orders[o] ELSE orders[o]]
    /\ parentOf' = [o \in OrderId |-> IF o \in saved.known THEN saved.parentOf[o] ELSE parentOf[o]]
    /\ kill' = saved.kill
    /\ state' = saved.state
    /\ halted' = saved.halted
    /\ engineEvents' = saved.events
    /\ history' = saved.history \cup {f \in history : f.order \notin saved.known}
    /\ swept' = (saved.swept /\ known \subseteq saved.known)
    /\ UNCHANGED <<byKey, processed, ledger, filledQty, run, saved>>

-----------------------------------------------------------------------------
Plans == UNION {[1 .. n -> 0 .. MaxQty] : n \in 0 .. MaxSlices}

\* Everything execute does once it has begun, in the order of its code.
ExecuteStep ==
    \/ SliceBlocked
    \/ SliceEmpty
    \/ \E c \in OrderId :
          \/ SliceRefused(c)
          \/ SliceBroken(c)
          \/ SliceUnrouted(c)
          \/ \E v \in Venue : SliceSubmitted(c, v) \/ SliceLeft(c, v)
    \/ VenueWithoutFill
    \/ VenueRaises
    \/ \E q \in 0 .. MaxQty : VenueFill(q)
    \/ Finish

EngineNext ==
    \/ \E p \in Parent, w \in Owner, plan \in Plans : Begin(p, w, plan)
    \/ \E w \in Owner : BeginRefused(w)
    \/ ExecuteStep
    \/ \E o \in OrderId, q \in 1 .. MaxQty, e \in FeedEvent : ApplyEvent(o, q, e)
    \/ \E cancelOpen \in BOOLEAN : Halt(cancelOpen)
    \/ \E s \in KillScope : Kill(s) \/ Clear(s)
    \/ \E o \in OrderId, q \in 0 .. MaxQty, w \in Owner, k \in ClientKey : ClientOrder(o, q, w, k)
    \/ Save
    \/ Restart
    \/ Load

EngineSpec == EngineInit /\ [][EngineNext]_engineVars

\* execute is a loop over a finite plan, and venue adapters return.
FairEngineSpec == EngineSpec /\ WF_engineVars(ExecuteStep)

-----------------------------------------------------------------------------
(* What the engine promises.                                               *)

\* The engine's own variables hold what the class holds.
EngineTypeOK ==
    /\ TypeOK
    /\ state \in ExecutionState
    /\ halted \in BOOLEAN
    /\ engineEvents \subseteq FeedEvent
    /\ filledQty \in [Parent -> Nat]
    /\ parentOf \in [OrderId -> Parent \cup {NoParent}]
    /\ run \in Run
    /\ saved # NoSave => saved.known \subseteq OrderId /\ saved.orders \in [OrderId -> Order]
    /\ history \subseteq [event : EventId, order : OrderId, qty : Nat \ {0}]
    /\ swept \in BOOLEAN

\* Once the engine was halted with cancel_open nothing is open any more, and nothing
\* gets to a venue until the engine is loaded: not the rest of a run in progress,
\* not a new one, whatever kill switches operators clear and whatever venues and
\* feeds still answer (halt, _assert_not_halted, the re-check before every slice).
SweptStaysQuiet ==
    swept => halted /\ \A o \in known : orders[o].state \in Terminal \cup {"CREATED"}

\* All children of one call together, open or not, stay within what was left of the
\* parent when the call planned them, although the residual that clips every slice
\* is the same for all (execute, RESIDUAL_EXCEEDED).
RunWithinResidual ==
    run.parent # NoParent =>
        SumFunctionOnSet([o \in OrderId |-> orders[o].quantity],
                         (run.made \cup {run.child}) \ {NoOrder}) <= run.budget

\* Every order in memory has filled exactly the events it accounts for, each once,
\* also when the engine died and was loaded and the feed delivers again what the
\* saved orders had filled already (apply_event, save, load).
FillsCountOnce == \A o \in known : orders[o].filled = FilledIn(history, o)

\* In one process a closed order stays as it closed, with what it filled: a venue that
\* answers after a halt has cancelled its child, and a feed that comes late, change
\* nothing of it (execute, apply_event, halt, apply_fill).
ClosedStaysClosed ==
    [][\A o \in known \cap known' : orders[o].state \in Terminal =>
          /\ orders'[o].state = orders[o].state
          /\ orders'[o].filled = orders[o].filled
          /\ orders'[o].quantity = orders[o].quantity]_engineVars

\* execute returns, whatever venues answer and operators do meanwhile.
ExecuteReturns == (run.parent # NoParent) ~> (run = Idle)

\* The children of a parent never fill more than the parent was approved for.
ParentNeverOverfilled ==
    \A p \in Parent :
        SumFunctionOnSet([o \in OrderId |-> orders[o].filled], {o \in known : parentOf[o] = p})
            <= ParentQty

\* No two orders carry the same client key, whatever was saved and loaded.
OneOrderPerKey ==
    \A o, p \in known : orders[o].key = orders[p].key /\ orders[o].key # NoKey => o = p

\* HALTED is left only as the execution state table allows (in one process).
HaltedLeavesByTable ==
    [][state = "HALTED" =>
          state' \in {"HALTED", "IDLE", "PLANNING", "CANCELLED", "FAILED"}]_engineVars

=============================================================================
