------------------------------ MODULE OrderBook ------------------------------
(***************************************************************************)
(* What an order book owes its clients, without the order manager's states,*)
(* events or registries: an order is placed, approved, released to the     *)
(* market, executed by events that each count once, and closed; closed is  *)
(* for ever, and an amendment closes one order and places one other.       *)
(***************************************************************************)
EXTENDS Naturals

CONSTANTS OrderId, EventId, MaxQty

VARIABLES
    phase,  \* "absent", "new", "approved", "working" or "closed"
    size,   \* how much may execute
    done,   \* how much has executed
    used    \* the events that have executed something

vars == <<phase, size, done, used>>

Init ==
    /\ phase = [o \in OrderId |-> "absent"]
    /\ size = [o \in OrderId |-> 0]
    /\ done = [o \in OrderId |-> 0]
    /\ used = {}

Place(o, q) ==
    /\ phase[o] = "absent"
    /\ phase' = [phase EXCEPT ![o] = "new"]
    /\ size' = [size EXCEPT ![o] = q]
    /\ UNCHANGED <<done, used>>

Approve(o) ==
    /\ phase[o] = "new"
    /\ size[o] > 0
    /\ phase' = [phase EXCEPT ![o] = "approved"]
    /\ UNCHANGED <<size, done, used>>

Release(o) ==
    /\ phase[o] = "approved"
    /\ phase' = [phase EXCEPT ![o] = "working"]
    /\ UNCHANGED <<size, done, used>>

Execute(o, q, e) ==
    /\ phase[o] = "working"
    /\ e \notin used
    /\ q > 0
    /\ done[o] + q <= size[o]
    /\ done' = [done EXCEPT ![o] = @ + q]
    /\ used' = used \cup {e}
    /\ phase' = IF done[o] + q = size[o] THEN [phase EXCEPT ![o] = "closed"] ELSE phase
    /\ UNCHANGED size

Close(o) ==
    /\ phase[o] \in {"new", "approved", "working"}
    /\ phase' = [phase EXCEPT ![o] = "closed"]
    /\ UNCHANGED <<size, done, used>>

\* The successor asks for q more; its creator may have it approved or refused at once.
Amend(o, n, q, p) ==
    /\ phase[o] = "working"
    /\ phase[n] = "absent"
    /\ 0 < q /\ done[o] + q <= MaxQty
    /\ phase' = [phase EXCEPT ![o] = "closed", ![n] = p]
    /\ size' = [size EXCEPT ![n] = q]
    /\ UNCHANGED <<done, used>>

Next ==
    \/ \E o \in OrderId, q \in 0 .. MaxQty : Place(o, q)
    \/ \E o \in OrderId : Approve(o) \/ Release(o) \/ Close(o)
    \/ \E o \in OrderId, q \in 1 .. MaxQty, e \in EventId : Execute(o, q, e)
    \/ \E o, n \in OrderId, q \in 1 .. MaxQty, p \in {"new", "approved", "closed"} :
          Amend(o, n, q, p)

Spec == Init /\ [][Next]_vars
=============================================================================
