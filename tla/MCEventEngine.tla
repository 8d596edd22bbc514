---------------------------- MODULE MCEventEngine ----------------------------
(* A small instance of EventEngine for TLC. *)
EXTENDS EventEngine

Types == {"MARKET", "ORDER"}
Priorities == [y \in Types |-> IF y = "MARKET" THEN 10 ELSE 70]
JobTypes == [j \in Job |-> "ORDER"]
SomeJobs ==
    {[next |-> 0, interval |-> 1, end |-> Horizon, enabled |-> TRUE],
     [next |-> 0, interval |-> 2, end |-> Horizon, enabled |-> TRUE],
     [next |-> 1, interval |-> 1, end |-> 1, enabled |-> TRUE]}
SomeCalls ==
    [start : {0, 1}, end : {1, Horizon}, cap : {NoCap}, ticks : {FALSE}]
        \cup {[start |-> 0, end |-> Horizon, cap |-> 1, ticks |-> FALSE],
              [start |-> 0, end |-> Horizon, cap |-> NoCap, ticks |-> TRUE]}
=============================================================================
