-------------------------- MODULE MCExecutionEngine --------------------------
(* Small instances of ExecutionEngine for TLC. *)
EXTENDS ExecutionEngine, TLC

CONSTANT Feed   \* ids of the events that feeds deliver

Events == Feed \cup UNION {{<<"ack", o>>, <<"fill", o>>} : o \in OrderId}

Symmetry == Permutations(OrderId) \cup Permutations(Feed)
=============================================================================
