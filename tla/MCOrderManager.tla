--------------------------- MODULE MCOrderManager ---------------------------
(* Small instances of OrderManager, seen as an order book, for TLC. *)
EXTENDS BookRefinement, TLC

\* Order and event ids are interchangeable: nothing compares or orders them.
IdSymmetry == Permutations(OrderId) \cup Permutations(EventId)
=============================================================================
