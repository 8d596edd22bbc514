-------------------------- MODULE MCBacktestRunner --------------------------
(* A small instance of BacktestRunner for TLC. *)
EXTENDS BacktestRunner

\* The second instrument misses a bar, and the first falls deep enough to end a run.
SomeFrames == {<<<<10, 6>>, <<4, 0>>>>, <<<<4, 6>>, <<9, 7>>>>}
FramesFromZero == {[t \in Time |-> f[t + 1]] : f \in SomeFrames}
SomePortfolios == {<<2, 0>>, <<-1, 1>>}
NoPriorities == [y \in {} |-> 0]
NoJobTypes == [j \in {} |-> "MARKET"]
=============================================================================
