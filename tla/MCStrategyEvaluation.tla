------------------------ MODULE MCStrategyEvaluation ------------------------
(***************************************************************************)
(* Values for the model checker: two threads, and two cohorts that share   *)
(* a strategy, one of them with a second strategy.                         *)
(***************************************************************************)
EXTENDS StrategyEvaluation, TLC

CONSTANTS u, v

Threads     == {u, v}
Alike       == Permutations(Threads)
TwoRanges   == {1..2, 2..2}
Overlapping == {{1, 2}, {2}}
=============================================================================
