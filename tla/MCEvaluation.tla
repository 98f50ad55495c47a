---------------------------- MODULE MCEvaluation ----------------------------
(***************************************************************************)
(* Evaluation for TLC: a scenario that changes the interval, and one that  *)
(* does not.                                                               *)
(***************************************************************************)
EXTENDS Evaluation

MCScenarios ==
  << [rate |-> "slow", ticks |-> 4, change |-> 2, to |-> "fast"],
     [rate |-> "slow", ticks |-> 2, change |-> Never, to |-> "slow"] >>
=============================================================================
