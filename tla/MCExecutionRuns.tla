-------------------------- MODULE MCExecutionRuns --------------------------
(* TLC instances of ExecutionRuns. *)
EXTENDS ExecutionRuns, TLC

RequestSymmetry == Permutations(Requests)
=============================================================================
