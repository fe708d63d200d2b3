---------------------------- MODULE MCApprovals ----------------------------
(* TLC instances of Approvals. *)
EXTENDS Approvals, TLC

MCTasks == {1, 2}

Interchangeable == Permutations(Ids) \cup Permutations(Requests)
=============================================================================
