---------------------------- MODULE MCWorkQueue ----------------------------
(* Instances of WorkQueue for TLC: which kinds of job each run offers. *)
EXTENDS WorkQueue, TLC

CONSTANTS j1, j2, j3, j4

KindTimed == j1 :> "timed"
KindAll   == (j1 :> "task") @@ (j2 :> "legacy") @@ (j3 :> "garbage") @@ (j4 :> "timed")

(* Safety only: worker processes are interchangeable. *)
WorkerSymmetry == Permutations(Workers)

=============================================================================
