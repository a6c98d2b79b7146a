---------------------------- MODULE MCCloudWorker ----------------------------
(* Module CloudWorker for TLC: the workers are alike.                      *)
EXTENDS CloudWorker

Workers == Permutations(Worker)

=============================================================================
