--------------------------- MODULE MCClosureWorker ---------------------------
(* Small instances of ClosureWorker for TLC. *)
EXTENDS MCSlotLedger, ClosureWorker

CONSTANTS w1, w2

WorkerSymmetry == Symmetry \cup Permutations(Runners)

WorkerView == <<WithoutKeys, task, handler, faults>>
=============================================================================
