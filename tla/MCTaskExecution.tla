-------------------------- MODULE MCTaskExecution --------------------------
(* Instances of TaskExecution for TLC.  Copies of a message are interchangeable. *)
EXTENDS TaskExecution, TLC

Symmetry == Permutations(Slot)
=============================================================================
