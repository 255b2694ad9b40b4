------------------------- MODULE MCStoreOnboarding -------------------------
(* Instances of StoreOnboarding for TLC. *)
EXTENDS StoreOnboarding, TLC

Symmetry == Permutations(Request) \cup Permutations(Job)
=============================================================================
