--------------------------- MODULE MCStoreRegistry ---------------------------
(* TLC definitions for StoreRegistry: stores and requests are interchangeable. *)
EXTENDS StoreRegistry, TLC

Symmetry == Permutations(Store) \cup Permutations(Txn)
=============================================================================
