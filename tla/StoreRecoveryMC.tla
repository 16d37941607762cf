--------------------------- MODULE StoreRecoveryMC ---------------------------
(* Model-checking instance of StoreRecovery. *)
EXTENDS StoreRecovery, TLC

Symmetry == Permutations(Stores)
=============================================================================
