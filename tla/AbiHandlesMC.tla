----------------------------- MODULE AbiHandlesMC -----------------------------
(* Model-checking instance of AbiHandles. *)
EXTENDS AbiHandles, TLC

Symmetry == Permutations(Threads)
=============================================================================
