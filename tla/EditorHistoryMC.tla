--------------------------- MODULE EditorHistoryMC ---------------------------
(* Model-checking instance of EditorHistory. *)
EXTENDS EditorHistory, TLC

Symmetric == Permutations(ClipIds) \cup Permutations(TrackIds)
=============================================================================
