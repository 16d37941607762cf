--------------------------- MODULE ProjectStoreMC ---------------------------
(* Model-checking instance of ProjectStore. *)
EXTENDS ProjectStore, TLC

CONSTANTS a1, t1

(* The project accepts each of them once: committing one again, under      *)
(* another request, is refused by a handle that knows of the first.        *)
TwoCommands == {[op |-> "AddAsset", asset |-> a1],
                [op |-> "AddTrack", track |-> t1]}

Symmetric == Permutations(Callers) \cup Permutations(RequestIds)
               \cup Permutations(Stores)
=============================================================================
