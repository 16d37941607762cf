------------------------------ MODULE LeaseAbiMC ------------------------------
(* Model-checking instance of LeaseAbi. *)
EXTENDS LeaseAbi, TLC

CONSTANTS a1, t1

AddAsset == [op |-> "AddAsset", asset |-> a1]
AddTrack == [op |-> "AddTrack", track |-> t1]

BothCommands == {AddAsset, AddTrack}

\* The first two make a chain; the third is refused after either of them, at
\* its second command after the first of them.
ThreeBatches == {<<AddAsset>>, <<AddTrack>>, <<AddTrack, AddAsset>>}
=============================================================================
