-------------------------- MODULE ContractCallsMC --------------------------
(***************************************************************************)
(* Model-checking instance of ContractCalls: i64 is four bits wide.        *)
(***************************************************************************)
EXTENDS ContractCalls

AllWords == 0..15

At(n, d) == [num |-> n, den |-> d]
Early == [start |-> At(0, 1), end |-> At(1, 2)]
Late == [start |-> At(-1, 2), end |-> At(3, 1)]

\* Every range: a damaged stream may hold any.
AllRanges == TimeRange

\* The zero range, a range, the same range not in lowest terms, an empty one,
\* one with a zero denominator and one whose start has no positive form.
SomeRawRanges ==
  {<<0, 0, 0, 0>>, <<0, 1, 1, 2>>, <<0, 3, 2, 4>>, <<1, 2, 1, 2>>,
   <<1, 0, 1, 2>>, <<-8, -1, 1, 2>>, <<0, -1, -1, -2>>}

SomeRaws ==
  [header : {"valid", "MalformedStruct"}, reserved : BOOLEAN, kind : 0..6,
   primary : {1}, secondary : 0..1, tertiary : 0..1,
   content : BOOLEAN, length : BOOLEAN, provider : BOOLEAN,
   timeline : SomeRawRanges, source : SomeRawRanges]

SomeTimes ==
  {At(-8, 1), At(-1, 2), At(0, 1), At(1, 7), At(1, 3), At(1, 2), At(2, 3),
   At(5, 6), At(3, 2), At(7, 1)}

AllRates == 0..15

SomeEdits ==
  {[op |-> "AddAsset", asset |-> 1], [op |-> "AddAsset", asset |-> 9],
   [op |-> "AddTrack", track |-> 1], [op |-> "AddTrack", track |-> 2],
   [op |-> "AddClip", clip |-> 1, asset |-> 1, track |-> 1, range |-> Late],
   [op |-> "AddClip", clip |-> 2, asset |-> 1, track |-> 1, range |-> Early],
   [op |-> "AddClip", clip |-> 2, asset |-> 9, track |-> 2, range |-> Late],
   [op |-> "MoveClip", clip |-> 1, range |-> Early],
   [op |-> "RemoveClip", clip |-> 1]}
=============================================================================
