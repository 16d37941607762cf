CONSTANTS
  Absent = Absent
  MaxInt = 7
  AssetIds <- AllWords
  TrackIds <- AllWords
  ClipIds <- AllWords
  Ranges <- AllRanges
  RawRanges <- SomeRawRanges
  Raws <- SomeRaws
  Rates <- AllRates
  Times <- SomeTimes
  MaxTimes = 3
  Edits <- SomeEdits
SPECIFICATION Spec
INVARIANTS
  ExactOrRefused
  AdaptedTicksSound
  DecodeInvertsEncode
  AcceptedIsWhole
  EveryFieldCounts
