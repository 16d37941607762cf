CONSTANTS
  Absent = Absent
  a1 = a1
  t1 = t1
  AssetIds = {a1}
  TrackIds = {t1}
  ClipIds = {}
  Ranges = {}
  Threads = {gui, render}
  Devices = {d1}
  Commands <- BothCommands
  Batches <- ThreeBatches
  MaxEpoch = 1
  MaxLeases = 1
SPECIFICATION FairSpec
INVARIANTS
  TypeOK
  OrphansNeverAcquired
  DiffsChain
  CallbackSeesItsRevision
PROPERTIES
  CancelledIsNotSubmitted
  ImplementsFrameLeases
  RetiredIsRemoved
CHECK_DEADLOCK FALSE
