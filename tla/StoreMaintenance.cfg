CONSTANTS
  Absent = Absent
  a1 = a1
  t1 = t1
  AssetIds = {a1}
  TrackIds = {t1}
  ClipIds = {}
  Ranges = {}
  Stores = {s1}
  Callers = {c1, c2}
  RequestIds = {q1, q2}
  Commands <- TwoCommands
  Ops = {"Commit", "Snapshot", "Checkpoint", "Compact"}
  Faults = {"NoFault", "BeforeSnapshot", "AfterSnapshot", "BeforeCompaction", "DuringCompaction", "DuringCheckpoint"}
  Capacity = 1
  Interval = 1
SPECIFICATION FairSpec
INVARIANTS
  AlwaysRestorable
PROPERTIES
  FailedHandleIsReadOnly
  CallsReturn
