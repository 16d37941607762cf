CONSTANTS
  Absent = Absent
  a1 = a1
  t1 = t1
  AssetIds = {a1}
  TrackIds = {t1}
  ClipIds = {}
  Ranges = {}
  Stores = {s1, s2}
  Callers = {c1, c2}
  RequestIds = {q1, q2}
  Commands <- TwoCommands
  Ops = {"Commit", "Snapshot", "Compact"}
  Faults = {"NoFault"}
  Capacity = 1
  Interval = 2
SYMMETRY Symmetric
SPECIFICATION Spec
INVARIANTS
  ExactlyOnce
  MemoryFollowsLog
  SnapshotsReplay
PROPERTIES
  NewestSnapshotKept
