CONSTANTS
  Absent = Absent
  Threads = {gui, render}
  MaxHandle = 3
  MaxCore = 1
  MaxRefs = 2
  MaxRevision = 2
  MaxEpoch = 1
SPECIFICATION Spec
SYMMETRY Symmetry
INVARIANTS
  RefsMatchOwners
  LaterHandlesSeeLater
  NobodyDeadlocked
CHECK_DEADLOCK FALSE
