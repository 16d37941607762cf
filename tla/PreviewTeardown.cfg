CONSTANTS
  Absent = Absent
  MaxContexts = 1
  MaxLeases = 4
  MaxInvalidations = 1
  FramesInFlight = 2
  Environment = {}
SPECIFICATION FairSpec
PROPERTIES
  LeaseRetires
CHECK_DEADLOCK FALSE
