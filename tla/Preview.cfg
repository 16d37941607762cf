CONSTANTS
  Absent = Absent
  MaxContexts = 4
  MaxLeases = 6
  MaxInvalidations = 2
  FramesInFlight = 2
  Environment = {"resize", "repaint", "noCommandList"}
SPECIFICATION FairSpec
INVARIANTS
  TypeOK
  CachedContextIsCurrent
  CompletionReachesNode
  ObservedFrameHoldsTexture
  LeaseFollowsNode
PROPERTIES
  PolledLeaseRetires
  PublishedIsPreviewed
CHECK_DEADLOCK FALSE
