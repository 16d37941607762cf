CONSTANTS
  Absent = Absent
  Torn = Torn
  Stores = {s1, s2}
  Destinations = {d1}
  MaxRevision = 2
SPECIFICATION Spec
SYMMETRY Symmetry
INVARIANTS
  UndisturbedOpenSucceeds
  ArchivesSurvive
PROPERTIES
  ReplacedOnlyByRivals
CHECK_DEADLOCK FALSE
