CONSTANTS
  Absent = Absent
  AssetIds = {a1}
  TrackIds = {t1, t2}
  ClipIds = {c1, c2}
  Ranges = {r1, r2}
  MaxRevisions = 6
SYMMETRY Symmetric
SPECIFICATION Spec
INVARIANTS
  TypeOK
  HashNamesProject
  ProjectsWellFormed
PROPERTY ImplementsUndoStack
