CONSTANTS
  MaxChunks = 2
  MaxEdits = 2
  EditKinds <- MCEditKinds
  Captures <- MCCaptures
  Heap = heap
  MaxObjects = 2
SPECIFICATION Spec
INVARIANTS
  TypeOK
  DriftIsRecent
  LinesNameWholeFiles
PROPERTIES
  ImplementsSnapshotReport
CHECK_DEADLOCK FALSE
