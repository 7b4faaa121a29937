CONSTANTS
  HeapWords = 5
  MaxLength = 1
  ChunkWords = 2
  MaxObjects = 1
  Only <- Classes
  Modes <- MCIndexed
  Bundle = TRUE
  MaxEdits = 0
  MaxRuns = 1
SPECIFICATION Spec
INVARIANTS
  TypeOK
  ScanFindsTheObjects
  WrittenIndexLoads
CHECK_DEADLOCK FALSE
