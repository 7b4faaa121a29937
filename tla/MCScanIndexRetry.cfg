CONSTANTS
  HeapWords = 4
  MaxLength = 0
  ChunkWords = 2
  MaxObjects = 2
  Only <- Classes
  Modes <- MCEither
  Bundle = TRUE
  MaxEdits = 1
  MaxRuns = 2
SPECIFICATION Spec
INVARIANTS
  ScanFindsTheObjects
  OnlyWholeScansPass
PROPERTIES
  IndexNeverReplaced
CHECK_DEADLOCK FALSE
