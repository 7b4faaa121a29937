CONSTANTS
  MaxChunks = 3
  MaxEdits = 1
  EditKinds <- MCEditKinds
  Captures <- MCCaptures
  Texts <- MCTexts
  Rejected = "none"
  Target <- MCTarget
  Text <- MCText
  MaxUnique = 2
SPECIFICATION Spec
INVARIANTS
  TypeOK
  DiffOfDigests
  BothStillTheDigests
CHECK_DEADLOCK FALSE
