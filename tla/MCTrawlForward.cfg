CONSTANTS
  MaxChunks = 2
  MaxEdits = 1
  EditKinds <- MCInPlace
  Places <- MCPlaces
  ChunkOf <- MCChunkOf
  Split = {}
  IsHeader <- MCOneHeader
SPECIFICATION Spec
INVARIANTS
  FooterCoversRows
CHECK_DEADLOCK FALSE
