CONSTANTS
  MaxChunks = 2
  MaxEdits = 2
  EditKinds <- MCEditKinds
  Places <- MCPlaces
  ChunkOf <- MCChunkOf
  Split = {1, 2}
  IsHeader <- MCIsHeader
SPECIFICATION Spec
INVARIANTS
  TypeOK
  FooterDigestWasReal
  BackwardReadsCovered
  CandidatesAccountedFor
  SuccessMeansFooter
CHECK_DEADLOCK FALSE
