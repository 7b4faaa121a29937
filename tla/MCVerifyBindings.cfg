CONSTANTS
  MaxChunks = 2
  MaxEdits = 2
  EditKinds <- MCEditKinds
  Places <- MCPlaces
  ChunkOf <- MCChunkOf
  Split = {2}
  IsHeader <- MCIsHeader
  Samples = 2
SPECIFICATION FairSpec
INVARIANTS
  TypeOK
  ReportIsOneSnapshot
  SamplesAccountedFor
PROPERTIES
  ImplementsSnapshotReport
  Terminates
CHECK_DEADLOCK FALSE
