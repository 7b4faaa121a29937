CONSTANTS
  MaxChunks = 2
  MaxEdits = 2
  EditKinds <- MCEditKinds
  Places <- MCPlaces
  ChunkOf <- MCChunkOf
  Split = {5}
  Klasses <- MCKlasses
  Periodic = {}
  Texts = {"a", "b", "c"}
  NoText = "none"
  Refs <- MCRefs
  Null = 0
  NumModels = 3
  Target <- MCTarget
  Holds <- MCHolds
  Examples = 1
  MinGaps = 1
  Support = 2
  GroupsPerWidth = 3
  MaxProposals = 3
  MaxAnchors = 2
  MaxGroups = 4
  MaxNodes = 1
SPECIFICATION Spec
INVARIANTS
  TypeOK
  EvidenceIsOfTheScan
  ProposalsAreSupported
  NodesRestOnProposals
CHECK_DEADLOCK FALSE
