CONSTANTS
  Lines <- MCLines
  MaxLines = 3
  MaxMappings = 2
  HeapBytes = 32
  OffsetSpan = 16
  BitValues <- MCBits
  Raws <- MCRaws
SPECIFICATION ReferencesSpec
INVARIANTS
  DecodesTheColouring
  MapsAreTheReadableLines
  TargetIsWhereItIsMapped
  GuessesWhatIsMapped
CHECK_DEADLOCK FALSE
