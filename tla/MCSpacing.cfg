CONSTANTS
  Klasses <- MCKlasses
  HeapWords = 5
  MaxGroups = 2
  SampleGaps = 2
  MinGaps = 2
  MinVotes = 2
SPECIFICATION SpacingSpec
INVARIANTS
  SpacingTypeOK
  TrackedGroupsAreWhole
  VotesAccounted
  SamplesAreGaps
  StatsValidate
CHECK_DEADLOCK FALSE
