CONSTANTS
  Runs <- MCRuns
  Names <- MCNames
  Namings <- MCNamings
  Chunks = 2
  MaxPolls = 2
  MaxWrites = 1
SPECIFICATION FairSpec
INVARIANTS
  TypeOK
  UndisturbedBundleIsOneInstant
  SumsMatchFiles
PROPERTIES
  JvmGoesOn
CHECK_DEADLOCK FALSE
