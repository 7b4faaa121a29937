CONSTANTS
  Runs <- MCRuns
  Names <- MCNames
  Namings <- MCNamings
  Chunks = 2
  MaxPolls = 2
  MaxWrites = 1
SPECIFICATION Spec
INVARIANTS
  BundleIsOneInstant
CHECK_DEADLOCK FALSE
