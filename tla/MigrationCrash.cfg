\* one crash
SPECIFICATION FairSpec
CONSTANTS
  Outputs = {o1}
  MaxCrashes = 1
PROPERTIES
  MigrationEnds
CHECK_DEADLOCK FALSE
