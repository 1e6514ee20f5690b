\* the migration is interrupted anywhere, or nowhere
SPECIFICATION FairSpec
CONSTANTS
  Outputs = {o1, o2, o3}
  MaxCrashes = 2
INVARIANTS
  TypeOK
  NothingLost
PROPERTIES
  ImplementsCustody
  GoesForward
  UninterruptedEnds
CHECK_DEADLOCK FALSE
