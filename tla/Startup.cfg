\* from an empty directory: two channels, three blocks, two crashes
SPECIFICATION FairSpec
CONSTANTS
  Monitors = {m1, m2}
  MaxHeight = 3
  MaxCrashes = 2
INVARIANTS
  TypeOK
  SeedIsDurable
  InStep
  NoMonitorLeftOut
PROPERTIES
  ImplementsChainView
  KeepsUp
CHECK_DEADLOCK FALSE
