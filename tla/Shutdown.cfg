\* three changes by peers, commands and events, a block
SPECIFICATION FairSpec
CONSTANTS
  MaxVersion = 3
  MaxHeight = 1
INVARIANTS
  TypeOK
  QuitPersists
PROPERTIES
  NodeEnds
CHECK_DEADLOCK FALSE
