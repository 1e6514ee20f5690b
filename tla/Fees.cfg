\* three mempools, one of them at the border of the floor
SPECIFICATION FairSpec
CONSTANTS
  NoAnswer = NoAnswer
  Width = 1048576
  Markets <- MCMarkets
INVARIANTS
  TypeOK
  AboveFloor
PROPERTIES
  CalmPollFollows
  Follows
