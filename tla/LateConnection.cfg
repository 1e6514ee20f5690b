SPECIFICATION Spec
CONSTANTS
  MaxVersion = 1
  MaxHeight = 1
PROPERTIES
  NoUpdateAfterStop
CHECK_DEADLOCK FALSE
