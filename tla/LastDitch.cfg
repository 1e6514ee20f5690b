SPECIFICATION Spec
CONSTANTS
  MaxVersion = 1
  MaxHeight = 1
INVARIANTS
  FailureIsLastDitch
CHECK_DEADLOCK FALSE
