SPECIFICATION Spec
CONSTANTS
  NumSetups = 1
  Plan <- Singles
INVARIANT
  FailedRuntimeIsRemoved
CHECK_DEADLOCK FALSE
