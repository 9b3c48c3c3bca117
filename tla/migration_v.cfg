SPECIFICATION Spec
CONSTANTS
  MaxFaults = 1
  MaxCrashes = 1
  MaxEdits = 0
INVARIANT FailureUndoes
CHECK_DEADLOCK FALSE
