SPECIFICATION Spec
CONSTANTS
  MaxQuits = 2
  MaxChecks = 3
  Versions = {1, 2}
INVARIANT StopPrecedesExit
CHECK_DEADLOCK FALSE
