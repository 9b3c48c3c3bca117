CONSTANTS
  Keys = {k1}
  DurableFaults = {}
  SaveFaults = {}
  ChildMayRestart = TRUE
  MaxUse = 0
  MaxRequests = 1
  MaxLaunches = 0
SPECIFICATION Spec
INVARIANT DisableSurvivesRestart
CHECK_DEADLOCK FALSE
