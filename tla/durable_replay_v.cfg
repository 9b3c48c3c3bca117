CONSTANTS
  Keys = {k1}
  DurableFaults = {}
  SaveFaults = {"after-primary"}
  ChildMayRestart = FALSE
  MaxUse = 0
  MaxRequests = 2
  MaxLaunches = 0
SPECIFICATION Spec
INVARIANT AnsweredDisableIsOnDisk
CHECK_DEADLOCK FALSE
