CONSTANTS
  k1 = k1
  k2 = k2
  Keys = {k1, k2}
  DurableFaults = {"before-primary", "after-primary"}
  SaveFaults = {"before-primary", "after-primary"}
  ChildMayRestart = TRUE
  MaxUse = 1
  MaxRequests = 2
  MaxLaunches = 1
SPECIFICATION FairSpec
INVARIANTS TypeOK AnsweredIsOnDisk RetryHeals DiskAgreesWhenQuiet
PROPERTIES ImplementsThePromise RuntimeDataReachesDisk
CHECK_DEADLOCK FALSE
