SPECIFICATION FairSpec
CONSTANTS
  MaxSaves = 2
  MaxWrites = 4
  MaxDamage = 1
  Procs = {p1, p2, p3}
  MaxFaults = 2
  MaxCrashes = 2
  MaxEdits = 1
  MaxQuits = 2
  MaxChecks = 3
  Versions = {1, 2}
  MaxConfigWrites = 2
  MaxOutside = 1
  Cap = 2
  Gens = 2
  MaxEntries = 5
  MaxTrouble = 2
  MaxRequests = 2
  MaxReport = 3
  MaxStatus = 3
  MaxChanges = 3
  MaxViews = 1
  MaxDeaths = 3
  MaxTurns = 3
  MaxReads = 3
  MaxTips = 2
  MaxRandom = 2
INVARIANTS TypeOK StateIsSafe MigrationIsAtomic
INVARIANTS QuitPathsHold FilesAreHonest RendererIsHonest
PROPERTIES EditsAndReportsKept QuitEnds
CHECK_DEADLOCK FALSE
