SPECIFICATION FairSpec
CONSTANTS
  c1 = c1
  c2 = c2
  p1 = p1
  p2 = p2
  Children = {c1, c2}
  NoChild = NoChild
  Ports = {p1, p2}
  NoPort = NoPort
  MaxAttempts = 2
  MaxRequests = 3
CHECK_DEADLOCK FALSE
INVARIANTS
  TypeOK
  ChildIsTracked
  ServiceIsTrue
  StopWins
PROPERTIES
  QueueDrains
  CrashIsFollowedUp
