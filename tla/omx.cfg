SPECIFICATION FairSpec
CONSTANTS
  MaxQueue = 1
  MaxLeft = 0
INVARIANTS
  ComponentStateHolds
  LockHasReleaser
  SemaphoresAtRest
PROPERTIES
  EventReachesWaiter
  
  
CHECK_DEADLOCK FALSE
