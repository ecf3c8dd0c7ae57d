SPECIFICATION Spec
CONSTANTS
  Controls = {"cp-0", "cp-1"}
  Data = {"n1", "n2"}
  MaxFaults = 2
  Idle = {"cp-1", "n2"}
  FailureThreshold = 2
  Files <- MCFiles
CHECK_DEADLOCK FALSE
INVARIANTS
  ViewSafe
  PublishedWasServed
PROPERTIES
  ViewFollowsRing
  WatchdogFollowsService
