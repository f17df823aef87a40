SPECIFICATION Spec
CONSTANTS
  Stale = 3
  MaxReady = 1
  MaxWrites = 1
  MaxFaults = 1
INVARIANT OutageWaitedOut
CHECK_DEADLOCK FALSE
