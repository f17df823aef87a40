SPECIFICATION Spec
CONSTANTS
  Stale = 3
  MaxReady = 1
  MaxWrites = 1
  MaxFaults = 1
INVARIANT StartupFailureIsStartup
CHECK_DEADLOCK FALSE
