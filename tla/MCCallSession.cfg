SPECIFICATION Spec
CONSTANTS
  Stale = 3
  MaxReady = 2
  MaxWrites = 1
  MaxFaults = 2
INVARIANTS StartedOnce CleanEnd
PROPERTIES SessionIsCallLifecycle EveryCallEnds
CHECK_DEADLOCK FALSE
