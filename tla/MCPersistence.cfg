\* Crashes, restarts, shutdowns and the teardown of calls around their tasks.
CONSTANTS
  k1 = k1
  k2 = k2
  w1 = w1
  w2 = w2
  w3 = w3
  w4 = w4
  Writes = {w1, w2, w3, w4}
  Durable = {w1, w2, w3}
  Overwrites = {w2}
  Keys = {k1, k2}
  KeyOf <- TwoCalls
  Workers = {x1, x2}
  Capacity = 1
  MaxFaults = 1
  MaxCrashes = 1
  Scopes <- CallScopes
SPECIFICATION ScopedSpec
INVARIANT NothingLost
INVARIANT OneOwner
INVARIANT DrainProtectsEarlier
PROPERTY QueueIsDurableLedger
PROPERTY EventuallyDecided
PROPERTY DrainsEnd
CHECK_DEADLOCK FALSE
