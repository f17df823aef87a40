\* The claim of the spill test, for one call without failures.
CONSTANTS
  k1 = k1
  k2 = k2
  w1 = w1
  w2 = w2
  w3 = w3
  w4 = w4
  Writes = {w1, w2, w3}
  Durable = {w1, w2, w3}
  Overwrites = {w1, w2, w3}
  Keys = {k1}
  KeyOf <- OneCall
  Workers = {x1}
  Capacity = 1
  MaxFaults = 0
  MaxCrashes = 0
  Scopes <- Faultless
SPECIFICATION ScopedSpec
INVARIANT SpillKeepsOrder
CHECK_DEADLOCK FALSE
