\* Two calls that share the gate, or one call of two turns: barge-in, typed text
\* over a reply, tools and fillers, with more enrichment jobs than the lane can queue;
\* and the records of one call, saved by the server and by the page,
\* and its tool calls, with the lane, its journal and the end of the session.
CONSTANTS
  s1 = s1
  s2 = s2
  i1 = i1
  i2 = i2
  c1 = c1
  c2 = c2
  Sessions = {s1, s2}
  Items = {i1, i2}
  Capacity = 1
  MaxTurns = 2
  MaxLane = 1
  MaxRepeats = 1
  Caller = s1
  ToolCalls = {c1, c2}
  MaxSaveFaults = 2
SPECIFICATION ScopedSpec
INVARIANT NoLeakedKey
INVARIANT TurnsAddUp
INVARIANT ToolsOnRecord
PROPERTY EnrichmentDrains
PROPERTY GateIsVoicePriority
CHECK_DEADLOCK FALSE
