\* The claim of finish_tts's docstring, over every reply the pipeline can produce.
CONSTANTS
  Sessions = {s1}
  Items = {i1}
  Capacity = 1
  MaxTurns = 1
SPECIFICATION Spec
INVARIANT GateCoversReply
CHECK_DEADLOCK FALSE
