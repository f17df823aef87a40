\* A draft's message goes while a summary is generated.
CONSTANTS
  Window = 4
  Keep = 2
  MaxMessages = 8
SPECIFICATION ContextSpec
PROPERTY SummaryReplacesItsOwn
CHECK_DEADLOCK FALSE
