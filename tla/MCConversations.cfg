\* The page, what is said, kept and remembered, alone and together.
CONSTANTS
  Tokens = {"open", "tool", "mark", "stop"}
  MaxSpoken = 3
  MaxBuffer = 2
  MaxReplies = 2
  MaxSaid = 4
  Window = 4
  Keep = 2
  MaxMessages = 9
  Callers = {"own", "other"}
  Speaker = "own"
  Workers = 1
  First <- MCFirst
  Later <- MCLater
  Preroll = 1
  MaxWordsTold = 3
  MaxSilence = 1
  MaxVoiced = 2
  MemoryCalls = {1, 3, 4}
  Facts <- MCFacts
  Singles = {"real_name"}
  Classifications <- MCClassifications
  Eighth = 2
  MaxEntries = 3
  MaxDelays = 1
  MaxCalls = 2
  MaxClients = 3
  MaxTeardowns = 2
  MaxLogins = 2
  SlotLimit = 1
  Scopes <- MCScopes
SPECIFICATION Spec
INVARIANTS NoOrphanedCall LatestStatementWins HeardAsTold
PROPERTIES RecordsReplies ResultsKeepCalls MemoryOfKeptCalls PageShowsEnd
CHECK_DEADLOCK FALSE
