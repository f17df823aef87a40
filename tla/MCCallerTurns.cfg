SPECIFICATION Spec
CONSTANTS
  MaxWords = 2
  MaxStarts = 2
  Queries = {"q1", "q2", "q3"}
  Askers = {"a1", "a2", "own"}
  Own = "own"
  Threshold = 2
  InflightMax = 2
  MaxOutages = 2
  Calls = {1, 2, 3}
  MaxDrafts = 2
  MaxIssues = 3
  MaxAttempts = 2
  MaxTurns = 3
  MaxHedged = 2
  Scopes <- MCScopes
INVARIANTS FiledOnce NoAttemptLeft
PROPERTIES FinalAfterStop SpeechTranscribed CircuitCloses ModelAnswers OwnContext
CHECK_DEADLOCK FALSE
