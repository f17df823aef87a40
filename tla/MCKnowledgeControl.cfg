SPECIFICATION Spec
CONSTANTS
  Jobs = {"crawl", "embed", "detect"}
  Workers = {"w1", "w2"}
  Crawlers = {"w1", "w2"}
  MaxAttempts = 2
  MaxFaults = 2
  MaxRetries = 1
  KindOf <- MCKindOf
  Scopes <- MCScopes
  Sections = {"k1"}
  Texts = {"A", "B"}
  Spoken = "V"
  MaxVersion = 2
  MaxEdits = 1
  MaxReviews = 2
  Releases = {"r1", "r2", "r3"}
  Admins = {"a1", "a2"}
INVARIANTS ServedTextApproved
PROPERTIES OutcomeIsFinal OneLiveRelease JobsEnd
CHECK_DEADLOCK FALSE
