SPECIFICATION Spec
CONSTANTS
  w1 = w1
  w2 = w2
  Worker = {w1}
  Incident = {1, 2, 3}
  Severity <- SameSeverity
  Uncorrelated <- NothingSkipped
  Since = 0
  Lookback = 1
  Lease = 3
  AnalysisTime = 1
  LockWait = 0
  RetryAfter = 1
  MaxRetryAfter = 4
  RateWindow = 9
  RateLimit = 9
  DayLength = 9
  TokenBudget = 99
  Tokens = {1}
  CommitLag = 1
  Faults = {"log", "fetch"}
  MaxFaults = 2
  Horizon = 3
  MaxClock = 4
PROPERTIES
  DoneOnceAnalyzed
