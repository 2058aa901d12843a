SPECIFICATION Spec
CONSTANTS
  w1 = w1
  w2 = w2
  Worker = {w1}
  Incident = {1, 2, 3}
  Severity <- SameSeverity
  Uncorrelated <- OneSkipped
  Since <- FromStartup
  Lookback = 1
  Lease = 3
  AnalysisTime = 1
  LockWait = 0
  RetryAfter = 1
  MaxRetryAfter = 3
  RateWindow = 1
  RateLimit = 1
  DayLength = 9
  TokenBudget = 99
  Tokens = {1}
  CommitLag = 1
  Faults = {"fetch", "outage", "evidence"}
  MaxFaults = 3
  Horizon = 4
  MaxClock = 4
INVARIANTS
  NothingFallsBehind
  BackoffDoubles
PROPERTIES
  AnnouncedOnce
