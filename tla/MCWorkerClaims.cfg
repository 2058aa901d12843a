SPECIFICATION FairSpec
CONSTANTS
  w1 = w1
  w2 = w2
  Worker = {w1, w2}
  Incident = {1}
  Severity <- SameSeverity
  Uncorrelated <- NothingSkipped
  Since = 0
  Lookback = 1
  Lease = 3
  AnalysisTime = 1
  LockWait = 1
  RetryAfter = 1
  MaxRetryAfter = 1
  RateWindow = 9
  RateLimit = 9
  DayLength = 9
  TokenBudget = 99
  Tokens = {1}
  CommitLag = 0
  Faults = {"crash", "log", "outage", "reply", "fetch"}
  MaxFaults = 2
  Horizon = 3
  MaxClock = 7
INVARIANTS
  TypeOK
  RebilledOnlyAfterLoss
  ClaimsPreventDuplicates
PROPERTIES
  EveryIncidentDecided
