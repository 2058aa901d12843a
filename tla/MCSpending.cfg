SPECIFICATION Spec
CONSTANTS
  w1 = w1
  w2 = w2
  q1 = q1
  q2 = q2
  q3 = q3
  i1 = i1
  i2 = i2
  i3 = i3
  i4 = i4
  i5 = i5
  Worker = {w1, w2}
  Question = {q1, q2, q3}
  Incident = {i1, i2, i3, i4, i5}
  Earlier <- Yesterday
  About <- AboutOne
  Threads = 2
  MaxAttempts = 2
  Cost = {1}
  HistoryTurns = 1
  QuestionLimit = 1
  AnalysisLimit = 1
  RateWindow = 0
  TokenBudget = 1
  DayLength = 1
  Faults = {"outage", "rejected", "reply", "log", "crash"}
  MaxFaults = 1
  MaxClock = 1
SYMMETRY Symmetry
INVARIANTS
  TypeOK
  EveryTokenCounted
  BudgetOvershoot
  RateLimitSoft
  QuestionLimitSoft
  ConversationContinues
CHECK_DEADLOCK FALSE
