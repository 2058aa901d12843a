SPECIFICATION Spec
CONSTANTS
  w1 = w1
  w2 = w2
  q1 = q1
  q2 = q2
  q3 = q3
  i1 = i1
  i2 = i2
  i3 = i3
  i4 = i4
  i5 = i5
  Worker = {w1}
  Question = {q1, q2}
  Incident = {i1, i2, i3}
  Earlier <- Yesterday
  About <- AboutOne
  Threads = 1
  MaxAttempts = 3
  Cost = {1}
  HistoryTurns = 1
  QuestionLimit = 9
  AnalysisLimit = 9
  RateWindow = 0
  TokenBudget = 1
  DayLength = 1
  Faults = {"reply"}
  MaxFaults = 1
  MaxClock = 0
INVARIANT EveryCallRecorded
CHECK_DEADLOCK FALSE
