SPECIFICATION FairSpec
CONSTANTS
  Command = {p1, p2}
  Scenario = {"malicious-dependency", "compromised-ci-step", "leaked-secret", "typosquatting"}
  MaxFaults = 1
  MaxEdits = 1
CHECK_DEADLOCK FALSE
INVARIANTS
  TypeOK
  TracesHaveOwner
  LeavesAsFound
  VerdictsAreReal
PROPERTIES
  InjectionRemoved
