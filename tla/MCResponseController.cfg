SPECIFICATION Spec
CONSTANTS
  Operator = {o1}
  MaxKills = 1
  Proposal <- Proposals
  Approver = {a1, a2}
  Enabled <- Both
  DryRuns = {TRUE, FALSE}
  ByHandValue = {"by hand"}
  Faults = {"github", "record", "disk"}
  MaxFaults = 1
  MaxApprovals = 2
  MaxEdits = 1
  MaxRuns = 2
  MaxClock = 1
SYMMETRY Symmetry
CHECK_DEADLOCK FALSE
INVARIANTS
  TypeOK
  StepsPermitted
  ApprovedExactly
  WrittenOnce
  AfterFailureNothingActs
