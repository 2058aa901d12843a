SPECIFICATION Spec
CONSTANTS
  Request = {r1, r2, r3}
  Task = {1, 2}
  Existing = {1}
  Ttl = 1
  Duration = 1
  MaxClock = 3
  MaxFaults = 1
SYMMETRY Symmetry
CHECK_DEADLOCK FALSE
INVARIANTS
  TypeOK
  StalenessBounded
  StaleOnlyByRace
