SPECIFICATION Spec
CONSTANTS
  SameSourceWindow = 1
  CompositeWindow = 2
  MaxHold = 3
  TrustedRegistries <- MCTrusted
  Payload <- TimingPayload
  Request = {r1, r2, r3, r4}
  Pass = {p1}
  Legacy <- NoLegacy
  ByHand = FALSE
  MaxAttempts = 2
  CommitLag = 0
  LastPost = 3
  MaxClock = 4
  MaxFailures = 0
SYMMETRY Symmetry
INVARIANTS
  CompositeNotLost
  BurstsNotSplit
PROPERTIES
  NoBurstHeldPastMax
