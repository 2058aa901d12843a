SPECIFICATION FairSpec
CONSTANTS
  SameSourceWindow = 1
  CompositeWindow = 2
  MaxHold = 3
  TrustedRegistries <- MCTrusted
  Payload <- MixedPayload
  Request = {r1, r2}
  Pass = {p1, p2}
  Legacy <- LegacyRows
  ByHand = TRUE
  MaxAttempts = 2
  CommitLag = 1
  LastPost = 0
  MaxClock = 2
  MaxFailures = 1
INVARIANTS
  TypeOK
  OneIncidentPerEvent
  CreatedOnce
PROPERTIES
  ImplementsLedger
  BurstEventuallyReported
