SPECIFICATION Spec
CONSTANTS
  SameSourceWindow = 1
  CompositeWindow = 2
  MaxHold = 4
  TrustedRegistries <- MCTrusted
  Menus <- MCMenus
INVARIANTS
  TypeOK
  PassIsConsistent
  WaitingOnlyDelays
  UrgentPatternsNotHeld
  PairingAgrees
  ClusteringAgrees
CHECK_DEADLOCK FALSE
