SPECIFICATION Spec
CONSTANTS
  r1 = r1
  r2 = r2
  c1 = c1
  Runs <- TwoRuns
  Clients <- OneClient
  Inputs <- FewInputs
  MaxPayload = 4
  CountWidth = 16
  Slots = 3
  PageMax = 2
  MaxClock = 2
SYMMETRY RunSymmetry
CHECK_DEADLOCK FALSE
INVARIANTS
  IInv
  RecentIsNewestFirst
  SeenCanBeQueried
  NoEndIsMissed
PROPERTIES
  ImplementsLifecycle
