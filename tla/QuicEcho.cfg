SPECIFICATION FairSpec
CONSTANTS
  good = good
  bad = bad
  Connections <- TwoConnections
  Stallers <- OneStaller
  Requests <- Rounds
  MaxRequests = 2
  Size = 2
  MaxEcho = 2
CHECK_DEADLOCK FALSE
INVARIANTS
  IInv
  OkMeansEchoed
  OnlyALostConnectionFails
PROPERTIES
  EveryEchoComesBack
  TasksEndWithTheConnection
  ShutdownStopsEverything
