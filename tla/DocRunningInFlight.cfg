SPECIFICATION Spec
CONSTANTS
  r1 = r1
  r2 = r2
  Runs <- OneRun
  Connections = 2
  Requests = 2
  ConnectRetries = 1
  Panics = FALSE
  RepoFaults = FALSE
  DropPoints <- JoinOnly
INVARIANTS
  RunningMeansInFlight
