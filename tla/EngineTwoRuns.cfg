SPECIFICATION Spec
CONSTANTS
  r1 = r1
  r2 = r2
  Runs <- TwoRuns
  Connections = 2
  Requests = 2
  ConnectRetries = 2
  Panics = FALSE
  RepoFaults = TRUE
  DropPoints <- AnyAwait
SYMMETRY RunSymmetry
INVARIANTS
  MetricsMatchTheFeeds
  AnswersMatchTheRecord
