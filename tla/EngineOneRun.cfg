SPECIFICATION FairSpec
CONSTANTS
  r1 = r1
  r2 = r2
  Runs <- OneRun
  Connections = 3
  Requests = 2
  ConnectRetries = 3
  Panics = TRUE
  RepoFaults = TRUE
  DropPoints <- AnyAwait
INVARIANTS
  FullInv
  FeedIsOneLifecycle
  EventsFollowTheRow
  CompletedRunIsExact
  FailureIsTheFirstInOrder
  NothingOutlivesItsOutcome
  ProgressKeepsUp
  ProgressIsHonest
PROPERTIES
  TheEndIsFinal
  ImplementsLifecycle
  EveryTaskEnds
  ImplementsLifecycleFully
