SPECIFICATION FairSpec
CONSTANTS
  c1 = c1
  c2 = c2
  Clients <- TwoClients
  Stallers <- OneStaller
  MaxRequests = 2
  HandlersMayFail = TRUE
  Transports <- Transport
  QuicFeature = TRUE
  TimerLag = 1
  Invocations <- SomeInvocations
  Connections = 2
  Requests = 2
  ConnectRetries = 2
  RequestTimeout = 5
  Latencies <- SomeLatencies
  SubBuckets = 2
  Highest = 7
  MaxPayload = 4
  CountWidth = 16
INVARIANTS
  TypeOK
  EveryRequestIsAnswered
  ReportIsOfAllSamples
  LoopbackIsAsSlowAsAsked
PROPERTIES
  TheCommandEnds
CHECK_DEADLOCK FALSE
