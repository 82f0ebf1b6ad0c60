SPECIFICATION LoopSpec
CONSTANTS
  Requests = {c1, c2}
  EndpointOf <- MCEndpointOf
  Inputs <- MCInputs
  Results <- FastOrHard
  WindowSize = 2
  WindowSeconds = 2
  Latencies = {1, 9}
  SoftInFlight <- Never
  HardInFlight <- Never
  SoftLatency <- SoftLimit
  HardLatency <- HardLimit
  SoftErrorPct = 2
  HardErrorPct = 10
  SoftTimeoutPct = 1
  HardTimeoutPct = 5
  RecoverySeconds = 1
  Levels = {"low"}
  CounterCap = 0
  MaxInFlight <- One
  DegradedMaxInFlight <- One
  DegradedMaxInputs = 1
  MaxInputs = 1
  AdaptiveMode = TRUE
  QueueEnabled = TRUE
  QueueDisableOnDegraded = TRUE
  QueueMaxDepth <- One
  QueueMaxWait <- One
  PollInterval = 1
  ReadinessFailOnDegraded = TRUE
PROPERTIES
  ReturnsToNormal
