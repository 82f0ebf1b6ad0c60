SPECIFICATION Spec
CONSTANTS
  c1 = c1
  c2 = c2
  c3 = c3
  c4 = c4
  e1 = e1
  e2 = e2
  e3 = e3
  Requests = {c1, c2, e1}
  EndpointOf <- MCEndpointOf
  Inputs <- MCInputs
  Results <- AnyResult
  WindowSize = 2
  WindowSeconds = 2
  Latencies = {1, 5, 9}
  SoftInFlight <- Zero
  HardInFlight <- One
  SoftLatency <- SoftLimit
  HardLatency <- HardLimit
  SoftErrorPct = 2
  HardErrorPct = 60
  SoftTimeoutPct = 1
  HardTimeoutPct = 5
  RecoverySeconds = 1
  Levels = {"low", "hard"}
  CounterCap = 4
  MaxInFlight <- Two
  DegradedMaxInFlight <- One
  DegradedMaxInputs = 1
  MaxInputs = 2
  AdaptiveMode = TRUE
  QueueEnabled = FALSE
  QueueDisableOnDegraded = TRUE
  QueueMaxDepth <- One
  QueueMaxWait <- One
  PollInterval = 1
SYMMETRY SameRequests
INVARIANTS
  TransitionsBalance
  WindowInOrder
PROPERTIES
  ReasonRaisesMode
  GradualRecovery
  DecidedOnFreshWindow
