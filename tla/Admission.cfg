SPECIFICATION Spec
CONSTANTS
  c1 = c1
  c2 = c2
  c3 = c3
  c4 = c4
  e1 = e1
  e2 = e2
  e3 = e3
  Requests = {c1, c2, c3, e1, e2, e3}
  EndpointOf <- MCEndpointOf
  Inputs <- MCInputs
  Results <- GoodOrFailed
  WindowSize = 2
  WindowSeconds = 1
  Latencies = {1}
  SoftInFlight <- Never
  HardInFlight <- Never
  SoftLatency <- SoftLimit
  HardLatency <- HardLimit
  SoftErrorPct = 0
  HardErrorPct = 60
  SoftTimeoutPct = 1
  HardTimeoutPct = 5
  RecoverySeconds = 1
  Levels = {"low"}
  CounterCap = 6
  MaxInFlight <- OneTwo
  DegradedMaxInFlight <- One
  DegradedMaxInputs = 1
  MaxInputs = 2
  AdaptiveMode = TRUE
  QueueEnabled = TRUE
  QueueDisableOnDegraded = TRUE
  QueueMaxDepth <- One
  QueueMaxWait <- Two
  PollInterval = 1
SYMMETRY SameRequests
INVARIANTS
  TypeOK
  SlotsAccounted
  AbsoluteCap
  QueueAccounted
  ShedCountedOnce
PROPERTIES
  DegradedAdmission
  NoIdleRefusal
  RaisedForCause
  ImplementsSlotPool
