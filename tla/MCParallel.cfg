CONSTANTS
  Workers = {w1, w2}
  Driver = driver
  Host = host
  Jobs = {1, 2, 3}
  Callers = {driver}
  NSources = 2
  Modes = {"PerSink", "Resolved"}
  Pull = "WeakHigh"
  FirstDrive = "Low"
  Feedback <- MCFeedback
  SETTLE_LIMIT = 3
  EventEvery = 2
  Reenters = TRUE
  LAZY_CONTENDED_SPINS = 1
  Domains = {"pll", "bus"}
  Rates = {1, 2, 3}
  FirstRate = 1
  LazyOn = 1
  Relock <- MCRelock
  Scenes <- MCScenes
SPECIFICATION Spec
INVARIANTS BarrierHolds Accounted WakeupsKept DrainedOnExit Settled AccessFresh
  RequestsKept OneDeliverer
CHECK_DEADLOCK FALSE
PROPERTY RunEnds
