\* Three goroutines around a breaker, two syncs of a connector, two clients of a limiter.
SPECIFICATION MCSpec
CONSTANTS
  c1 = c1
  c2 = c2
  c3 = c3
  Calls <- ThreeCalls
  FailureThreshold = 2
  RecoveryTimeout = 2
  MaxFails = 4
  Syncs <- TwoCalls
  Records = 2
  PageSizes = {1, 2}
  Limits = {0, 1}
  MaxAttempts = 2
  Burst = 1
  MaxSyncs = 3
  Clients <- TwoCalls
  Window = 2
  Limit = 2
  MaxDelay = 1
INVARIANTS ClosedIffBelowThreshold SlotHasProbe
PROPERTIES LimitersServe CallersAreNotStuck SyncsComeToAnEnd
