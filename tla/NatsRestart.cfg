CONSTANTS
  Ids = {a, b}
  Workers = {w1}
  None = None
  NotBefores = {1}
  Concurrency = 3
  MaxAckPending = 2
  RetryDelay = 0
  ReuseIds = FALSE
  AllowRetries = FALSE
  MaxNow = 1
  MaxWrites = 2
  MaxFailures = 1
  MaxStops = 1
  MaxExpiries = 0
SPECIFICATION FairSpec
INVARIANTS StoredHasWakeup
PROPERTIES KeepsPromise EventuallyDelivered
CHECK_DEADLOCK FALSE
