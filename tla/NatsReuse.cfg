CONSTANTS
  Ids = {a}
  Workers = {w1, w2}
  None = None
  NotBefores = {1}
  Concurrency = 1
  MaxAckPending = 2
  RetryDelay = 1
  ReuseIds = TRUE
  AllowRetries = TRUE
  MaxNow = 1
  MaxWrites = 2
  MaxFailures = 1
  MaxStops = 0
  MaxExpiries = 1
SPECIFICATION Spec
INVARIANTS TypeOK AtLeastOncePerId StoredHasWakeup
SYMMETRY WorkerSymmetry
CHECK_DEADLOCK FALSE
