CONSTANTS
  Ids = {a}
  Workers = {w1}
  NotBefores = {4}
  Prefetch = 1
  RetryDelay = 1
  MaxDelay = 2
  MaxNow = 4
  MaxWrites = 1
  MaxFailures = 0
  MaxStops = 0
SPECIFICATION Spec
INVARIANTS NeverEarly
CHECK_DEADLOCK FALSE
