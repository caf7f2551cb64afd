CONSTANTS
  p1 = p1
  p2 = p2
  Ids = {a}
  Workers = {w1}
  Partitions = {p1}
  PartitionOf <- OnePartition
  None = None
  NotBefores = {1}
  DeliveryConcurrency = 2
  RetryDelay = 1
  ReuseIds = FALSE
  AllowRetries = TRUE
  MaxNow = 1
  MaxWrites = 2
  MaxFailures = 0
  MaxStops = 0
  MaxRevokes = 0
  MaxCompactions = 0
SPECIFICATION Spec
INVARIANTS AtLeastOnce
CHECK_DEADLOCK FALSE
