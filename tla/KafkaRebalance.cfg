CONSTANTS
  p1 = p1
  p2 = p2
  Ids = {a}
  Workers = {w1, w2}
  Partitions = {p1}
  PartitionOf <- OnePartition
  None = None
  NotBefores = {1}
  DeliveryConcurrency = 2
  RetryDelay = 1
  ReuseIds = TRUE
  AllowRetries = TRUE
  MaxNow = 1
  MaxWrites = 2
  MaxFailures = 1
  MaxStops = 0
  MaxRevokes = 1
  MaxCompactions = 1
SPECIFICATION Spec
INVARIANTS AtLeastOncePerId
SYMMETRY WorkerSymmetry
CHECK_DEADLOCK FALSE
