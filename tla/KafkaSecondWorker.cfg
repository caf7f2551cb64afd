CONSTANTS
  p1 = p1
  p2 = p2
  Ids = {a}
  Workers = {w1, w2}
  Partitions = {p1}
  PartitionOf <- OnePartition
  None = None
  NotBefores = {1}
  DeliveryConcurrency = 2
  RetryDelay = 1
  ReuseIds = FALSE
  AllowRetries = FALSE
  MaxNow = 1
  MaxWrites = 1
  MaxFailures = 0
  MaxStops = 0
  MaxRevokes = 0
  MaxCompactions = 0
SPECIFICATION FairSpec
PROPERTIES StartCompletes
CHECK_DEADLOCK FALSE
