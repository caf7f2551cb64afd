CONSTANTS
  p1 = p1
  p2 = p2
  Ids = {a, b}
  Workers = {w1}
  Partitions = {p1}
  PartitionOf <- OnePartition
  None = None
  NotBefores = {1}
  DeliveryConcurrency = 2
  RetryDelay = 1
  ReuseIds = FALSE
  AllowRetries = FALSE
  MaxNow = 1
  MaxWrites = 2
  MaxFailures = 1
  MaxStops = 1
  MaxRevokes = 0
  MaxCompactions = 0
SPECIFICATION FairSpec
INVARIANTS TypeOK AtLeastOnce TombstonesFollowDelivery NoStrandedRecord ReplayRespectsTombstones
PROPERTIES KeepsPromise EventuallyDelivered
CHECK_DEADLOCK FALSE
