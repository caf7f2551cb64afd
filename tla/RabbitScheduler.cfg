CONSTANTS
  Ids = {a, b}
  Workers = {w1, w2}
  NotBefores = {1}
  Prefetch = 2
  RetryDelay = 1
  MaxDelay = 2
  MaxNow = 1
  MaxWrites = 2
  MaxFailures = 1
  MaxStops = 1
SPECIFICATION FairSpec
INVARIANTS TypeOK AtLeastOncePerId HeldIsScheduled ChannelSurvives
PROPERTIES AcksAreEarned KeepsPromise EventuallyDelivered
CHECK_DEADLOCK FALSE
