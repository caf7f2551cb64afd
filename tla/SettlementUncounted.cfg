SPECIFICATION FairSpec
CONSTANTS
  Events = {e1}
  Slots = {s1}
  Transports = {"kafka"}
  Limits = {2}
  MaxRetries = 3
  MaxFailures = 0
  MaxRedeliveries = 0
INVARIANTS RetriesBounded
CHECK_DEADLOCK FALSE
