SPECIFICATION FairSpec
CONSTANTS
  Events = {e1}
  Slots = {s1, s2}
  Transports = {"kafka", "rabbitmq", "nats"}
  Limits = {2}
  MaxRetries = 2
  MaxFailures = 1
  MaxRedeliveries = 1
INVARIANTS TypeOK CompletedOrReported NoEventIsLost AttemptsWithinLimit DeadLetterDeserved
PROPERTY EventuallySettled
CHECK_DEADLOCK FALSE
