CONSTANTS
  Owners = {o1, o2, o3}
  Sequential = TRUE
  MaxOpens = 3
  MaxCloses = 2
SPECIFICATION Spec
INVARIANTS UsedIsOpen NothingLeaks OneConnection FailedIsForgotten
CHECK_DEADLOCK FALSE
