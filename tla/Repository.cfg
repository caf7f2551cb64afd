CONSTANTS
  None = None
  SampleMasks <- MCMasks
  SampleMessages <- MCMessages
  Callers = {c1, c2}
  Ids = {1, 2}
  Engines = {"sqlite", "postgres", "mysql", "mongodb"}
  Workloads <- MCWorkloads
  Tables <- MCTables
  MaxCalls = 4
SPECIFICATION Spec
INVARIANTS TypeOK RejectedLeavesNothing AcknowledgedSurvives EtagsDescribeRows NobodyWaitsForever PagesCoverTheList MaskAlgebra ApplyIsProjection
PROPERTIES MaskedWritesKeepTheRest
SYMMETRY CallerSymmetry
CHECK_DEADLOCK FALSE
