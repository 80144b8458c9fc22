SPECIFICATION Spec
CONSTANTS
  n1 = n1
  n2 = n2
  n3 = n3
  None = None
  Nodes = {n1, n2, n3}
  Class <- MCClass
  Allocatable = 4
  Repetitions = 1
  Others <- MCOthers
  MaxRecreated = 0
  MaxDisturbances = 2
CHECK_DEADLOCK FALSE
SYMMETRY NodeSymmetry
INVARIANTS
  TypeOK
  CompleteMeansMeasured
  SuccessLeavesNothing
  EveryRunIsRecorded
  RunsAreIsolated
  ProfilesToldApart
  RestoredSchedulerRuns
PROPERTIES
