SPECIFICATION FairSpec
CONSTANTS
  n1 = n1
  n2 = n2
  n3 = n3
  None = None
  Nodes = {n1, n2, n3}
  Class <- MCClass
  Allocatable = 4
  Repetitions = 1
  Others = {}
  MaxRecreated = 1
  MaxDisturbances = 0
CHECK_DEADLOCK FALSE
PROPERTIES
  BenchmarkSucceeds
  NothingRemains
