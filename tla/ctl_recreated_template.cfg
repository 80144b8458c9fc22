SPECIFICATION Spec
CONSTANTS
  c1 = c1
  t1 = t1
  t2 = t2
  l1 = l1
  l2 = l2
  None = None
  Controllers = {c1}
  Templates = {t1, t2}
  Labels = {l1}
  Overrides = {"none"}
  Reported = {"Resumed"}
  MaxUid = 2
  MaxGeneration = 1
  MaxDisturbances = 0
CHECK_DEADLOCK FALSE
INVARIANTS
  RunsItsOwnTemplate
