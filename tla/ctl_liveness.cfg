SPECIFICATION FairSpec
CONSTANTS
  c1 = c1
  t1 = t1
  t2 = t2
  l1 = l1
  l2 = l2
  None = None
  Controllers = {c1}
  Templates = {t1}
  Labels = {l1, l2}
  Overrides = {"none"}
  Reported = {"Resumed", "Completed"}
  MaxUid = 1
  MaxGeneration = 1
  MaxDisturbances = 1
CHECK_DEADLOCK FALSE
PROPERTIES
  Converges
  TerminalIsReported
  NothingLeftBehind
