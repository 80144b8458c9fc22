SPECIFICATION Spec
CONSTANTS
  c1 = c1
  t1 = t1
  t2 = t2
  l1 = l1
  l2 = l2
  None = None
  Controllers = {c1}
  Templates = {t1, t2}
  Labels = {l1}
  Overrides = {"none", "hold"}
  Reported = {"Resumed", "Completed"}
  MaxUid = 2
  MaxGeneration = 2
  MaxDisturbances = 1
CHECK_DEADLOCK FALSE
INVARIANTS
  TypeOK
  NeverRunsUnadmitted
PROPERTIES
  ImplementsLifecycle
  TemplateNeverRewritten
  ObservedGenerationIsCurrent
SYMMETRY TemplateSymmetry
