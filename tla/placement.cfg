SPECIFICATION Spec
CONSTANTS
  p1 = p1
  p2 = p2
  p3 = p3
  Pods = {p1, p2, p3}
  Sizes = {1, 3}
  Nodes <- MCNodes
  Class <- MCClass
  Allocatable = 4
SYMMETRY PodSymmetry
CHECK_DEADLOCK FALSE
INVARIANTS
  TypeOK
  RequirementsHonoured
  NoOversubscription
  FragmentationPredictsFit
PROPERTIES
  OnlyRequirementsExclude
  PreferenceBreaksTies
  PreferenceIsBounded
