SPECIFICATION FairSpec
CONSTANTS
  RunCount = 2
  Setups <- MCSetups
CHECK_DEADLOCK FALSE
INVARIANTS
  TypeOK
  SuccessMeansShown
  EvidenceIsRecorded
  DiagnosisIsRight
PROPERTIES
  CommandEnds
  NothingStays
  
