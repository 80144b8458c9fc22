SPECIFICATION FairSpec
CONSTANTS
  Flags <- MCFlags
  MaxDisturbances = 4
CHECK_DEADLOCK FALSE
INVARIANTS
  TypeOK
  AdvertisedAreServed
PROPERTIES
  AllocationsFit
  NodeGetsItsGPUs
