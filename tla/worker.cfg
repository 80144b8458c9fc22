SPECIFICATION FairSpec
CONSTANTS
  None = None
  Indexes <- MCIndexes
  Arguments <- MCArguments
  MaxKills = 1
CHECK_DEADLOCK FALSE
INVARIANTS
  TypeOK
  OutcomeIsEarned
  ReportTellsTheExit
PROPERTIES
  TerminationIsHonoured
  JobEndsAsConfigured
