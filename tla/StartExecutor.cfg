SPECIFICATION FairSpec
CONSTANTS
  N = 3
  Workers = 2
INVARIANTS
  FailureSpreads
  NoneForgotten
PROPERTIES
  ActiveKept
  ContractSpec
  Terminates
CHECK_DEADLOCK FALSE
