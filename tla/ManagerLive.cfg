SPECIFICATION SuiteFairSpec
CONSTANTS
  N = 3
  Workers = 2
INVARIANTS
  NoneLeft
PROPERTIES
  StopContractSpec
  OperationsProgress
  
  WorkersProgress
CHECK_DEADLOCK FALSE
