SPECIFICATION SuiteFairSpec
PROPERTIES
  UnitsProgress
  HostsProgress
CHECK_DEADLOCK FALSE
