SPECIFICATION SuiteSpec
CONSTANTS
  MaxConnections = 1
  PulseBuffer = 2
  Scenarios <- NotifyScenes
INVARIANTS
  OperationsBooked
  ShutdownProves
  BoundHolds
  NotifySound
PROPERTIES
  StopPrecedence
  HubsSound
CHECK_DEADLOCK FALSE
