SPECIFICATION Spec
CONSTANTS
  Names = {1, 2}
  HistoryLimit = 2
  Scenarios <- Gap
INVARIANT BoundAlwaysHolds
CHECK_DEADLOCK FALSE
