SPECIFICATION SuiteSpec
CONSTANTS
  Stoppers = {"s", "t"}
  Waiters = {"w"}
  Kids = {"k"}
  Scenarios <- ProcScenes
INVARIANTS
  ProcessesContained
  CalendarExact
  FloorSound
  MigrateSound
  WatchHandles
PROPERTIES
  TimersSound
  CapturesSound
  ServicingSound
CHECK_DEADLOCK FALSE
