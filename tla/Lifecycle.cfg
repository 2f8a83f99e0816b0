SPECIFICATION SuiteSpec
CONSTANTS
  s1 = s1
  t1 = t1
  x1 = x1
  Type = "simple"
  Restart = "on-failure"
  RemainAfterExit = FALSE
  Watchdog = FALSE
  Burst = 2
  Starts = {s1}
  Triggered = {}
  Stops = {x1}
  MayClose = TRUE
INVARIANTS
  OneLiveTree
  LiveTreeOwned
  StopConfirmed
  RecoveryDisarmed
  ShutdownComplete
  ActiveBacked
  StartBudgetKept
  TriggeredBudget
PROPERTIES
  ContractSpec
CHECK_DEADLOCK FALSE
