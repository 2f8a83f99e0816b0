SPECIFICATION Spec
CONSTANTS
  s1 = s1
  s2 = s2
  t1 = t1
  x1 = x1
  Type = "simple"
  Restart = "no"
  RemainAfterExit = FALSE
  Watchdog = FALSE
  Burst = 0
  Starts = {s1, s2}
  Triggered = {}
  Stops = {}
  MayClose = FALSE
INVARIANTS SuccessSurvives
CHECK_DEADLOCK FALSE
