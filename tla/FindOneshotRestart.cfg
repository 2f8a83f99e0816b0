SPECIFICATION Spec
CONSTANTS
  s1 = s1
  s2 = s2
  t1 = t1
  x1 = x1
  Type = "oneshot"
  Restart = "on-failure"
  RemainAfterExit = FALSE
  Watchdog = FALSE
  Burst = 3
  Starts = {s1}
  Triggered = {}
  Stops = {}
  MayClose = FALSE
INVARIANTS OneshotRestarts
CHECK_DEADLOCK FALSE
