SPECIFICATION Spec
CONSTANTS
  N = 3
  Graphs <- MCGraphs
INVARIANTS
  PlanSound
CHECK_DEADLOCK FALSE
