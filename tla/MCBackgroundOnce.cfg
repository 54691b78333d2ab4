SPECIFICATION MCSpec
CONSTANTS
  Replicas = {"r1", "r2"}
  Tasks = {"ta", "tb"}
  DueAt <- MCDueAt
  MaxClock = 2
  InMemory = FALSE
  MaxFaults = 0
  None = None
INVARIANT OneRunPerTick
CHECK_DEADLOCK FALSE
