SPECIFICATION Spec
CONSTANTS
  Google = {}
  Apple = {}
  X = {"x1"}
  Others = {}
  Emails = {"e1"}
  Callers = {"c1"}
  MaxSignIns = 3
  MaxFaults = 1
  MaxRemovals = 0
INVARIANT RetriesDoNotCollide
CHECK_DEADLOCK FALSE
