SPECIFICATION Spec
CONSTANTS
  Users = {u1, u2}
  Calls = {c1}
  Threads = {t1, t2}
  MaxFaults = 0
  None = None
PROPERTY TerminalIsFinal
CHECK_DEADLOCK FALSE
