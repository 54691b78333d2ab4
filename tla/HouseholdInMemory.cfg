SPECIFICATION Spec
CONSTANTS
  Members = {m1, m2}
  Born = {m1}
  Kids = {}
  Callers = {c1, c2}
  InMemory = TRUE
PROPERTY OwnerAndManagerKept
CHECK_DEADLOCK FALSE
