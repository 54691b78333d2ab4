SPECIFICATION Spec
CONSTANTS
  e1 = e1  e2 = e2  e3 = e3  r1 = r1  r2 = r2
  Events <- MCEvents2
  Legacy = {}
  Replicas <- MCReplicas
  Stoppable <- MCStoppable
  Writers = 2
  HardCap = 1
  BatchSize = 2
  MaxFaults = 0
INVARIANT UnsignedRetried
CHECK_DEADLOCK FALSE
