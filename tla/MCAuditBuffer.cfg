SPECIFICATION Spec
CONSTANTS
  e1 = e1  e2 = e2  e3 = e3  r1 = r1  r2 = r2
  Events <- MCEvents3
  Legacy <- MCLegacy
  Replicas <- MCReplicas
  Stoppable <- MCStoppable
  Writers = 2
  HardCap = 1
  BatchSize = 2
  MaxFaults = 2
INVARIANTS TypeOK LocksExclusive NoLoss DuplicatesNeedFaults SinkSeesSigned CapOvershoot
PROPERTIES SentIsFinal ImplementsOutbox
SYMMETRY Symmetry
CHECK_DEADLOCK FALSE
