SPECIFICATION MCSpec
CONSTANTS
  Replicas = {"r1", "r2"}
  Tasks = {"ta", "tb"}
  DueAt <- MCDueAt
  MaxClock = 2
  InMemory = FALSE
  MaxFaults = 1
  None = None
INVARIANTS PartsTypeOK OneHolder FiresWhenNamed Accounted OvershootBounded
           ResendsAccounted FanoutWhileSubscribed NoLostWakeup OutcomeSettled
PROPERTIES  RoomRecords
CHECK_DEADLOCK FALSE
