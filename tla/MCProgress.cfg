SPECIFICATION MCSpec
CONSTANTS
  Jobs = {"j1", "j2"}
  Workers = {"w1", "w2"}
  Types = {"ta", "tb"}
  TypeOf <- MCTypeOf
  Registered <- MCRegistered
  Cancellable = {}
  MaxRetries = 2
  MaxFaults = 0
  None = None
PROPERTIES ConvergesUnlessLate SignedForwarded Concludes RingingEnds CachesCatchUp
CHECK_DEADLOCK FALSE
