SPECIFICATION LiveSpec
CONSTANTS
  Keys = {k1, k2}
  Slots = {s1, s2}
  MaxWrites = 2
  Listening0 = TRUE
  Deletable = {}
  MayStop = FALSE
  MaxFaults = 0
PROPERTY ConvergesUnlessLate
CHECK_DEADLOCK FALSE
