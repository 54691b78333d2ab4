SPECIFICATION Spec
CONSTANTS
  Emails = {"e1"}
  Tokens = {"t1", "t2", "t3"}
  Workers = {"w1", "w2"}
  NoToken = "none"
  NoEmail = "nobody"
INVARIANT RedeemedOnce
CHECK_DEADLOCK FALSE
