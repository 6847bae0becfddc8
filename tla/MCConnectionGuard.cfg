\* Four connections from two addresses, a cleanup every second call.
SPECIFICATION Spec
CONSTANTS
  c1 = c1
  c2 = c2
  c3 = c3
  c4 = c4
  a1 = a1
  a2 = a2
  Conn <- MCConn
  Ip <- MCIp
  Rate = 1
  Threshold = 2
  Duration = 1
  Interval = 2
  StaleAge = 1
  MaxTick = 4
  MaxFaults = 1
SYMMETRY Symmetry
INVARIANTS
  BlocksAreEarned
  RateHonoured
  ThresholdActs
CHECK_DEADLOCK FALSE
