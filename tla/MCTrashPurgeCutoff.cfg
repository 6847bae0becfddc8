\* Two emails, one purger: which emails does it take?
SPECIFICATION FairSpec
CONSTANTS
  e1 = e1
  e2 = e2
  r1 = r1
  p1 = p1
  p2 = p2
  Email <- MCEmail
  Request <- MCRequest
  Purger <- OnePurger
  Attached <- MCAttached
  Stripped <- MCStripped
  Backends <- AnyBackend
  Retention = 1
  MaxDay = 3
  MaxFaults = 1
PROPERTIES
  DeletedBeforeCutoff
CHECK_DEADLOCK FALSE
