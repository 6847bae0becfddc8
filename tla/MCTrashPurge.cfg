\* One email with everything, two purgers on either kind of store, two faults.
SPECIFICATION FairSpec
CONSTANTS
  e1 = e1
  e2 = e2
  r1 = r1
  p1 = p1
  p2 = p2
  Email <- OneEmail
  Request <- MCRequest
  Purger <- MCPurger
  Attached <- MCAttached
  Stripped <- MCStripped
  Backends <- AnyBackend
  Retention = 1
  MaxDay = 3
  MaxFaults = 2
INVARIANTS
  PurgedMeansGone
  NoStrangeLoss
PROPERTIES
  TrashIsEmptied
CHECK_DEADLOCK FALSE
