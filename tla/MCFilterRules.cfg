SPECIFICATION Spec
CONSTANTS
  Member = {m1, m2}
  Rule <- MCRule
  Condition = {"news", "long", "bad"}
  Message <- MCMessage
  Holds <- MCHolds
  Contact = {"c1", "c2"}
  Address = {"ann", "joann"}
  Within <- MCWithin
  MaxBlocks = 4
  Workloads <- MCWorkloads
INVARIANTS
  RulesActAsSaved
  BlockHolds
CHECK_DEADLOCK FALSE
