SPECIFICATION Spec
CONSTANTS
  ann = ann
  bob = bob
  User <- MCUser
  Mailbox = {m1, m2}
  Address = {a1}
  Request = {r1}
  Owner = ann
  Other = bob
  Configured = a1
  MaxRuns = 2
  Workloads <- MCWorkloads
SYMMETRY Swaps
INVARIANTS
  NoOrphanUser
  RoutesAreClear
CHECK_DEADLOCK FALSE
