\* Two requests at a time, two generations of two backup codes.
SPECIFICATION Spec
CONSTANTS
  u1 = u1
  u2 = u2
  r1 = r1
  r2 = r2
  s1 = s1
  p1 = p1
  t1 = t1
  t2 = t2
  User <- MCUser
  Request <- MCRequest
  Session <- MCSession
  Pending <- MCPending
  Token <- MCToken
  NumCodes = 2
  MaxGen = 2
  MaxUses = 2
  Workloads <- MCWorkloads
SYMMETRY Alike
INVARIANTS
  BackupCodesAddUp
  SecondFactorKept
  ResetLinkWorksOnce
  AnAdministratorRemains
CHECK_DEADLOCK FALSE
