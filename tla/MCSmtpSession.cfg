\* Two sessions, two MAIL commands between them, one account.
SPECIFICATION Spec
CONSTANTS
  s1 = s1
  s2 = s2
  u1 = u1
  f1 = f1
  f2 = f2
  r1 = r1
  remote = remote
  local = local
  Nobody = nobody
  Session <- MCSession
  Ip <- MCIp
  Exempt <- MCExempt
  User <- MCUser
  Address <- MCAddress
  Recipient <- MCRecipient
  Delay = 1
  Expiry = 1
  SendLimit = 1
  MaxTick = 3
  MaxTxn = 2
  MaxRcpt = 2
SYMMETRY Symmetry
INVARIANTS
  HandedAsAccepted
  SubmissionRate
PROPERTIES
  GreylistFair
CHECK_DEADLOCK FALSE
