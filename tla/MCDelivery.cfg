SPECIFICATION Spec
CONSTANTS
  r1 = r1
  r2 = r2
  r3 = r3
  bad = bad
  d1 = d1
  d2 = d2
  h1 = h1
  h2 = h2
  h3 = h3
  Recipient = {r1, r2, r3, bad}
  Domain = {d1, d2}
  Host = {h1, h2, h3}
  DomainOf <- MCDomainOf
  Exchangers <- MCExchangers
  Smarthost = h3
  a1 = a1
  a2 = a2
  Admin = {a1, a2}
  Tool <- MCTool
  MaxKeys = 4
  MaxAttempts = 2
  Mailings <- MCMailings
INVARIANTS
  OkMeansTaken
  CopiesAreBounded
  SignaturesVerify
PROPERTIES
  DeliversAsAgreed
  EveryAttemptEnds
CHECK_DEADLOCK FALSE
