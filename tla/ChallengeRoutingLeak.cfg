SPECIFICATION Spec
CONSTANTS
  Capacity = 3
  SubscribesFirst = TRUE
  Token = {t1, t2}
  Cert = {c1, c2}
  NoCert = NoCert
INVARIANTS
  FailureLeavesNoChallenge
