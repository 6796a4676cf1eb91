SPECIFICATION Spec
CONSTANTS
  Capacity = 2
  SubscribesFirst = FALSE
  Token = {t1, t2}
  Cert = {c1, c2}
  NoCert = NoCert
INVARIANTS
  IssuedLeavesNoChallenge
  CleanAfterSuccess
PROPERTIES
  OnlyStaleRebuildsWithdraw
  RebuildsStop
