SPECIFICATION Spec
CONSTANTS
  Cert = {c1}
  Gen = {g1, g2, g3, g4, g5, g6}
  Domains = {d1}
  None = None
  Torn = Torn
  Reliable = {c1}
  ReadFaults = FALSE
INVARIANTS
  TypeOK
  FreshMeansComplete
  BrokenMeansDue
PROPERTIES
  ComesToBeServed
  OrdersComeToRest
