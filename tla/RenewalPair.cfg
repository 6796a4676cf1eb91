SPECIFICATION Spec
CONSTANTS
  Cert = {c1, c2}
  Gen = {g1, g2}
  Domains = {d1}
  None = None
  Torn = Torn
  Reliable = {}
  ReadFaults = TRUE
PROPERTIES
  ServedIsStored
  NoSecretIsSpoiled
  DueIsOrdered
