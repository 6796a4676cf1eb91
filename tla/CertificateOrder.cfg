SPECIFICATION Spec
CONSTANTS
  Domain = {d1, d2}
  Self = Self
  Nobody = Nobody
INVARIANTS
  TypeOK
  FinalizedWhenSettled
  ActiveWhileAsked
  TimeoutMeansLate
PROPERTIES
  OrderEnds
  ImplementsIssuer
