SPECIFICATION Spec
CONSTANTS
  Token = {t1, t2}
  h1 = h1
  Host = {h1, h2}
  Wildcard = Wildcard
  AcmePort = AcmePort
  AppPort = AppPort
  Port <- SmallPorts
  Workload = Workload
  Workloads <- SmallWorkloads
INVARIANTS
  ChallengesAnswered
  MergeIsExact
