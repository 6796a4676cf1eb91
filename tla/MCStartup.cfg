SPECIFICATION Spec
CONSTANTS
  Key = {k1, k2}
  d1 = d1
  d2 = d2
  Directory = {d1, d2}
  Configs <- SmallConfigs
  Outages = {0, 2, 7, 8, 15, 16}
INVARIANTS
  TypeOK
  ConfigsAreJudged
  UsedIsStored
  OneAccountPerStorage
  ServedIsConverted
PROPERTIES
  OutageIsRiddenOut
  AccountIsKept
