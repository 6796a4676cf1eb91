SPECIFICATION Spec
CONSTANTS
  Capacity = 1
  lds = lds
  sds = sds
  s1 = s1
  s2 = s2
  Resource = {lds, sds}
  Listeners = lds
  Initial = {lds}
  Stream = {s1, s2}
  Kind <- BothListeners
  MaxUpdates = 2
INVARIANTS
  TypeOK
  VersionCoversContents
  NoMissedUpdate
  NoLostWakeup
PROPERTIES
  ClientsNeverGoBack
  WaiterIsReleased
  ImplementsFeed
