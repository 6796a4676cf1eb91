SPECIFICATION Spec
CONSTANTS
  Process = {p1, p2}
  Client = {e1}
  Nobody = Nobody
INVARIANTS
  TypeOK
  NoFileAfterOrderlyEnd
PROPERTIES
  ShutdownCompletes
