SPECIFICATION Spec
CONSTANTS
  Process = {p1}
  Client = {e1}
  Nobody = Nobody
PROPERTIES
  SignalEndsProcess
