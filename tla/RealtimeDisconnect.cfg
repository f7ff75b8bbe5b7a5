SPECIFICATION Spec
CONSTANTS
  Channels = {a, b}
  MaxClients = 2
INVARIANTS DisconnectIsFinal
CHECK_DEADLOCK FALSE
