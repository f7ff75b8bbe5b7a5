SPECIFICATION Spec
CONSTANTS
  Channels = {a, b}
  MaxClients = 2
INVARIANTS AsksTheOpenOne
CHECK_DEADLOCK FALSE
