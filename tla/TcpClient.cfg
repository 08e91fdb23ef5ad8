SPECIFICATION Spec
CONSTANTS
  Messages = {1, 2}
  Late = 3
  MaxClients = 2
INVARIANTS
  WriteCallbacks
  ConnectCallbackOnce
  StaleCallbacks
PROPERTIES
  ConnectSettles
  MessagesSent
CHECK_DEADLOCK FALSE
