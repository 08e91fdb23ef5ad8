SPECIFICATION Spec
CONSTANTS
  Messages = {1, 2}
  Late = 3
  MaxClients = 1
INVARIANT DoneMeansSent
CHECK_DEADLOCK FALSE
