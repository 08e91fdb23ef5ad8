SPECIFICATION Spec
CONSTANTS
  Size = 2
  MaxClients = 4
  MaxFds = 3
INVARIANTS
  LoopPublished
  Balanced
PROPERTIES
  ClosedForGood
  ConnectionsServed
  DestructorReturns
CHECK_DEADLOCK FALSE
