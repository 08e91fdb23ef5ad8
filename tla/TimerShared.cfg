SPECIFICATION Spec
CONSTANTS
  e1 = e1  e2 = e2  e3 = e3  None = None
  Loop = "loop"
  Callers = {"c1"}
  Events = {e1, e3}
  m_interval <- Intervals
  Repeated = {e1}
  Retry = 2
  MaxNow = 5
INVARIANTS
  NeverForgotten
  InTimeUntilShared
  DeletedRunsOnce
CHECK_DEADLOCK FALSE
