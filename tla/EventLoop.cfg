SPECIFICATION Spec
CONSTANTS
  p1 = p1  p2 = p2  loop = loop  f1 = f1  w = w
  Posters = {p1}
  Stoppers = {p1}
  Loop = loop
  Fds = {f1}
  WakeFd = w
  MaxPosts = 2
  MaxEvents = 1
INVARIANTS
  TasksConserved
  RegistrationFollowsCalls
  WakeupCoversTasks
  WakeupCoversStop
PROPERTIES
  UsesScopeMutex
  ImplementsTaskQueue
  QueueWaitersProgress
  TasksRun
  StopEndsLoop
CHECK_DEADLOCK FALSE
