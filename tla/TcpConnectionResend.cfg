SPECIFICATION Spec
CONSTANTS
  InitSize = 21
  Requests = 2
  Stream <- PlainStream
  First <- PlainFirst
  MaxWrites = 3
  MaxServed = 2
  Client = {"receive", "moveRead"}
INVARIANT AnswersSentOnce
CHECK_DEADLOCK FALSE
