SPECIFICATION Spec
CONSTANTS
  InitSize = 40
  Requests = 5
  Stream <- TestStream
  First <- TestFirst
  MaxWrites = 2
  MaxServed = 6
  Client = {"receive", "moveRead"}
INVARIANTS
  ServedUntilDamaged
  MessagesAreRequests
  ServedInOrder
  AllWrittenWhenDone
PROPERTY RequestsServed
CHECK_DEADLOCK FALSE
