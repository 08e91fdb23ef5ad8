SPECIFICATION Spec
CONSTANTS
  InitSize = 4
  Roles = {{"receive", "grow", "moveRead"},
           {"receive", "grow", "moveRead", "readFrom", "writeTo"}}
  MaxBytes = 9
INVARIANTS
  IndicesOrdered
  IntactUntilDamaged
  UnreadInOrder
  InBufferNeverFull
CHECK_DEADLOCK FALSE
