SPECIFICATION Spec
CONSTANTS
  Ids = {a}
  Timeout = 4
  MsTicks = 2
  MaxNow = 4
  MaxBack = 0
  NoId = NoId
CHECK_DEADLOCK FALSE
INVARIANTS
  IndicesInHeap
