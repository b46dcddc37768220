SPECIFICATION Spec
CONSTANTS
  Ids = {a, b, c, d, e}
  Timeout = 4
  MsTicks = 2
  MaxNow = 4
  MaxBack = 1
  NoId = NoId
\* Time ends at MaxNow, and a failed assertion ends the process.
CHECK_DEADLOCK FALSE
SYMMETRY TimerSymmetry
INVARIANTS
  HTypeOK
  RefConsistent
  HeapOrder
PROPERTIES
  ImplementsDeadlines
  EpollWakesInTime
