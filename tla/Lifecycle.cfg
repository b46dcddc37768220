SPECIFICATION FairSpec
CONSTANTS
  Workers = {w1, w2}
  Handlers = {h1, h2}
  MaxConns = 1
  MaxTasks = 1
  MaxStops = 2
\* The process ends.
CHECK_DEADLOCK FALSE
INVARIANTS
  LcTypeOK
  LoggerOutlivesCallers
  DescriptorsReleased
PROPERTIES
  StopIsHeeded
