SPECIFICATION LFairSpec
CONSTANTS
  Producers = {main, worker, handler}
  Consumers = {writer}
  Writer = writer
  Handler = handler
  Closer = closer
  Capacity = 2
  Values = {v1, v2, v3, v4}
  NoValue = NoValue
  NoThread = NoThread
  MaxSpurious = 1
  MaxSignals = 1
\* A closed logger stops for good; the runs named after them show how it hangs.
CHECK_DEADLOCK FALSE
INVARIANTS
  LTypeOK
  LinesConserved
  NoLineLost
  ProducersNotStranded
  ConsumersNotStranded
PROPERTIES
  LinesGetThrough
