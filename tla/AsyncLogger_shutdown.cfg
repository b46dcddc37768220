SPECIFICATION LFairSpec
CONSTANTS
  Producers = {main, handler}
  Consumers = {writer}
  Writer = writer
  Handler = handler
  Closer = closer
  Capacity = 1
  Values = {v1, v2}
  NoValue = NoValue
  NoThread = NoThread
  MaxSpurious = 0
  MaxSignals = 0
CHECK_DEADLOCK FALSE
PROPERTIES
  DtorReturns
