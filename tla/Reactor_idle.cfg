SPECIFICATION TimedSpec
CONSTANTS
  Workers = {w1}
  Main = main
  Conns = {c1, c2}
  Bulky = {}
  Wrapping = {}
  MaxFd = 2
  ReuseFds = FALSE
  NoConn = NoConn
CHECK_DEADLOCK FALSE
PROPERTIES
  IdleIsClosed
