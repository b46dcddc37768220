SPECIFICATION Spec
CONSTANTS
  Workers = {w1, w2}
  Main = main
  Conns = {c1, c2}
  Bulky = {}
  Wrapping = {}
  MaxFd = 1
  ReuseFds = TRUE
  NoConn = NoConn
CHECK_DEADLOCK FALSE
INVARIANTS
  OneWorkerPerFd
