SPECIFICATION Spec
CONSTANTS
  Workers = {w1, w2}
  Main = main
  Conns = {c1, c2}
  Bulky = {}
  Wrapping = {c1, c2}
  MaxFd = 2
  ReuseFds = TRUE
  NoConn = NoConn
CHECK_DEADLOCK FALSE
SYMMETRY ReactorSymmetry
VIEW WhatMatters
INVARIANTS
  RTypeOK
  OneWorkerUnlessStale
  OpenIsTracked
  TableIsLive
