SPECIFICATION FairSpec
CONSTANTS
  Workers = {w1, w2}
  Main = main
  Conns = {c1, c2}
  Bulky = {c1}
  Wrapping = {c1,c2}
  MaxFd = 1
  ReuseFds = FALSE
  NoConn = NoConn
\* Clients may fall silent for good.
CHECK_DEADLOCK FALSE
PROPERTIES
  DataIsRead
  AnswerIsSent
  GoneIsClosed
