SPECIFICATION FairSpec
CONSTANTS
  Workers = {w1, w2, w3}
  Clients = {c1, c2}
  Owner = owner
  Tasks = {t1, t2, p1}
  Posted = {p1}
  NoTask = NoTask
  NoThread = NoThread
  MaxSpurious = 1
\* A destroyed pool stops; a thread that hangs is left to the properties.
CHECK_DEADLOCK FALSE
INVARIANTS
  EnoughWakeUps
  DrainedWhenDestroyed
PROPERTIES
  AcceptedEnds
  DtorReturns
  ImplementsExecutor
