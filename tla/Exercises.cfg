SPECIFICATION XFairSpec
CONSTANTS
  Clients = {c1, c2, c3}
  PoolSize = 2
  NoClient = NoClient
  Inf = Inf
  Items <- MCItems
  MaxLength = 5
  Values <- MCValues
  KeySeqs <- MCKeySeqs
  MaxPushes = 4
  MaxNodes = 4
\* The programs end.
CHECK_DEADLOCK FALSE
INVARIANTS
  OneInstance
  PoolConserved
  SortsAgree
  TreesSound
  TraversalsSound
  StackSound
PROPERTIES
  ProgramsEnd
