SPECIFICATION CFairSpec
CONSTANTS
  Byte <- MCByte
  Blank = Blank
  Prepend = 1
  Scripts <- MCScripts
  HeadLen = 2
  AnswerHead = 2
  AnswerBody = 1
  InitialSize = 2
  Extra = 2
  Room = 2
  Piece = 3
  Width = 4
\* A client may fall silent for good.
CHECK_DEADLOCK FALSE
INVARIANTS
  CTypeOK
  BytesConserved
  AnswersInOrder
  ClosedWhenDone
  ArmedForRest
PROPERTIES
  RequestAnswered
