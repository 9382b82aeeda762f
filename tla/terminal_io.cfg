SPECIFICATION FairSpec
CONSTANTS
  Q_LEN = 2
  Keys = {CR, k}
  CR = CR
  LF = LF
  JUNK = JUNK
  NONE = NONE
  x = x
  TYPE_AHEAD = 2
  MAX_LIMIT = 0
  Lines <- MCLines
INVARIANTS
  TXSpace
  RXCount
PROPERTIES
  OutputDone
  InputDone
