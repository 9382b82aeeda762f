SPECIFICATION Spec
CONSTANTS
  Q_LEN = 2
  Keys = {CR}
  CR = CR
  LF = LF
  JUNK = JUNK
  NONE = NONE
  x = x
  TYPE_AHEAD = 3
  MAX_LIMIT = 3
  Lines <- MCLine
INVARIANTS
  TypeOK
  NoStall
  NeverGarbled
