SPECIFICATION Spec
CONSTANTS
  Q_LEN = 3
  Pids = {1, 2}
  Msgs = {m1, m2}
  NULL = NULL
  Blank = Blank
PROPERTIES
  PidQueueImplements
  MsgQueueImplements
