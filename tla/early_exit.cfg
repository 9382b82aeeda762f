SPECIFICATION FairShellSpec
CONSTANTS
  MAX_PROC_NUM = 7
  Q_LEN = 7
  BOOT_PROCS = 6
  SEM_COUNT = 1
  TIME_LIMIT = 1
  CLOCK_MOD = 1
  MAX_LIMIT = 0
  DRAM_PAGE_COUNT = 12
  FORK_PAGES = 5
  TouchedSlots = {1, 2}
  DATA = DATA
  SleepTicks = {0}
  SemLimits = {0}
  Data <- Payload
  NoMsg = NoMsg
  Garbage = Garbage
  Calls = {"GetPid", "Sleep", "MsgSnd", "MsgRcv", "Fork", "Wait", "Exit", "PageFault"}
  ReapsZombies = TRUE
  MAX_FD = 1
  CHUNK = 100
  BIN_SIZE = 200
  dirs <- Preloaded
  root_dir = "root_dir"
  Prefixes <- BeginningsOf
  SLASH = "/"
  NULL = NULL
  Lines <- TestLines
  Leftovers = {1}
  Remains <- MCRemains
  TEXT = TEXT
INVARIANTS
  OneAtATime
  ChildEnded
  

  
