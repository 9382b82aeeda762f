SPECIFICATION Spec
CONSTANTS
  MAX_PROC_NUM = 4
  Q_LEN = 4
  BOOT_PROCS = 2
  SEM_COUNT = 1
  TIME_LIMIT = 1
  CLOCK_MOD = 1
  MAX_LIMIT = 0
  DRAM_PAGE_COUNT = 5
  FORK_PAGES = 2
  SleepTicks = {0}
  SemLimits = {0}
  Data = {d1}
  NoMsg = NoMsg
  Garbage = Garbage
  Calls = {"GetPid", "StartProc", "Fork", "Wait", "Exit", "PageFault"}
  ReapsZombies = FALSE
INVARIANTS
  OnePlace
  PagesHeld
  TableOwned
  NoLostExit
PROPERTIES
  WaitReturnsChild
