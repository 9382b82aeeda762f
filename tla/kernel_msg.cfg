SPECIFICATION Spec
CONSTANTS
  MAX_PROC_NUM = 3
  Q_LEN = 3
  BOOT_PROCS = 2
  SEM_COUNT = 1
  TIME_LIMIT = 1
  CLOCK_MOD = 1
  MAX_LIMIT = 0
  DRAM_PAGE_COUNT = 3
  FORK_PAGES = 1
  SleepTicks = {0}
  SemLimits = {0}
  Data = {d1}
  NoMsg = NoMsg
  Garbage = Garbage
  Calls = {"MsgSnd", "MsgRcv", "Fork", "Wait", "Exit"}
  ReapsZombies = TRUE
INVARIANTS
  NoLostWakeup
  NoLostExit
