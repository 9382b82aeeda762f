SPECIFICATION FairSpec
CONSTANTS
  MAX_PROC_NUM = 4
  Q_LEN = 4
  BOOT_PROCS = 3
  SEM_COUNT = 1
  TIME_LIMIT = 2
  CLOCK_MOD = 2
  MAX_LIMIT = 1
  DRAM_PAGE_COUNT = 0
  FORK_PAGES = 1
  SleepTicks = {0, 1}
  SemLimits = {0}
  Data = {d1}
  NoMsg = NoMsg
  Garbage = Garbage
  Calls = {"Sleep", "StartProc", "SemGet", "SemWait", "SemPost", "IRQ3", "IRQ7"}
  ReapsZombies = FALSE
INVARIANTS
  TypeOK
  OnePlace
  NoLostWakeup
PROPERTIES
  OnTime
  RoundRobin
  ReadyRuns
  SleeperRuns
