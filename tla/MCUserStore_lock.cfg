SPECIFICATION FairLockSpec
CONSTANTS
  Threads = {t1, t2}
  Names = {a, b}
  Capacity = 2
  Size = 4
  Burst = 2
  MaxStarts = 1
  MaxCrashes = 0
  NoThread = NoThread
  NULL = 0
PROPERTIES LoginAnswered
CHECK_DEADLOCK FALSE
