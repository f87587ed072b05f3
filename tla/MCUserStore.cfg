SPECIFICATION FairSpec
CONSTANTS
  Threads = {t1, t2}
  Names = {a, b, c}
  Capacity = 2
  Size = 4
  Burst = 3
  MaxStarts = 3
  MaxCrashes = 1
  NoThread = NoThread
  NULL = 0
INVARIANTS  StoredOnce MetaNotAhead
PROPERTIES EverySaved
CHECK_DEADLOCK FALSE
