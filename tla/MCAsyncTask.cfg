SPECIFICATION FairSpec
CONSTANTS
  Awaited = {t1}
  Detached = {t2, t3}
  Workers = {w1, w2}
  NoTask = NoTask
INVARIANTS
  StacksExclusive
  NotFreedEarly
PROPERTIES
  AwaitReturns
CHECK_DEADLOCK FALSE
