SPECIFICATION FairSpec
CONSTANTS
  Size = 2
  NULL = NULL
  NoThread = NoThread
  Poppers = {c1, c2}
  Pushers = {c2, p1}
  Items = {a, b}
INVARIANTS
  NoLostWakeup
  PendingIsSleepers
PROPERTIES
  ImplementsFifo
  DestroyReturns
  ItemsAreTaken
CHECK_DEADLOCK FALSE
