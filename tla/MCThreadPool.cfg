SPECIFICATION FairSpec
CONSTANTS
  Size = 2
  NULL = NULL
  Workers = {w1, w2}
  Clients = {main}
  Jobs = {listener, r1, r2, r3}
  LongJobs = {listener}
  Spawners = {listener}
INVARIANTS
  OneOwner
  JobsInOrder
  NoLateCaller
PROPERTIES
  EveryJobStarts
  DestroyReturns
CHECK_DEADLOCK FALSE
