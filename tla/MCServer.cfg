SPECIFICATION FairSpec
CONSTANTS
  Clients = {c1, c2, c3}
  Entries = {1, 2}
  MaxTasks = 3
  Listener = Listener
  SessionTask = SessionTask
  Nobody = Nobody
INVARIANT HarmNeedsOvertaking
PROPERTIES CleanExit StopReturns
CHECK_DEADLOCK FALSE
