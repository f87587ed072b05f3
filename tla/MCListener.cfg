SPECIFICATION FairSpec
CONSTANTS
  MaxConnections = 4
  Timeout = 2
  Fds = {f1, f2, f3, f4}
  NoFd = NoFd
INVARIANTS
  TablesAgree
  EveryConnectionPolled
  StopClosesAll
PROPERTIES
  IdleConnectionsClosed
CHECK_DEADLOCK FALSE
