SPECIFICATION ConnectionFairSpec
CONSTANTS
  Size = 4
  NULL = NULL
  Blocks = 6
  Windows = {3, 6}
INVARIANTS
  InOrder
PROPERTIES
  NothingLostOnLeave
  RequestsAnswered
CHECK_DEADLOCK FALSE
