SPECIFICATION FairSpec
CONSTANTS
  Threads = {t1, t2}
  Users = {u1, u2}
  Capacity = 2
  Timeout = 2
  MaxLogins = 3
  NoUser = NoUser
INVARIANTS  TableSound RefsCount IdNamesItsUser
PROPERTIES SessionsExpire
CHECK_DEADLOCK FALSE
