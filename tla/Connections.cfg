SPECIFICATION FairSpec
CONSTANTS
  u1 = u1  t1 = t1  t2 = t2
  None = None
  Sockets = {s1, s2}
  Users = {u1}
  Tokens = {t1}
  Owner <- OneOwner
  MaxUsers = 0
  MaxQueue = 1
INVARIANTS TypeOK NoGhostSession ConnectionsAreRevocable ShutdownDetachesAll
PROPERTIES DeadPeersLeave AbandonedSessionsEnd
CHECK_DEADLOCK FALSE
