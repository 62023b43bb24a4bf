SPECIFICATION FairSpec
CONSTANTS
  u1 = u1  u2 = u2  t1 = t1  t2 = t2  t3 = t3  c1 = c1  c2 = c2
  Anyone = Anyone
  Gone = Gone
  None = None
  DirectCall = DirectCall
  Ifb = Ifb
  RequestsMayFail = FALSE
  Users = {u1, u2}
  Channels = {}
  Tokens = {t1, t2}
  Owner <- TwoOwners
  Grants <- AdminGrants
  Sources <- AnyoneTalks
  CallIds = {k1}
  SignalIds = {s1}
  MaxUsers = 0
INVARIANTS TimeoutsUnderWay SignalSendersOnline
PROPERTIES RingingEnds
CHECK_DEADLOCK FALSE
