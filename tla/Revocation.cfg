SPECIFICATION FairSpec
CONSTANTS
  u1 = u1  u2 = u2  t1 = t1  t2 = t2  t3 = t3  c1 = c1  c2 = c2
  Anyone = Anyone
  Gone = Gone
  None = None
  DirectCall = DirectCall
  Ifb = Ifb
  RequestsMayFail = FALSE
  Users = {u1, u2}
  Channels = {c1, c2}
  Tokens = {t1}
  Owner <- OneOwner
  Grants <- EditedGrants
  Sources <- RemoteFeed
  CallIds = {}
  SignalIds = {}
  MaxUsers = 0
PROPERTIES RevokedTalkCloses
CHECK_DEADLOCK FALSE
