SPECIFICATION Spec
CONSTANTS
  u1 = u1  u2 = u2  t1 = t1  t2 = t2  t3 = t3  c1 = c1  c2 = c2
  Anyone = Anyone
  Gone = Gone
  None = None
  DirectCall = DirectCall
  Ifb = Ifb
  RequestsMayFail = FALSE
  Users = {u1, u2}
  Channels = {c1}
  Tokens = {t1, t2, t3}
  Owner <- ThreeOwners
  Grants <- EditedGrants
  Sources <- AnyoneTalks
  CallIds = {}
  SignalIds = {}
  MaxUsers = 2
INVARIANTS PermissionsRespected CapacityRespected CachesFresh
SYMMETRY TokenSymmetry
CHECK_DEADLOCK FALSE
