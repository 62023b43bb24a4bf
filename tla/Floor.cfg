SPECIFICATION Spec
CONSTANTS
  u1 = u1  u2 = u2  t1 = t1  t2 = t2  t3 = t3  c1 = c1  c2 = c2
  Anyone = Anyone
  Gone = Gone
  None = None
  DirectCall = DirectCall
  Ifb = Ifb
  RequestsMayFail = TRUE
  Users = {u1, u2}
  Channels = {c1, c2}
  Tokens = {t1, t2}
  Owner <- TwoOwners
  Grants <- AdminGrants
  Sources <- AnyoneTalks
  CallIds = {}
  SignalIds = {}
  MaxUsers = 0
INVARIANTS PermissionsRespected PageSilencesOthers ClientsInSync MediaInSync ChannelAudioPermitted
PROPERTIES FloorDiscipline
SYMMETRY DeskSymmetry
CHECK_DEADLOCK FALSE
