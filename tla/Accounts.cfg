\* Two admins and their screens, a group, one seeded channel.
SPECIFICATION Spec
CONSTANTS
  a = a
  b = b
  Roles = {"admin", "user"}
  Offers <- Duties
  Typed <- Demotions
  u1 = u1
  u2 = u2
  u3 = u3
  g1 = g1
  alice = alice
  bob = bob
  team = team
  stage = stage
  foh = foh
  None = None
  Users = {u1, u2, u3}
  UserNames = {alice, bob}
  ChannelNames = {stage}
  Groups = {g1}
  GroupNames = {team}
  Seeds = {stage}
  MaxChannels = 1
  Consoles = {a, b}
  Starts <- Each
  MaxTokens = 2
  MaxChanges = 2
  MaxPushes = 1
  MaxRestarts = 1
INVARIANTS AccountsTypeOK AdminRemains RowsRefer GrantsShown
CHECK_DEADLOCK FALSE
