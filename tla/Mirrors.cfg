\* Two clients, one channel, one scene and one lamp.
SPECIFICATION Spec
CONSTANTS
  a = a
  b = b
  Clients = {a, b}
  Channels = {c1}
  Scenes = {s1}
  Lamps = {l1}
  Outside = Outside
  Window = 2
  MaxEvents = 5
  MaxRestarts = 1
INVARIANTS ClientsAgree RecordingsWrite
SYMMETRY Symmetric
CHECK_DEADLOCK FALSE
