\* Both clients, a channel and a confidence channel, a reconnection, three operations
\* or events.
SPECIFICATION Spec
CONSTANTS
  Devices <- Both
  Channels = {c1, c2}
  Confidence = {c2}
  Storages <- NoneOrOne
  MaxLogins = 1
  MaxSockets = 2
  MaxEvents = 3
INVARIANTS OneConnection MicShown LinesShown SelectionRestored MobileShut ConfidenceHeard
CHECK_DEADLOCK FALSE
