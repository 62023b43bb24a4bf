\* A web client that talks, a mobile one that reconnects and starts again, one worker
\* death; answers may come late.
SPECIFICATION Spec
CONSTANTS
  web = web  mobile = mobile  c1 = c1  c2 = c2
  Users = {web, mobile}
  Mobile = {mobile}
  Channels = {c1}
  Listens <- ListensMC
  MaxTalks <- Talks
  MaxDeaths = 1
  MaxStarts <- Starts
  MaxLinks <- Links
  Slow = TRUE
INVARIANTS MediaTypeOK SettledRoutes ReadyIsReal RoutedAreHeard
CHECK_DEADLOCK FALSE
