SPECIFICATION FairSpec
CONSTANTS
  Clients = {p1}
  NoClient = NoClient
  MaxMessages = 1
  EarlySignal = FALSE
  SilentPeers = TRUE
PROPERTIES
  StopEndsRun
CHECK_DEADLOCK FALSE
