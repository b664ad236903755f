SPECIFICATION FairSpec
CONSTANTS
  Clients = {p1}
  NoClient = NoClient
  MaxMessages = 1
  EarlySignal = TRUE
  SilentPeers = FALSE
PROPERTIES
  StopEndsRun
CHECK_DEADLOCK FALSE
