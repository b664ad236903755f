SPECIFICATION FairSpec
CONSTANTS
  Clients = {p1, p2}
  NoClient = NoClient
  MaxMessages = 2
  EarlySignal = TRUE
  SilentPeers = TRUE
INVARIANTS
  TypeOK
  NothingSkipped
  NoLeakedConnection
  AtMostOneAfterStop
PROPERTIES
  NoCallbackAfterJoin
  FinishedPublishersHeard
  StopEndsRunMostly
CHECK_DEADLOCK FALSE
