SPECIFICATION FairSpec
CONSTANTS
  Browsers = {b1, b2}
  None = None
  MaxBroadcasts = 1
INVARIANTS
  TypeOK
  OwnersKeepTheirSockets
  ListIsOfOpenSockets
  
PROPERTIES
  ConnectionsEnd
  
CHECK_DEADLOCK FALSE
