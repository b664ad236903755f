SPECIFICATION FairSpec
CONSTANTS
  Browsers = {b1}
  None = None
  MaxBroadcasts = 1
PROPERTIES
  StopReturns
CHECK_DEADLOCK FALSE
