SPECIFICATION Spec
CONSTANTS
  Browsers = {b1}
  None = None
  MaxBroadcasts = 1
INVARIANTS
  ListedKnowDevice
CHECK_DEADLOCK FALSE
