SPECIFICATION Spec
CONSTANTS
  Browsers = {b1, b2}
  None = None
  MaxBroadcasts = 1
INVARIANTS
  FramesOnlyAfterUpgrade
CHECK_DEADLOCK FALSE
