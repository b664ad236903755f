SPECIFICATION Spec
CONSTANTS
  Capacity = 2
  SilentFailures = TRUE
  MaxPackets = 3
  MaxErrors = 1
  MaxRestarts = 1
INVARIANTS
  HeaderFirst
