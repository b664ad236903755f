SPECIFICATION FairSpec
CONSTANTS
  a = a
  b = b
  c1 = c1
  c2 = c2
  empty = empty
  Items <- MCItems
  Consumers <- MCConsumers
  Capacity = 3
  Empty <- empty
INVARIANTS
  TypeOK
  IndicesAgree
  LiveSlotsWritten
  NoLostWakeup
PROPERTIES
  ImplementsQueue
  StopUnblocks
