SPECIFICATION FairSpec
CONSTANTS
  IntMod = 1048576
  SizeMod = 16777216
  Starts <- MCStarts
  NoiseLimit = 10000
  MaxPackets = 2
  MaxDrops = 1
  MaxSubDrops = 1
  Codes = {0, 5}
INVARIANTS
  TypeOK
  ClientReportsTruthfully
  OrderlyDelivery
PROPERTIES
  SubscribesAgain
  SignalEndsClient
CHECK_DEADLOCK FALSE
