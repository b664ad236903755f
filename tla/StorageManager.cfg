SPECIFICATION FairSpec
CONSTANTS
  Capacity = 2
  SilentFailures = FALSE
  MaxPackets = 5
  MaxErrors = 2
  MaxRestarts = 2
INVARIANTS
  TypeOK
  InOrder
  Accounting
  NothingLeftBehind
  CountersHonest
  HeaderFirst
PROPERTIES
  
  StopCompletes
  FlushesHappen
