SPECIFICATION FairSpec
CONSTANTS
  IntMod = 1048576
  SizeMod = 16777216
  MaxEntries = 3
  U32 = 8
  TimeMod = 16777216
  GapThreshold = 2
  Missing = Missing
  NotANumber = NotANumber
  Inputs <- MCInputs
  MemoryLimit = 1000000
  ScaleG = 10
  StartPositions = {0, 6}
  MaxPackets = 4
  MaxClock = 2
  MaxSteps = 1
INVARIANTS
  TypeOK
  ResolvedIsUsable
  LossIsExact
  
  StatsKeepComing

  
  
CHECK_DEADLOCK FALSE
