SPECIFICATION Spec
CONSTANTS
  AddrBits = 6
  PageSize = 4
  NoCall = NoCall
  Configs <- BootConfigs
  Loads <- FittingLoads
INVARIANT TypeOK ReturnedChunksDisjoint ReturnedInUserMemory
CHECK_DEADLOCK FALSE
