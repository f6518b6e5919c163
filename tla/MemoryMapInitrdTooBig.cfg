SPECIFICATION Spec
CONSTANTS
  AddrBits = 6
  PageSize = 4
  NoCall = NoCall
  Configs <- BootConfigs
  Loads <- OversizedLoads
INVARIANT NoPanic
CHECK_DEADLOCK FALSE
