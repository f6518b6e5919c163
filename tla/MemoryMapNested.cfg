SPECIFICATION Spec
CONSTANTS
  AddrBits = 6
  PageSize = 4
  NoCall = NoCall
  Configs <- NestedConfigs
  Loads <- FittingLoads
INVARIANT NoRegionOverlap
CHECK_DEADLOCK FALSE
