CONSTANTS
  a1 = a1
  a2 = a2
  m1 = m1
  m2 = m2
  NoExit = NoExit
  Banks <- MCBanks
  Vals <- MCVals
  Tracing = TRUE
  AutoCallers <- MCAutoCallers
  ManualCallers <- MCManualCallers
  Exits <- RunningGuestExits

SPECIFICATION Spec

INVARIANT TypeOK
INVARIANT PausedMeansParked
INVARIANT CacheCoherentWhileHeld
INVARIANT LoaderWritesKept
PROPERTY AutoPauseTerminates
PROPERTY ResumeAfterUnpause
PROPERTY ImplementsPauseSpec
