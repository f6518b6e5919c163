CONSTANTS
  a1 = a1
  a2 = a2
  a3 = a3
  m1 = m1
  m2 = m2
  h1 = h1
  h2 = h2
  h3 = h3
  NoThread = NoThread
  AutoCallers <- MCAutoCallers
  ManualCallers <- MCManualCallers
  Handlers <- MCHandlers
  MaxPaused = 8

SPECIFICATION Spec

INVARIANT TypeOK
INVARIANT StopTheWorld
INVARIANT NoUnlockOfUnlocked
PROPERTY PauseTerminates
