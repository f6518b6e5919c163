\* A supervisor restart (SIGHUP) of a machine restored from a state file.
CONSTANTS
  v1 = v1
  v2 = v2
  d1 = d1
  d2 = d2
  NoVCPU = NoVCPU
  NoExit = NoExit
  NoActor = NoActor
  VCPUOrder <- MCVCPUOrder
  DeviceOrder <- MCDeviceOrder
  StartPaused = FALSE
  InitRunning = FALSE
  DeviceRPC = FALSE
  MaxPaused = 4
  FreshBoot = FALSE
  MaxRestarts = 1
SPECIFICATION Spec
INVARIANT
  RestartSavesOneInstant
