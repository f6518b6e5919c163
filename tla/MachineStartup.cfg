\* Start-up of a machine whose vCPUs InitRunInfo set running.
CONSTANTS
  v1 = v1
  v2 = v2
  d1 = d1
  d2 = d2
  NoVCPU = NoVCPU
  NoExit = NoExit
  NoActor = NoActor
  VCPUOrder <- MCVCPUOrder
  DeviceOrder <- MCDeviceOrder
  StartPaused = FALSE
  InitRunning = TRUE
  DeviceRPC = FALSE
  MaxPaused = 4
  FreshBoot = TRUE
  MaxRestarts = 0
SPECIFICATION Spec
CHECK_DEADLOCK FALSE
PROPERTIES
  StartupCompletes
