\* Snapshots, RPC.Device requests and a SIGHUP restart on a running machine
\* with two vCPUs and one device.
CONSTANTS
  v1 = v1
  v2 = v2
  d1 = d1
  d2 = d2
  NoVCPU = NoVCPU
  NoExit = NoExit
  NoActor = NoActor
  VCPUOrder <- MCVCPUOrder
  DeviceOrder <- MCOneDevice
  StartPaused = FALSE
  InitRunning = FALSE
  DeviceRPC = TRUE
  MaxPaused = 4
  FreshBoot = TRUE
  MaxRestarts = 1
SPECIFICATION Spec
INVARIANTS
  TypeOK
  SnapshotQuiescent
PROPERTIES
  PausesCompleteAlone
