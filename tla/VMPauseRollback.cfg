\* VCPUInfo, RPC.Pause and RPC.VCPU pausing two vCPUs, with kvm_run_interrupt
\* allowed to fail.
CONSTANTS
  v1 = v1
  v2 = v2
  NoCaller = NoCaller
  VCPUOrder <- MCVCPUOrder
  VCPUTarget = 1
SPECIFICATION Spec
INVARIANT
  FailedPauseUndone
