------------------------------ MODULE MCVCPURun ------------------------------
(* Two automatic pausers and two RPC.VCPU callers against one vCPU.        *)
EXTENDS VCPURun

CONSTANTS a1, a2, m1, m2

MCAutoCallers == {a1, a2}
MCManualCallers == {m1, m2}
(* A guest that keeps running: its exits are I/O and debug traps.          *)
RunningGuestExits == {"mmio", "debug"}
(* A guest that can also shut its vCPU down or fault.                      *)
AllGuestExits == {"mmio", "debug", "shutdown", "internal_error"}
(* The two register files, with two possible contents each: enough for a   *)
(* cached copy to differ from what KVM holds.                              *)
MCBanks == {"regs", "sregs"}
MCVals == {0, 1}
=============================================================================
