------------------------------ MODULE MCVMPause ------------------------------
(* Two vCPUs as model values; RPC.VCPU is called for the first one.         *)
EXTENDS VMPause

CONSTANTS v1, v2

MCVCPUOrder == <<v1, v2>>
=============================================================================
