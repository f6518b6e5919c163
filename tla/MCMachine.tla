------------------------------ MODULE MCMachine ------------------------------
(* Two vCPUs and two devices, as model values; MCOneDevice is the machine  *)
(* with d1 alone.                                                          *)
EXTENDS Machine

CONSTANTS v1, v2, d1, d2

MCVCPUOrder == <<v1, v2>>
MCDeviceOrder == <<d1, d2>>
MCOneDevice == <<d1>>
=============================================================================
