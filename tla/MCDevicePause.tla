---------------------------- MODULE MCDevicePause ----------------------------
(* Three Model.DeviceInfo callers, two RPC.Device callers, three IOHandlers. *)
EXTENDS DevicePause

CONSTANTS a1, a2, a3, m1, m2, h1, h2, h3

MCAutoCallers == {a1, a2, a3}
MCManualCallers == {m1, m2}
MCHandlers == {h1, h2, h3}
=============================================================================
