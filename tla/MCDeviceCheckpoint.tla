-------------------------- MODULE MCDeviceCheckpoint --------------------------
(* Instances of DeviceCheckpoint for TLC. *)
EXTENDS DeviceCheckpoint, TLC

CONSTANTS t1, t2, me, you
=============================================================================
