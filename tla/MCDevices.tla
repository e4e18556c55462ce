----------------------------- MODULE MCDevices -----------------------------
(* Devices of every kind, for TLC.                                         *)
EXTENDS Devices
=============================================================================
