-------------------------- MODULE MCDeviceLifecycle --------------------------
(* DeviceLifecycle for TLC. *)
EXTENDS DeviceLifecycle

AllSteps == Steps
==============================================================================
