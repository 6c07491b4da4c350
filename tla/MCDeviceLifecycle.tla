-------------------------- MODULE MCDeviceLifecycle --------------------------
(* Instances of DeviceLifecycle for TLC. *)
EXTENDS DeviceLifecycle, TLC

Symmetry == Permutations(Groups) \cup Permutations(Requests) \cup Permutations(SensorIds)
=============================================================================
