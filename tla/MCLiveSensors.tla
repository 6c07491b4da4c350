---------------------------- MODULE MCLiveSensors -----------------------------
(* Instances of LiveSensors for TLC. *)
EXTENDS LiveSensors, TLC

Symmetry == Permutations(Devices) \cup Permutations(Projects) \cup Permutations(Handlers)
===============================================================================
