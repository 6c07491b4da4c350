------------------------------- MODULE MCEsSync -------------------------------
(* Instances of EsSync for TLC. *)
EXTENDS EsSync, TLC

Symmetry == Permutations(Devices) \cup Permutations(Jobs) \cup Permutations(Slots)
=============================================================================
