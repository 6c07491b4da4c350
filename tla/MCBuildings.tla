----------------------------- MODULE MCBuildings ------------------------------
(* Instances of Buildings for TLC. *)
EXTENDS Buildings, TLC

MCSymmetry == Permutations(Devices) \cup Permutations(Images) \cup Permutations(Buildings)

\* Bound: where operations overlap, which is about the plans only, no devices are placed.
PlansOnly == serial \/ (used = {} /\ \A j \in jobs : Touched(j) = {})
===============================================================================
