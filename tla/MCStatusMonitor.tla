--------------------------- MODULE MCStatusMonitor ----------------------------
(* Instances of StatusMonitor for TLC. *)
EXTENDS StatusMonitor

CONSTANTS lamp, p1

\* Devices attached to a lamp post.
MCParent == [d \in Devices |-> IF d = lamp THEN None ELSE lamp]

\* All in one project, or the lamp post in no group.
MCPlaces == {[d \in Devices |-> p1], [d \in Devices |-> IF d = lamp THEN None ELSE p1]}
===============================================================================
