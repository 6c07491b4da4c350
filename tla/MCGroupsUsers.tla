----------------------------- MODULE MCGroupsUsers -----------------------------
(* Instances of GroupsUsers for TLC. *)
EXTENDS GroupsUsers, TLC

Symmetry == Permutations(Groups \ {Root}) \cup Permutations(Permissions \ {Full})
            \cup Permutations(Codes) \cup Permutations(Requests)
=============================================================================
