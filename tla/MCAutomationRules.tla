-------------------------- MODULE MCAutomationRules --------------------------
(* Instances of AutomationRules for TLC: two devices of one project. *)
EXTENDS AutomationRules, TLC

CONSTANTS d1, d2, p1

MCProjectOf == (d1 :> p1) @@ (d2 :> p1)

\* One trigger on one device; two triggers that share a device.
MCInputs == {{{d1}}, {{d1}, {d1, d2}}}

Symmetry == Permutations(Rules) \cup Permutations(Slots) \cup Permutations(Triggers)
            \cup Permutations(Actions) \cup Permutations(Users)
=============================================================================
