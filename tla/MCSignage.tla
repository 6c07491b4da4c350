------------------------------ MODULE MCSignage ------------------------------
(* Signage for TLC: two contents, one of two kinds, which gets two details, the other     *)
(* empty; a change of two contents (or of one, twice) that replaces the weather and       *)
(* empties the media of the first, and empties the weather of the second.                 *)
EXTENDS Signage, TLC

CONSTANTS r1, r2, m1
MCTypes == {"A"}
MCDrafts == {<<[rect |-> "rect2", kinds |-> {"weather", "media"}], [rect |-> "rect3", kinds |-> {}]>>}
MCChanges == {<<[rect |-> "rect3", kinds |-> {"weather"}, clear |-> {"media"}],
                [rect |-> "rect2", kinds |-> {}, clear |-> {"weather"}]>>}
MCCalendars == {[months |-> {1}, days |-> {31}]}
MCSymmetry == Permutations(Requests)
==============================================================================
