------------------------------ MODULE LastValues ------------------------------
(***************************************************************************)
(* What a live statistic of a group promises, whatever the clients, topics *)
(* and change events behind it: it follows the devices of the group, keeps *)
(* the last value each of them sent, and shows after every value a summary *)
(* of exactly these.  LiveSensors implements it.                           *)
(***************************************************************************)
EXTENDS Naturals, FiniteSets, Functions

CONSTANTS
  Devices, Projects,
  Values,    \* readings; for the proper rate, statuses
  Faulty,    \* the status ERROR, among the values
  Text,      \* the text that is counted, among the values
  None

VARIABLES
  kind,      \* which statistic
  members,   \* the devices followed, with the project each is heard through
  last,      \* the last value of each member that sent one
  shown      \* the summary shown, None before the first

vars == <<kind, members, last, shown>>

Nothing == [d \in {} |-> 0]

Members == UNION {[S -> Projects] : S \in SUBSET Devices}

\* The summaries that may be shown of the values f; two devices may share an extreme.
Summaries(k, f) ==
  CASE k = "max" -> {<<d, f[d]>> : d \in {d \in DOMAIN f : \A e \in DOMAIN f : f[e] <= f[d]}}
    [] k = "min" -> {<<d, f[d]>> : d \in {d \in DOMAIN f : \A e \in DOMAIN f : f[d] <= f[e]}}
    [] k = "count" -> {<<Cardinality({d \in DOMAIN f : f[d] = Text})>>}
    [] k = "rate" -> {<<Cardinality(DOMAIN f), Cardinality({d \in DOMAIN f : f[d] = Faulty})>>}
    [] OTHER -> {}

Init ==
  /\ kind \in {"max", "min", "count", "rate"}
  /\ members \in Members /\ last = Nothing /\ shown = None

\* The devices of the group have changed; a value of a device that left is forgotten.
Follow ==
  /\ members' \in Members
  /\ last' = Restrict(last, DOMAIN last \cap DOMAIN members')
  /\ UNCHANGED <<kind, shown>>

Hear(d, v) ==
  /\ d \in DOMAIN members
  /\ last' = [e \in DOMAIN last \cup {d} |-> IF e = d THEN v ELSE last[e]]
  /\ shown' \in Summaries(kind, last')
  /\ UNCHANGED <<kind, members>>

Next == Follow \/ \E d \in Devices, v \in Values : Hear(d, v)

Spec == Init /\ [][Next]_vars
===============================================================================
