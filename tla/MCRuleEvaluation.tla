--------------------------- MODULE MCRuleEvaluation ---------------------------
(* Instances of RuleEvaluation for TLC. *)
EXTENDS RuleEvaluation

UpTo(n, S) == UNION {[1..m -> S] : m \in 1..n}

Conditions == {[operator |-> "GREATER", value |-> <<1>>],
               [operator |-> "IS_ONE_OF", value |-> <<1, 2>>],
               [operator |-> "CONTAIN", value |-> <<1>>]}

Readings == {[type |-> "GAUGE", value |-> 2, age |-> 9], [type |-> "TEXT", value |-> 1, age |-> 9],
             [type |-> "TEXT", value |-> 3, age |-> 0], [type |-> "MISSING", value |-> 0, age |-> 0]}

\* Every trigger of up to two conditions and two devices, with every logic.
AnyTrigger ==
    [logic : {"AND", "OR", "NONE"}, conditions : UpTo(2, Conditions), devices : UpTo(2, Readings)]

\* Triggers of one condition, to be combined.
PlainTrigger ==
    [logic : {"NONE"}, conditions : [1..1 -> {c \in Conditions : c.operator # "CONTAIN"}],
     devices : UpTo(2, {d \in Readings : d.age = 9 \/ d.type = "MISSING"})]

\* A condition with each operator on a sensor of each type.
EveryOperator ==
    [logic : {"NONE"}, conditions : [1..1 -> [operator : Operators, value : {<<1>>, <<1, 2>>}]],
     devices : [1..1 -> [type : {"GAUGE", "TEXT", "SWITCH", "SNAPSHOT"}, value : 0..3, age : 0..2]]]

Always == [start |-> 1, end |-> 4, weekdays |-> 1..7, from |-> 0, to |-> 1439]

AtNoon == [day |-> 2, weekday |-> 3, minute |-> 720]

Deciding1(ts, logics) ==
    {[rule |-> [if |-> if, logic |-> logic, effectiveAt |-> Always], now |-> AtNoon] :
        if \in ts, logic \in logics}

\* Every season of a year of four days, hours around midnight, two weekdays.
Moments ==
    {[rule |-> [if |-> <<>>, logic |-> "NONE",
                effectiveAt |-> [start |-> s, end |-> e, weekdays |-> {1, 7}, from |-> f, to |-> t]],
      now |-> [day |-> d, weekday |-> w, minute |-> m]] :
        s \in 0..4, e \in 0..4, f \in {5, 1439}, t \in {5, 1439},
        d \in 1..4, w \in {1, 2}, m \in {4, 5, 6, 1439}}

MCInputs ==
    Deciding1([1..1 -> AnyTrigger], {"NONE"})
    \cup Deciding1([1..2 -> PlainTrigger], {"AND", "OR"})
    \cup Deciding1([1..1 -> EveryOperator], {"NONE"})
    \cup Moments

MCIncluded == {<<1, 1>>, <<3, 1>>}
=============================================================================
