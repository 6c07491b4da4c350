\* Requests on different rules, messages, jobs and restarts interleave.
SPECIFICATION Spec
CONSTANTS
    d1 = d1
    d2 = d2
    p1 = p1
    Rules = {r1, r2}
    Devices = {d1, d2}
    ProjectOf <- MCProjectOf
    Users = {u1}
    Slots = {s1, s2}
    Triggers = {t1, t2, t3}
    Actions = {a1, a2}
    Inputs <- MCInputs
    MaxQueue = 1
    MaxEvents = 3
    Exclusive = TRUE
SYMMETRY Symmetry
INVARIANTS CountsExact RuleHeard NothingLeftOver
PROPERTIES JobFailureExplained
CHECK_DEADLOCK FALSE
