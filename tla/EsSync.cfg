\* One administrator, one job at a time, two devices, pages of two readings, and a
\* restart or a failing call.
SPECIFICATION Spec
CONSTANTS
    Devices = {d1, d2}
    Slots = {s1}
    Jobs = {j1}
    Froms = {1}
    Tos = {0, 3}
    PageSize = 2
    FirstTime = 2
    MaxTime = 3
    MaxEvents = 2
    MaxMishaps = 1
SYMMETRY Symmetry
INVARIANTS LiveWhenEnabled
PROPERTIES HistoryCopied
CHECK_DEADLOCK FALSE
