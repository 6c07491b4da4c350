\* One request to add history; the platform fails in the middle of it.
SPECIFICATION Spec
CONSTANTS
    Devices = {d1}
    Slots = {s1}
    Jobs = {j1}
    Froms = {1}
    Tos = {0}
    PageSize = 2
    FirstTime = 3
    MaxTime = 3
    MaxEvents = 1
    MaxMishaps = 1
PROPERTIES FailureUndone
CHECK_DEADLOCK FALSE
