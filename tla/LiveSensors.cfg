\* Two devices, two projects, two callbacks at once; two changes, two messages, one fault.
SPECIFICATION Spec
CONSTANTS
    Devices = {d1, d2}
    Projects = {p1, p2}
    Values = {0, 1}
    Faulty = 0
    Text = 1
    Handlers = {h1, h2}
    MaxChanges = 2
    MaxMessages = 2
    MaxFaults = 1
    None = None
SYMMETRY Symmetry
INVARIANTS MembersHeard OnlyMembersHeard
PROPERTY ImplementsLastValues
CHECK_DEADLOCK FALSE
