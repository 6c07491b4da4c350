\* A lamp post with a device attached.
SPECIFICATION Spec
CONSTANTS
    lamp = lamp
    p1 = p1
    Devices = {lamp, c1}
    Projects = {p1}
    Parent <- MCParent
    Places <- MCPlaces
    Staff = {u1}
    Order = "device"
    MaxMessages = 2
    MaxFaults = 1
    None = None
INVARIANTS StatusStored RelatedExact LoggedAreMailed InfoFollows
CHECK_DEADLOCK FALSE
