\* One request or cron run at a time, restarts included.
SPECIFICATION FairSpec
CONSTANTS
    Devices = {dev}
    Groups = {g1, g2}
    Requests = {r1}
    SensorIds = {s1, s2}
    MaxDocs = 2
    Retention = 1
    MaxClock = 4
    MaxEvents = 6
    Overlap = FALSE
INVARIANTS TypeOK NeverOrphaned OneDocPerDevice
PROPERTIES PurgeJustified MembershipKept EventuallyPurged
CHECK_DEADLOCK FALSE
