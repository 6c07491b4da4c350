\* Requests and the cron job interleave.
SPECIFICATION Spec
CONSTANTS
    Devices = {dev}
    Groups = {g1, g2}
    Requests = {r1, r2}
    SensorIds = {s1, s2, s3}
    MaxDocs = 2
    Retention = 0
    MaxClock = 1
    MaxEvents = 4
    Overlap = TRUE
SYMMETRY Symmetry
INVARIANTS LiveSensorsExist SensorsNotShared
CHECK_DEADLOCK FALSE
