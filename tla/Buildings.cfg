\* Two buildings of one floor, two devices, images enough for three plans.
SPECIFICATION Spec
CONSTANTS
    Devices = {d1, d2}
    Buildings = {b1, b2}
    Floors = {f1}
    Images = {i1, i2, i3}
    NoImage = NoImage
    MaxJobs = 5
    MaxFaults = 1
SYMMETRY MCSymmetry
INVARIANTS FlagsExact OneBuilding PlanServed
CONSTRAINT PlansOnly
CHECK_DEADLOCK FALSE
