SPECIFICATION TamperSpec
CONSTANTS
    Reqs = {r1, r2, r3, r4}
    Keys = {k1}
    FlagKey = "absent"
    LegacyCounts = {0}
    MaxFaults = 0
    MaxCrashes = 1
SYMMETRY Symmetry
INVARIANTS
    TamperExitsOne
CHECK_DEADLOCK FALSE
