SPECIFICATION TamperSpec
CONSTANTS
    Reqs = {r1, r2, r3, r4}
    Keys = {k1, k2}
    FlagKey = "absent"
    LegacyCounts = {0, 2}
    MaxFaults = 1
    MaxCrashes = 1
SYMMETRY Symmetry
INVARIANTS
    TamperLocated
    LiveCutDetected
    UntouchedIntact
CHECK_DEADLOCK FALSE
