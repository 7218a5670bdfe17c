SPECIFICATION FairSpec
CONSTANTS
    Reqs = {r1, r2, r3}
    Keys = {k1, k2}
    FlagKey = "absent"
    LegacyCounts = {0}
    MaxFaults = 2
    MaxCrashes = 2
INVARIANTS
    TypeOK
    WorkerInv
    ChainIntact
    BoundedLoss
    GapVisible
PROPERTIES
    StableVerdict
    RanIsAnswered
    ImplementsSink
CHECK_DEADLOCK FALSE
