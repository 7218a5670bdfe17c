SPECIFICATION Spec
CONSTANTS
    Platforms = {"systemd"}
    Leftovers <- NothingLeft
    Releases <- AllReleases
    Options <- PlainOption
    MaxAttempts = 1
    MaxPushes = 0
    MaxFaults = 0
    MaxCrashes = 0
    MaxFails = 2
INVARIANTS
    GoodReleaseInstalls
CHECK_DEADLOCK FALSE
