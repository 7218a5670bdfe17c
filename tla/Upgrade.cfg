SPECIFICATION FairSpec
CONSTANTS
    Platforms = {"systemd", "unraid", "windows", "manual"}
    Leftovers <- Leftover
    Releases <- AllReleases
    Options <- AllOptions
    MaxAttempts = 2
    MaxPushes = 1
    MaxFaults = 2
    MaxCrashes = 2
    MaxFails = 2
INVARIANTS
    TypeOK
    OnlySigned
    InstalledIsRelease
    CurrentRuns
    Recoverable
    GivesUpAfterRow
PROPERTIES
    Relaunched
CHECK_DEADLOCK FALSE
