SPECIFICATION FairVerbSpec
CONSTANTS
    Reqs = {r1, r2}
    Shapes <- AllShapes
    Auths <- AllAuths
    Codes = {0, 256}
    MaxFaults = 1
    MaxCrashes = 1
    MaxBreaks = 1
INVARIANTS
    TypeOK
    AnswerMatchesRecord
    OnlyAcceptedRuns
    ScriptLifetime
    ExitCodeTells
PROPERTIES
    DeadlineBounds
CHECK_DEADLOCK FALSE
