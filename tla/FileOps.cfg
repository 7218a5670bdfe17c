SPECIFICATION Spec
CONSTANTS
    Reqs = {r1, r2, r3}
    a = a
    b = b
    c = c
    Tokens = {a, b, c}
    Mixes <- EditsAndUploads
    Initial <- ABA
    MaxFaults = 1
    MaxCrashes = 1
SYMMETRY Symmetry
INVARIANTS
    TypeOK
    ReaderSeesWhole
    TargetWhole
    TempRemoved
    UploadLands
    MixedUploads
PROPERTIES
    ImplementsRegister
CHECK_DEADLOCK FALSE
