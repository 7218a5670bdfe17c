SPECIFICATION FairSpec
CONSTANTS
    Names <- AllNames
    Places <- AllPlaces
    Trees <- SomeTrees
    Requests <- AllRequests
    Fences <- AllFences
    NoFence = NoFence
    Edits <- SomeEdits
    MaxHops = 2
    KernelHops = 2
    EvalHops = 3
    Temp = "tmp"
    MaxChanges = 1
INVARIANTS
    TypeOK
    LandsInside
    Transparent
PROPERTIES
    RequestEnds
CHECK_DEADLOCK FALSE
