SPECIFICATION AnsweringSpec
CONSTANTS
    open = open
    locked = locked
    unknown = unknown
    vault = vault
    t1 = t1
    Frames <- AllFrames
    MaxFrames = 3
    Hosts <- HostSet
    Workers <- Addresses
    HostsFile <- Book
    Tokens = {t1}
    EnvToken = "none"
    TokensFile <- TokenLines
    Secret <- Secrets
    MaxFaults = 2
INVARIANTS
    TypeOK
    AnsweredInOrder
    RunsOnce
    AnswersAreTrue
PROPERTIES
    CallsReturn
CHECK_DEADLOCK FALSE
