SPECIFICATION Spec
CONSTANTS
    open = open
    locked = locked
    unknown = unknown
    vault = vault
    t1 = t1
    Frames <- AllFrames
    MaxFrames = 2
    Hosts <- HostSet
    Workers <- Addresses
    HostsFile <- Book
    Tokens = {t1}
    EnvToken = "none"
    TokensFile <- TokenLines
    Secret <- Secrets
    MaxFaults = 0
INVARIANTS
    TokensFromFile
CHECK_DEADLOCK FALSE
