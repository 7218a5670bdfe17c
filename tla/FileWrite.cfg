SPECIFICATION Spec
CONSTANTS
    Reqs = {r1, r2}
    a = a
    b = b
    c = c
    Tokens = {a, b, c}
    Mixes <- WritesOnly
    Initial <- ABA
    MaxFaults = 0
    MaxCrashes = 0
SYMMETRY Symmetry
INVARIANTS
    WriteIsAtomic
CHECK_DEADLOCK FALSE
