SPECIFICATION Spec
CONSTANTS
    MaxU64 = 3
    MaxClock = 1
    MaxGeneration = 3
    MaxOffset = 2
    MaxBlocks = 3
    MaxSnapshots = 0
    Timestamps = {0, 2}
    Increments = {1}
    Miners = {m1}
    Base = FALSE
    None = None
    m1 = m1
INVARIANTS
    NextTimestampHonoured
