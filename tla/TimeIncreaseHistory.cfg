SPECIFICATION HistorySpec
CONSTANTS
    MaxU64 = 8
    MaxClock = 0
    MaxGeneration = 1
    MaxOffset = 3
    MaxBlocks = 3
    MaxSnapshots = 0
    Timestamps = {0}
    Increments = {1}
    Miners = {m1, m2}
    Base = FALSE
    None = None
    m1 = m1
    m2 = m2
INVARIANTS
    IncreaseNotLost
CHECK_DEADLOCK FALSE
