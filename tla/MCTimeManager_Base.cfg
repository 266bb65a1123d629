SPECIFICATION Spec
CONSTANTS
    MaxU64 = 3
    MaxClock = 1
    MaxGeneration = 3
    MaxOffset = 2
    MaxBlocks = 2
    MaxSnapshots = 1
    Timestamps = {0, 2}
    Increments = {1}
    Miners = {m1}
    Base = TRUE
    None = None
    m1 = m1
INVARIANTS
    BaseChainOrdered
    OverrideExactlyOnce
PROPERTIES
    LastTimestampMonotone
