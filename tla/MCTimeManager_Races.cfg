SPECIFICATION Spec
CONSTANTS
    MaxU64 = 3
    MaxClock = 1
    MaxGeneration = 3
    MaxOffset = 2
    MaxBlocks = 2
    MaxSnapshots = 1
    Timestamps = {1, 3}
    Increments = {1}
    Miners = {m1, m2}
    Base = FALSE
    None = None
    m1 = m1
    m2 = m2
SYMMETRY MinerSymmetry
INVARIANTS
    TypeOK
    HeadTimestampTracked
    ChainOrdered
    OverrideExactlyOnce
PROPERTIES
    LastTimestampMonotone
