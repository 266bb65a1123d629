SPECIFICATION Spec
CONSTANTS
    Keeper = 1
    Historic = TRUE
    FeeLimit = 1
    Keepalive = 1
    MaxChain = 2
    MaxMined = 3
    MaxRewinds = 2
    MaxTime = 2
INVARIANTS LogsConverge FeeHistoryCurrent FeeHistoryOneChain
PROPERTY UsedFilterKept
