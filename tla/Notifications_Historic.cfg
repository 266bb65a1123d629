SPECIFICATION Spec
CONSTANTS
    Keeper = 2
    Historic = TRUE
    FeeLimit = 1
    Keepalive = 1
    MaxChain = 2
    MaxMined = 2
    MaxRewinds = 0
    MaxTime = 0
INVARIANT HistoricComplete
