SPECIFICATION Spec
CONSTANTS
    Blocks = {1, 2, 3, 4}
    Readers = {r1}
    Coinbases = {miner}
    Coinbase = miner
    MaxSnapshots = 1
    MaxOverrides = 2
    MaxReorg = 2
    Persistent = TRUE
    HistorySupported = TRUE
    None = None
INVARIANT HeadPartsAgree
INVARIANT ReadsSeeOneBlock
INVARIANT GuardedReadServed
INVARIANT OverrideUsedOnce
PROPERTY OverrideNotLost
