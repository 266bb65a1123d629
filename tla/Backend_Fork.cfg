SPECIFICATION Spec
CONSTANTS
    Blocks = {1, 2, 3, 4}
    Readers = {r1}
    Coinbases = {miner}
    Coinbase = miner
    MaxSnapshots = 1
    MaxOverrides = 2
    MaxReorg = 1
    Persistent = FALSE
    HistorySupported = TRUE
    None = None
INVARIANT HeadPartsAgree
