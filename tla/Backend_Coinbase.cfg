SPECIFICATION Spec
CONSTANTS
    Blocks = {1, 2, 3, 4}
    Readers = {r1}
    Coinbases = {miner, other}
    Coinbase = miner
    MaxSnapshots = 1
    MaxOverrides = 2
    MaxReorg = 1
    Persistent = TRUE
    HistorySupported = TRUE
    None = None
INVARIANT CoinbaseKept
