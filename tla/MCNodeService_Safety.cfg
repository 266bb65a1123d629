SPECIFICATION Spec
CONSTANTS
    Txs = {t1, t2}
    MaxTransactions = 1
    ListenerBuffer = 1
    CoalesceWindow = TRUE
    InitialModes = {"none", "auto", "fixed", "mixed"}
    MaxGeneration = 4
    t1 = t1
    t2 = t2
SYMMETRY TxSymmetry
INVARIANTS
    TypeOK
    PauseHonoured
    NoLostWakeup
    SleepsOnlyWhenIdle
