SPECIFICATION FairSpec
CONSTANTS
    Txs = {t1, t2}
    MaxTransactions = 1
    ListenerBuffer = 1
    CoalesceWindow = TRUE
    InitialModes = {"mixed"}
    MaxGeneration = 2
    t1 = t1
    t2 = t2
INVARIANTS
    PauseHonoured
    NoLostWakeup
    SleepsOnlyWhenIdle
PROPERTIES
    AutoMineProgress
    TickTakenUp
