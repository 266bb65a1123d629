SPECIFICATION Spec
CONSTANTS
    Txs <- TwoSenders
    Senders = {"a", "b"}
    Authorities = {"b"}
    MaxNonce = 2
    Order = "fees"
    MaxHeight = 2
    MaxSnapshots = 1
    AllowSetNonce = FALSE
    AllowRollback = FALSE
INVARIANT NextIsExecutable
INVARIANT PendingNeedsOthers
PROPERTY RefusalHarmless
PROPERTY LeavesForAReason
