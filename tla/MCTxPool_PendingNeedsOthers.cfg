SPECIFICATION Spec
CONSTANTS
    Txs <- OneSender
    Senders = {"a"}
    Authorities = {}
    MaxNonce = 3
    Order = "fees"
    MaxHeight = 1
    MaxSnapshots = 0
    AllowSetNonce = TRUE
    AllowRollback = FALSE
INVARIANT PendingNeedsOthers
