SPECIFICATION Spec
CONSTANTS
    Txs <- TwoSenders
    Senders = {"a", "b"}
    Authorities = {"a"}
    MaxNonce = 2
    Order = "fees"
    MaxHeight = 2
    MaxSnapshots = 1
    AllowSetNonce = FALSE
    AllowRollback = FALSE
INVARIANT AuthoritiesNeedOthers
