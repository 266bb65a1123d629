SPECIFICATION Spec
CONSTANTS
    Txs <- OneSender
    Senders = {"a"}
    Authorities = {"a"}
    MaxNonce = 3
    Order = "fees"
    MaxHeight = 1
    MaxSnapshots = 0
    AllowSetNonce = TRUE
    AllowRollback = TRUE
INVARIANT IndexesAgree
INVARIANT LinksExact
INVARIANT NoneWaitsForProvided
INVARIANT YieldsEachOnce
INVARIANT PruningPromotesNobody
