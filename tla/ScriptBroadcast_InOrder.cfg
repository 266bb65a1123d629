\* The order of two senders' operations when the endpoint forgets the first.
SPECIFICATION FairSpec
CONSTANTS
    NumOps = 2
    Senders = {a, b}
    MaxFaults = 1
PROPERTY InOrder
