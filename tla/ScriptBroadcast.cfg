\* Two operations, of one sender or of two, signed here or elsewhere.
SPECIFICATION FairSpec
CONSTANTS
    NumOps = 2
    Senders = {a, b}
    MaxFaults = 3
INVARIANTS NoDoubleSubmission CompleteMeansMined
PROPERTY EventuallyComplete
