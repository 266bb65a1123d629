\* Three operations: two of one sender and one of another between them.
SPECIFICATION Spec
CONSTANTS
    NumOps = 3
    Senders = {a, b}
    MaxFaults = 2
INVARIANTS TypeOK NoDoubleSubmission CompleteMeansMined
