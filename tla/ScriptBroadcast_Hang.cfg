\* A failed look-up leaves a run waiting for a transaction that cannot be mined.
SPECIFICATION Spec
CONSTANTS
    NumOps = 2
    Senders = {a, b}
    MaxFaults = 2
INVARIANT WaitsCanEnd
