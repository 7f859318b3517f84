CONSTANTS
    Jobs = {1}
    MaxAttempts = 2
    OverflowAt = 9
    ReadOnly = {}
    Faults = {"result"}
    MaxFaults = 1
SPECIFICATION Spec
INVARIANTS NoExtraRetry
