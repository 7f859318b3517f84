CONSTANTS
    Jobs = {1, 2}
    MaxAttempts = 3
    OverflowAt = 2
    ReadOnly = {}
    Faults = {"crash", "store", "stop", "result"}
    MaxFaults = 3
SPECIFICATION Spec
INVARIANTS TypeOK ClaimMatchesDisk ReclaimIsFresh AttemptsBounded AttemptsCountStarts
PROPERTIES TerminalIsFinal ImplementsLifecycle
