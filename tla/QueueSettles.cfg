CONSTANTS
    Jobs = {1, 2}
    MaxAttempts = 3
    OverflowAt = 2
    ReadOnly = {2}
    Faults = {"slow", "delete", "crash", "store", "stop", "result"}
    MaxFaults = 3
SPECIFICATION FairSpec
INVARIANTS StartsBounded
PROPERTIES EveryJobSettles StopStops
