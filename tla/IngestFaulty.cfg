CONSTANTS
    s1 = s1
    s2 = s2
    s3 = s3
    Sources = {s1, s2, s3}
    MaxChunks = 3
    Faults = {"store", "partial", "crash", "fetch", "extract", "invalid"}
    MaxFaults = 2
SPECIFICATION Spec
INVARIANTS TypeOK IntentIsVisible
PROPERTIES ImplementsPublication
CHECK_DEADLOCK FALSE
SYMMETRY SourceSymmetry
