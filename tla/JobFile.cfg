CONSTANTS
    TicksPerSecond = 2
    MaxAttempts = 3
    MaxDelay = 3
    StallThreshold = 2
    Bodies <- ShortBodies
    MaxClock = 16
    MaxJump = 5
    MaxJumps = 1
SPECIFICATION Spec
INVARIANTS TypeOK ReadsBack NoteTellsReclaim OnTime HandlerUndisturbed
