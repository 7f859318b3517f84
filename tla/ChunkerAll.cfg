CONSTANTS
    Lengths <- SomeLengths
    Sizes <- SomeSizes
    Overlaps <- SomeOverlaps
    Lookback = 2
SPECIFICATION FairSpec
INVARIANTS TypeOK Reassembles SizesKept Advances
PROPERTIES Terminates
CHECK_DEADLOCK FALSE
