CONSTANTS
    MaxHeader = 6
    MaxBody = 2
    RecvMax = 4
    HeadSizes = {3, 4, 5, 6, 7}
    Requests <- SomeRequests
    Answers <- SomeAnswers
SPECIFICATION FairSpec
INVARIANTS TypeOK HandledIsSent HeaderLimit ReadsExactly
PROPERTIES CallEnds ImplementsStoreCall
CHECK_DEADLOCK FALSE
