CONSTANTS
    c1 = c1
    c2 = c2
    Clients = {c1, c2}
    Files = {"A"}
    Paths = {"a"}
    FileOf <- CanonicalFileOf
    Checked = {}
    Contents = {"v", "w"}
    Valid = {"v"}
    Faults = {"timeout", "crash", "partial", "edit"}
    MaxFaults = 1
    Backlog = 3
SPECIFICATION FairSpec
PROPERTIES EveryCallReturns OnlyFaultsMakeStale
