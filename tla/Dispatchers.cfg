CONSTANTS
    p1 = p1
    p2 = p2
    p3 = p3
    Procs = {p1, p2, p3}
    Pids = {1, 2, 3}
    Faults = {"kill", "reuse", "overstay"}
    MaxFaults = 2
SPECIFICATION FairSpec
INVARIANTS TypeOK OneService PidfileNamesOwner
PROPERTIES ServiceReturns
