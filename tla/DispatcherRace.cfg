CONSTANTS
    p1 = p1
    p2 = p2
    Procs = {p1, p2}
    Pids = {1, 2}
    Faults = {}
    MaxFaults = 0
SPECIFICATION Spec
INVARIANTS OneDispatcher
