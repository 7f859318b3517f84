CONSTANTS
    c1 = c1
    Clients = {c1}
    Files = {"A"}
    Paths = {"a", "./a"}
    FileOf <- AliasedFileOf
    Checked = {}
    Contents = {"v", "w"}
    Valid = {}
    Faults = {}
    MaxFaults = 1
    Backlog = 1
SPECIFICATION CachedSpec
INVARIANTS CacheCoherent
