CONSTANTS
    c1 = c1
    c2 = c2
    Clients = {c1, c2}
    Files = {"A", "B"}
    Paths = {"a", "b", "x"}
    FileOf <- CanonicalFileOf
    Checked = {"a"}
    Contents = {"v", "bad"}
    Valid = {"v"}
    Faults = {"timeout", "crash", "refused"}
    MaxFaults = 1
    Backlog = 2
SPECIFICATION CachedSpec
INVARIANTS TypeOK CacheCoherent OnlyValidOnDisk
PROPERTIES SubstitutesVaultFS
SYMMETRY ClientSymmetry
