SPECIFICATION FairSpec
CONSTANTS
    Users = {a, b}
    Procs = {p, q}
    MaxCalls = 1
    MaxLapses = 1
    None = None
    Orphan = Orphan
PROPERTIES
    ReleasesOwnLock
    RingingEnds
    LocksFreed
