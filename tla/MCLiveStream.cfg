SPECIFICATION FairSpec
CONSTANTS
    Procs = {p, q, r}
    MaxStreams = 2
    MaxRequests = 3
    MaxFaults = 1
    MaxLapses = 1
    None = None
INVARIANTS
    OneLiveStream
PROPERTIES
    ImplementsLife
    ReconcilerKeepsLive
    MarkersAgree
