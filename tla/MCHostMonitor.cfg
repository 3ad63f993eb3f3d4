\* A tick is about 20 to 30 s; a check may see time pass once.
CONSTANTS
    Timeout = 3
    KeySlack = 1
    StartGrace = 1
    GhostGrace = 2
    ReturnGrace = 2
    MaxLag = 1
    MaxFaults = 1
SPECIFICATION FairSpec
INVARIANTS
    MonitorSpares
    GhostNeverSeen
PROPERTIES
    LostAfterSilence
    GoneEnds
\* A stream that has ended stays ended.
CHECK_DEADLOCK FALSE
