SPECIFICATION FairSpec
CONSTANTS
    Nodes = {n1, n2}
    Members = {m1}
    MaxTime = 2
    MaxSchedules = 2
    MaxCrashes = 1
    MaxFaults = 1
    SweepGrace = 1
INVARIANTS
    TrackedIsLive
PROPERTIES
    ImplementsDeadlines
    DeadlineServed
