\* Two tries of a gift on two nodes, pools a few percent off their target, one request
\* and one admin request, two batches of one event, three peers for a lease of three ticks, two
\* callers of the breaker, buckets of two requests, and a host's figures on a few days around
\* 18:00 and 18:30 UTC.
CONSTANTS
    Tries = {t1, t2}
    Nodes = {n1, n2}
    Rewards = {0, 1}
    Attempts = 2
    Legacy = 5
    MaxDiff = 12
    MaxReward = 12
    Weights = {1, 2, 5}
    MaxSteps = 4
    Checks = {q1}
    AdminChecks = {a1}
    MaxTokens = 1
    Batches = {b1, b2}
    Events = {e1}
    Costs = {1, 2}
    RateLimit = 2
    MaxAge = 2
    SeenDays = 3
    RetentionDays = 4
    Peers = {p1, p2, p3}
    NoPeer = NoPeer
    LeaderTTL = 3
    Callers = {c1, c2}
    Threshold = 2
    OpenFor = 2
    RestKeys = {k1}
    SocketKeys = {k2}
    Capacity = 4
    Refill = 1
    Cost = 2
    IdleFor = 4
    Clock = {0, 35, 36, 37}
    LastDay = 5
    FirstSunday = 3
    MaxEntries = 2
SPECIFICATION Spec
SYMMETRY Symmetric
INVARIANTS
    ShownIsPaid
    HappensOnce
    DrawIsSound
    AccessFollowsRows
    ListedOnce
    OneLeaderWorks
    OneTrial
    EverythingOnOneDay
PROPERTIES
    BucketsAreIdeal
\* Requests, time and what a host earns are bounded.
CHECK_DEADLOCK FALSE
