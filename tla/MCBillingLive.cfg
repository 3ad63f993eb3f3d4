\* One call of minutes of one tick, without a grace and up to its second minute.
SPECIFICATION FairSpec
CONSTANTS
    Workers = {w1, w2}
    Minute = 1
    Gap = 0
    Grace = 0
    KeyTTL = 1
    Margin = 0
    MaxTime = 1
    MaxCoins = 1
    MaxTopUps = 0
    MaxOpens = 0
    MaxFaults = 1
    None = None
PROPERTIES
    MinutesBilled
    UnpaidCallEnds
CHECK_DEADLOCK FALSE
