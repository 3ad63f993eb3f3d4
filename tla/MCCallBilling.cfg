SPECIFICATION Spec
CONSTANTS
    Workers = {w1, w2}
    Minute = 2
    Gap = 0
    Grace = 1
    KeyTTL = 2
    Margin = 0
    MaxTime = 2
    MaxCoins = 1
    MaxTopUps = 1
    MaxOpens = 1
    MaxFaults = 1
    None = None
SYMMETRY Symmetry
CONSTRAINT OneMishap
PROPERTIES
    NoChargeInGrace
    ImplementsMeter
CHECK_DEADLOCK FALSE
