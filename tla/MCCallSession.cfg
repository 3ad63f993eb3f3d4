SPECIFICATION Spec
CONSTANTS
    Users = {a, b, c}
    Procs = {p, q}
    MaxCalls = 2
    MaxLapses = 0
    None = None
    Orphan = Orphan
SYMMETRY Interchangeable
INVARIANTS
    OneLiveCall
PROPERTIES
    EndLeavesCallOver
    ImplementsLifecycle
