\* One socket, one window of two ticks: the shortest history is enough.
CONSTANTS
    Sockets = {s1}
    Window = 2
SPECIFICATION TimersSpec
INVARIANT
    WavedThroughIsBack
\* A stream that has ended has nothing left to do.
CHECK_DEADLOCK FALSE
