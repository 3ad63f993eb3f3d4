\* Two messages in a list that keeps one: the end of a stream deletes the list before it copies it.
CONSTANTS
    Users = {u1}
    Requests = {r1, r2}
    MuteFor = 1
    MaxTime = 2
    Readers = {a, b}
    MaxWrites = 2
    Msgs = {m1, m2}
    Clears = {c1, c2}
    Viewers = {v1}
    Modes = {"EVERYONE", "FOLLOWERS_ONLY"}
    Keep = 1
    MaxChat = 2
    Nodes = {"n1", "n2"}
    Sockets = {"s1", "s2"}
    UserOf <- UserOfDef
    NodeOf <- NodeOfDef
    Looks = {look1, look2}
    Presents = {g1, g2}
    InGallery = {g1}
    NoPresent = NoPresent
    Frames = {f1}
    GoLives = {l1}
    MaxBans = 1
    Bills = {b1, b2, b3}
    Slots = 1
SPECIFICATION Spec
INVARIANT ChatIsSaved
\* The clocks and the writes are bounded.
CHECK_DEADLOCK FALSE
