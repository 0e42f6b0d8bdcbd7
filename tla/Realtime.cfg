SPECIFICATION MCFairSpec
CONSTANTS
    p1 = p1
    p2 = p2
    Procs = {p1, p2}
    Alone = p1
    c1 = c1
    c2 = c2
    Conns = {c1, c2}
    t1 = t1
    Tabs = {t1}
    NoConn = NoConn
    NoProc = NoProc
    Refreshing = {3}
    QueueSize = 1
    PageSize = 1
    FirstCursors = {0, 4}
    MaxEvents = 3
    MaxNotes = 1
    MaxLosses = 2
    MaxRefusals = 1
    MaxFaults = 1
    MaxRemovals = 1
INVARIANTS
    NothingPastRemoval
    HolesAreComing
    PresentWhileServed
PROPERTIES
    RemovedIsClosed
    CaughtUp
CHECK_DEADLOCK FALSE
