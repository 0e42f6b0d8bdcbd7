SPECIFICATION MCSpec
CONSTANTS
    t1 = t1   t2 = t2   t3 = t3   a1 = a1   a2 = a2   h1 = h1   s1 = s1
    b1 = b1   b2 = b2   y1 = y1   y2 = y2   w1 = w1   w2 = w2   k1 = k1   x1 = x1   x2 = x2
    Tasks = {t1, t2, t3}
    Agents = {a1, a2}
    People = {h1}
    Streams = {s1}
    NoTask = NoTask
    NoAgent = NoAgent
    MaxDepth = 2
    TaskQueueSize = 1
    MaxRuns = 2
    MaxMoves = 1
    MaxStartups = 1
    MaxCrashes = 1
    MaxRefusals = 1
    Branches = {b1, b2}
    Syntheses = {y1, y2}
    Workers = {w1, w2}
    Artifacts = {x1, x2}
    Keys = {k1}
    None = None
    MaxSelections = 3
INVARIANTS
    TaskEndsWithRun
    ChainsAreSound
    EndIsToldOnce
    LockedExactlyWhileItRuns
    OneOutcome
    LineagesAreWhole
PROPERTIES
    OnlyItsOwnRunEndsIt
    TasksAreServed
    SynthesisEnds
CHECK_DEADLOCK FALSE
