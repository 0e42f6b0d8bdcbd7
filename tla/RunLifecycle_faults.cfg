SPECIFICATION MCSpec
CONSTANTS
    e1 = e1
    e2 = e2
    t1 = t1
    t2 = t2
    c1 = c1
    None = None
    NoRun = NoRun
    NoCall = NoCall
    Runs = {e1, e2}
    Tasks = {t1, t2}
    Sweepers = {t1, t2}
    Calls = {c1}
    MaxAttempts = 2
    MaxPauses = 1
    MaxUpdates = 1
    MaxCrashes = 1
SYMMETRY Symmetry
INVARIANTS
    Coherent
    OutputIffAnswered
    GatedEffectsApproved
PROPERTIES
    SettlementFinal
    DecisionFinal
CHECK_DEADLOCK FALSE
