SPECIFICATION LiveSpec
CONSTANTS
    e1 = e1
    t1 = t1
    t2 = t2
    c1 = c1
    None = None
    NoRun = NoRun
    NoCall = NoCall
    Runs = {e1}
    Tasks = {t1, t2}
    Sweepers = {t2}
    Calls = {c1}
    MaxAttempts = 1
    MaxPauses = 0
    MaxUpdates = 0
    MaxCrashes = 1
PROPERTIES
    EventuallySettled
CHECK_DEADLOCK FALSE
