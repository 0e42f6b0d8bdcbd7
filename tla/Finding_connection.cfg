\* One cancellation lands on a task that awaits the last rollback of a transaction.
CONSTANTS
    Tasks = {t1, t2}
    Nobody = Nobody
    Gone = Gone
    Rows = 2
    PoolSize = 1
    MaxUnits = 2
    MaxCancels = 1
    MaxFaults = 0
    MaxLate = 1
SPECIFICATION Spec
INVARIANT LockComesBack
\* Every task has run what it is given.
CHECK_DEADLOCK FALSE
