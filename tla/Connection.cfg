\* Tasks of one process share the connection; any of them is cancelled at any await
\* but the last rollback's.
CONSTANTS
    Tasks = {t1, t2}
    Nobody = Nobody
    Gone = Gone
    Rows = 2
    PoolSize = 1
    MaxUnits = 2
    MaxCancels = 2
    MaxFaults = 1
    MaxLate = 0
SPECIFICATION Spec
INVARIANT WholeOrNothing
PROPERTY EveryUnitEnds
\* Every task has run what it is given.
CHECK_DEADLOCK FALSE
