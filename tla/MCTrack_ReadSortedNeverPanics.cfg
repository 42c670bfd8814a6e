CONSTANTS
    n1 = n1
    n2 = n2
    k1 = k1
    v1 = v1
    v2 = v2
    NoValue = NoValue
    Nodes = {n1, n2}
    SubstateKeys = {k1}
    Values = {v1, v2}
    DbContent <- MCDbContent
    MaxLockHandles = 2

SPECIFICATION MCSpec

\* finalize consumes the Track and a panic ends the process: both are final.
CHECK_DEADLOCK FALSE

INVARIANT ReadSortedNeverPanics
