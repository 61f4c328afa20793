SPECIFICATION MCSpec
CONSTANTS
    Jobs = {j1, j2}
    Requests = {r1, r2}
    NoJob = NoJob
    Capacity = 1
    MaxFaults = 3
SYMMETRY Symmetric
VIEW Looked
INVARIANTS
    TypeOK
    ViewAgrees
    BusyWithinCapacity
    OneExecution
PROPERTIES
    DoneIsFinal
    FollowsLifecycle
