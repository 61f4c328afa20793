SPECIFICATION MCFairSpec
CONSTANTS
    Jobs = {j1, j2}
    Requests = {r1, r2}
    NoJob = NoJob
    Capacity = 1
    MaxFaults = 1
PROPERTIES
    PendingSettles
    EnqueuedMoves
