SPECIFICATION MCSpec
CONSTANTS
    Jobs = {j1}
    Requests = {r1}
    NoJob = NoJob
    Capacity = 1
    MaxFaults = 2
PROPERTY DoneIsAlwaysFinal
