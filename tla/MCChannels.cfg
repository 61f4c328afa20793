SPECIFICATION Spec
CONSTANTS
    root = root
    a = a
    b = b
    s = s
    j1 = j1
    j2 = j2
    j3 = j3
    Jobs = {j1, j2}
    Channels = {root, a, b, s}
    Root = root
    Parent <- TreeParent
    Cap <- TreeCap
    Throttle <- TreeThrottle
    Sequential = {s}
    Seq <- Order
    Priorities = {10}
    Etas = {0, 3}
    MaxTime = 4
INVARIANTS
    OnePlace
    WithinCapacity
    PassIsComplete
    NoMissedWakeup
PROPERTIES
    ImplementsView
