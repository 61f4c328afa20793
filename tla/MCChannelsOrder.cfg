SPECIFICATION Spec
CONSTANTS
    root = root
    a = a
    b = b
    s = s
    j1 = j1
    j2 = j2
    j3 = j3
    Jobs = {j1, j2, j3}
    Channels = {root, s}
    Root = root
    Parent <- TwoParent
    Cap <- TwoCap
    Throttle <- TwoThrottle
    Sequential = {s}
    Seq <- Order
    Priorities = {10}
    Etas = {0, 3, 4}
    MaxTime = 2
PROPERTY
    SequentialOrder
