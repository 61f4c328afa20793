SPECIFICATION MCSpec
CONSTANTS
    N = 3
    Limit = 2
    QbLines = 3
    Shapes <- MCShapes
    MaxItems = 2
    QbMaxCopies = 2
    Docs = {1}
    Worlds <- MCWorlds
    QbWorkers = {w1, w2}
    Methods = {"create", "write"}
    Settings = {"full", "fast"}
    AuditWorkers = {w1, w2}
    HttpRequests = {w1, w2}
    MaxRows = 2
    MaxLogs = 2
    UserFields = {"name", "login"}
    Excluded = {"login"}
    MaxValue = 1
    MaxTrail = 4
SYMMETRY Symmetry
CHECK_DEADLOCK FALSE
INVARIANTS
    QbImported
    AuditPatched
    AuditTrail
    AuditReplay
PROPERTY
    QbExports
