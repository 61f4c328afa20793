SPECIFICATION MCSpec
CONSTANTS
    w1 = w1
    w2 = w2
    s1 = s1
    s2 = s2
    Transfers = {1, 2, 3}
    Remotes = {1, 2}
    TplWorkers = {w1, w2}
    Ordered = 2
    Locations = {"a", "b"}
    Warehouses = {"x"}
    Feeds <- MCFeeds
    Exporters = {w1, w2}
    Quantities = {0, 1}
    MaxLevel = 2
    Invoices = {1}
    Payouts = {1, 2}
    Gross <- MCGross
    Total = 2
    RpWorkers = {w1, w2}
    MaxCopies = 2
    NPay = 2
    LsWorkers = {w1, w2}
    KeyJobs = {1, 2}
    Senders = {s1, s2}
    Workers = {w1, w2}
    KeyCapacity = 1
    MaxTouches = 1
    Shops = {"home", "other"}
    Home = "home"
    NoShop = NoShop
    Parts = {1, 2}
    Keepers = {w1, w2}
    MaxIds = 3
    MaxRequests = 3
SYMMETRY Symmetry
CHECK_DEADLOCK FALSE
INVARIANTS
    TplShipped
    StockExported
    RpPaidOnce
    LsMoney
    NoChangeMissed
    AppliedOnce
    CatalogSynced
PROPERTY
    RpExports
    OneWaits
