SPECIFICATION MCFairSpec
CONSTANTS
    Procs = {p1, p2}
    Feeds = {1, 2}
    Orders = {1, 2}
    Customers = {1, 2}
    None = None
    Fetchers = {p1}
    MaxRequests = 1
    MaxFaults = 1
PROPERTIES
    Imported
    CancelArrives
