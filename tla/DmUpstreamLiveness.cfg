CONSTANTS
    c1 = c1
    c2 = c2
    sub1 = sub1
    sub2 = sub2
    Callers = {c1}
    Devices = {sub1}
    CACHE_MAX = 1
    QUEUE_MAX = 1
    CallTypes = {"register", "topo_del", "login", "logout"}
    MaxCalls = 2
    MaxFaults = 0
SPECIFICATION FairSpec
PROPERTIES CallReturns CacheDrains
