CONSTANTS
    c1 = c1
    c2 = c2
    sub1 = sub1
    sub2 = sub2
    Callers = {c1, c2}
    Devices = {sub1}
    CACHE_MAX = 1
    QUEUE_MAX = 1
    CallTypes = {"register", "logout"}
    MaxCalls = 2
    MaxFaults = 1
SPECIFICATION Spec
SYMMETRY CallersSymmetry
INVARIANTS TypeOK OneNodePerWaiter CacheBounded
PROPERTY AnswersRequests
