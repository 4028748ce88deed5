CONSTANTS
    t1 = t1
    t2 = t2
    h1 = h1
    h2 = h2
    TOPIC_MAXLEN = 6
    Threads = {t1, t2}
    Filters <- TwoFilters
    Names <- NameA
    Handles = {h1}
    SyncInEvents = FALSE
    Kinds = {"sub", "unsub"}
    MaxCalls = 3
    MaxFaults = 2
    MaxMessages = 1
SPECIFICATION Spec
SYMMETRY ThreadsSymmetry
INVARIANTS HandlersDistinct WalkComplete
