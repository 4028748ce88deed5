CONSTANTS
    t1 = t1
    t2 = t2
    h1 = h1
    h2 = h2
    TOPIC_MAXLEN = 6
    Threads = {t1, t2}
    Filters <- OneFilter
    Names <- NameA
    Handles = {h1}
    SyncInEvents = FALSE
    Kinds = {"sub", "unsub"}
    MaxCalls = 2
    MaxFaults = 0
    MaxMessages = 0
SPECIFICATION FairSpec
PROPERTY UnsubscribeRemoves
