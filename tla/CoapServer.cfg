CONSTANTS
    a1 = a1
    r1 = r1
    Apps = {a1}
    Remotes = {r1}
    MESSAGE_ID_MAX = 3
    RETRY_MAX = 1
    SEND_MAX = 2
    OBS_MAX = 1
    MaxMessages = 2
    MaxArrivals = 2
SPECIFICATION FairSpec
INVARIANTS TypeOK TimeoutMeansTried IdsRepeatOnlyAtWrap OnlyKeptNodesDangle
PROPERTIES OneOutcome Resolved
CHECK_DEADLOCK FALSE
