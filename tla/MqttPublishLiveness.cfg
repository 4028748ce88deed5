CONSTANTS
    p1 = p1
    p2 = p2
    Publishers = {p1, p2}
    PACKET_ID_MAX = 3
    REPUB_NUM_MAX = 2
    SOCK_BUF = 2
    QosLevels = {1}
    PartialReads = FALSE
    JunkIds = {}
    MaxIssued = 2
    MaxBreaks = 1
SPECIFICATION FairSpec
INVARIANTS AtLeastOnce
PROPERTIES ReliableDelivery PublishReturns
