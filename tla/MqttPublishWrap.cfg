CONSTANTS
    p1 = p1
    p2 = p2
    Publishers = {p1, p2}
    PACKET_ID_MAX = 2
    REPUB_NUM_MAX = 2
    SOCK_BUF = 1
    QosLevels = {0, 1, 2}
    PartialReads = TRUE
    JunkIds = {1}
    MaxIssued = 3
    MaxBreaks = 0
SPECIFICATION Spec
SYMMETRY PublishersSymmetry
INVARIANTS WaitListBounded InFlightIdsDistinct
