CONSTANTS
    f1 = f1
    f2 = f2
    c1 = c1
    Firmwares = {f1, f2}
    Configs = {c1}
    Size <- MCSize
    MaxPushes = 3
    MaxFaults = 2
SPECIFICATION FairSpec
INVARIANTS TypeOK SuccessIsStored
PROPERTIES FailsForCause DownloadEnds
CHECK_DEADLOCK FALSE
