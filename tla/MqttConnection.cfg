CONSTANTS
    y1 = y1
    y2 = y2
    s1 = s1
    s2 = s2
    Yielders = {y1, y2}
    Senders = {s1}
    KeepAlive = 2
    KEEPALIVE_MAX = 3
    PROBE_MAX = 1
    INTERVAL_MIN = 2
    INTERVAL_MAX = 3
    TCP_TRIES = 2
    RETRY_TIME_LIMIT = 3
    MaxFaults = 2
SPECIFICATION FairSpec
INVARIANTS TypeOK ConnectedMeansAccepted NoFalseAlarm SilenceDetected KeepAliveHonoured BackoffBounded ReconnectAfterDisconnect NoSocketLeak
PROPERTIES Recovers
