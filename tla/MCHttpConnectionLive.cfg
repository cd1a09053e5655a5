SPECIFICATION FairSpec
CONSTANTS
    Conns = {c1}
    Recvs = {r1}
    Timers = {t1, t2}
    Writes = {w1, w2}
    Fds = {f1}
    None = None
    Chunks <- MCLiveChunks
    Pieces = 1
    MaxRequestSize = 2
    IdleTimeout = TRUE
    Exhaustion = TRUE
    ErrorMore = FALSE
    MaxGen = 1
    MaxInput = 2
PROPERTIES
    ClosingEnds
    IdleEnds
CHECK_DEADLOCK FALSE
