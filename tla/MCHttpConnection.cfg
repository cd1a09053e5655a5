SPECIFICATION Spec
CONSTANTS
    Conns = {c1}
    Recvs = {r1, r2}
    Timers = {t1, t2}
    Writes = {w1, w2}
    Fds = {f1, f2}
    None = None
    Chunks <- MCChunks
    Pieces = 2
    MaxRequestSize = 2
    IdleTimeout = TRUE
    Exhaustion = TRUE
    ErrorMore = FALSE
    MaxGen = 2
    MaxInput = 3
SYMMETRY Slots
INVARIANTS
    ResponseOwner
    OneResponse
    DescriptorOwner
    JobsTracked
    OneRecv
    NeverStranded
    WireInOrder
PROPERTIES
    StaleCompletionIgnored
CHECK_DEADLOCK FALSE
