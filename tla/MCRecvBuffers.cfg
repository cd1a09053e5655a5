SPECIFICATION Spec
CONSTANTS
    buf_count = 2
    TailMod = 4
    ConnSlots = 2
    RecvSlots = 2
    MaxConns = 4
    MaxCq = 3
INVARIANTS
    PoolsExact
    HandleExact
    JobOutlivesCompletions
    BuffersConserved
CHECK_DEADLOCK FALSE
