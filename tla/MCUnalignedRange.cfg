SPECIFICATION Spec
CONSTANTS
    Requests <- MCUnaligned
    FileSizes <- MCLongSizes
    Chunk = 4
    Page = 2
    PipeSlots = 2
    Word = 64
    Severs = {TRUE}
    Faults <- MCNoFaults
    MaxAgain = 0
    None = none
INVARIANT FailureHasCause
CHECK_DEADLOCK FALSE
