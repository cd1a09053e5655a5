SPECIFICATION FairSpec
CONSTANTS
    Requests <- MCRequests
    FileSizes <- MCSizes
    Chunk = 4
    Page = 2
    PipeSlots = 2
    Word = 64
    Severs = {TRUE, FALSE}
    Faults <- MCFaults
    MaxAgain = 2
    None = none
INVARIANT BodyIsRange NoOperationOutlivesJob FailureHasCause
PROPERTY ImplementsFileResponse EveryResponseEnds
CHECK_DEADLOCK FALSE
