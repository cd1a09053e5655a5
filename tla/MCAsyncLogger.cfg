SPECIFICATION FairSpec
CONSTANTS
    Producers = {p1, p2}
    Worker = worker
    Consumers <- MCConsumers
    Items <- MCItems
    NoItem = NoItem
    Spurious = FALSE
    Size = 2
    NOTIFY_WATERMARK = 2
    MaxLogs = 3
INVARIANTS
    SlotsExclusive
    WrittenInOrder
    NothingLost
PROPERTIES
    EveryMessageWritten
CHECK_DEADLOCK FALSE
