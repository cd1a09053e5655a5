SPECIFICATION FairSpec
CONSTANTS
    NumRings = 2
    Accepts = {a1, a2}
    Stoppers = {s1}
    Main = main
    None = none
    Exhaustion = FALSE
    RingStops = TRUE
    Errors <- MCNoErrors
    MaxAccepts = 0
    MaxErrors = 0
INVARIANT DestroyedAfterJoin StopReachesEveryRing
PROPERTY StopCompletes
CHECK_DEADLOCK FALSE
