SPECIFICATION FairSpec
CONSTANTS
    NumRings = 1
    Accepts = {a1, a2}
    Stoppers = {s1}
    Main = main
    None = none
    Exhaustion = FALSE
    RingStops = FALSE
    Errors <- MCAllErrors
    MaxAccepts = 0
    MaxErrors = 1

PROPERTY StopCompletes
CHECK_DEADLOCK FALSE
