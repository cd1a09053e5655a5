SPECIFICATION Spec
CONSTANTS
    NumRings = 1
    Accepts = {a1, a2}
    Stoppers = {s1, s2}
    Main = main
    None = none
    Exhaustion = TRUE
    RingStops = TRUE
    Errors <- MCAllErrors
    MaxAccepts = 2
    MaxErrors = 2
SYMMETRY MCStopperSymmetry
INVARIANT InFlightExact  TrackedAcceptLive
CHECK_DEADLOCK FALSE
