SPECIFICATION FairSpec
CONSTANTS
    Exhaustion = TRUE
    MaxSteps = 3
INVARIANT PendingExact OneOwner
PROPERTY GivenAwayForGood HandshakeEnds
CHECK_DEADLOCK FALSE
