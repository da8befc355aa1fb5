SPECIFICATION Spec
CONSTANTS
    Hangers = {h1}
    HasPassword = FALSE
    MaxInFlight = 2
INVARIANT AnsweredMinusEnded
CHECK_DEADLOCK FALSE
