SPECIFICATION FairSpec
CONSTANTS
    A = a
    B = b
    Refresher = a
    MaxHolds = 3
INVARIANTS
    Agreement
    HoldIsReported
PROPERTY HoldReturns
CHECK_DEADLOCK FALSE
