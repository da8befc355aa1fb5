SPECIFICATION FairSpec
CONSTANT MaxRefers = 2
INVARIANTS
    TypeOK
    TrueMeansConnected
PROPERTY ReferIsFollowedUp
CHECK_DEADLOCK FALSE
