SPECIFICATION FairSpec
CONSTANTS
    Refreshers = {r1, r2}
    Script = script
    Follower = follower
    None = none
    MaxGen = 3
INVARIANTS
    RefreshChain
    StartedIsBound
    OneSocket
PROPERTY DestroyedFallsSilent
CHECK_DEADLOCK FALSE
