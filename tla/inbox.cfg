SPECIFICATION InboxFairSpec
CONSTANTS
    c1 = c1
    c2 = c2
    c3 = c3
    w1 = w1
    w2 = w2
    w3 = w3
    Calls = {c1, c2, c3}
    Waiters = {w1, w2, w3}
    Wanted <- MCWanted
INVARIANTS
    ExactlyOnce
    NoLostWakeup
PROPERTIES
    Claimed
CHECK_DEADLOCK FALSE
