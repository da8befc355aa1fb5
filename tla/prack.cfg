SPECIFICATION PrackFairSpec
CONSTANTS
    Endpoints = {e1, e2}
    None = none
INVARIANTS PrackTypeOK AcksOnce LateRinging
PROPERTIES RingerStops
CHECK_DEADLOCK FALSE
