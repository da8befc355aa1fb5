SPECIFICATION Spec
CONSTANTS
    MaxLegs = 5
    MaxRequests = 2
    MaxLost = 1
INVARIANTS NoLegForgotten BridgeWhole
CHECK_DEADLOCK FALSE
