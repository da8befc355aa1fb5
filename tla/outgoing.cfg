SPECIFICATION FairSpec
CONSTANTS
    Hangers = {h1}
    HasPassword = TRUE
    MaxInFlight = 2
INVARIANTS
    NoDoubleClose
    OneFinisher
    DoneMeansCleanedUp
    CancelNamesPendingInvite
    NoOrphanDialog
    CancelEndsCall
    HangupTrueMeansOver
    InvitesReported
PROPERTIES
    KeepsLifecycle
    CallSettles
CHECK_DEADLOCK FALSE
