SPECIFICATION FairSpec
CONSTANTS
    Hangers = {h1}
    MaxDecides = 2
INVARIANTS
    InviteAnswered
    NoOrphanDialog
    ConnectedMeansConfirmed
    HangupTrueMeansOver
PROPERTIES
    CallSettles
CHECK_DEADLOCK FALSE
