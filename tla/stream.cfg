SPECIFICATION StreamSpec
CONSTANTS
    Dial <- MCDial
    Packets = 1
    Seq16 = 16
    CountMod = 65536
    StartSeqs = {14}
    MaxLate = 3
    MaxLoss = 2
    MaxFlight = 3
    MaxTurns = 1
    MaxEarly = 2
    MaxTicks = 11
INVARIANTS
    DigitsOnceInOrder
    LossNotOverstated
CHECK_DEADLOCK FALSE
