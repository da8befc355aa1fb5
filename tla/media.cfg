SPECIFICATION Spec
CONSTANTS
    Call = c
    Others = {o}
    heardFrames = 1
    Want = 2
    MaxSent = 1
    MaxHeard = 2
    MaxDigits = 2
INVARIANTS
    SavedIfWanted
    StatsAreFinal
    SchedulerHolds
    NoLostDigit
CHECK_DEADLOCK FALSE
