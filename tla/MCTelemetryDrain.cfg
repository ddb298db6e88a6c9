SPECIFICATION DrainSpec
CONSTANTS
    Slots = 3
    Batch = 2
    MaxAttempts = 6
    Rejected = {2}
    Ground = TRUE
INVARIANTS
    TypeOK
    NoSlotRace
    RecordingFaithful
    LossIsVisible
    StopLosesNothing
    GroundCloses
PROPERTIES
    StopReturns
    ImplementsLog
