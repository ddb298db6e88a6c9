SPECIFICATION Spec
CONSTANTS
    SettleTarget = 2
    CoastLimit = 1
    StaleLimit = 2
    SeqMod = 4
    Ticks = 2
    CmdDelay = 1
    DelayTicks = 1
    Lossy = TRUE
    AutoArm = TRUE
    Requests = {}
    Truths = {"settled"}
    Attempts = 3
    MaxFaults = 1
    SlowHost = TRUE
INVARIANTS
    OneTransaction
    CountersClose
    SuccessMeansAgreement
    FaultsAreReported
    RetriesAreHarmless
PROPERTIES
    RunEnds
    ImplementsHeadless
