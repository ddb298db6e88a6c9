SPECIFICATION Spec
CONSTANTS
    SettleTarget = 2
    CoastLimit = 1
    StaleLimit = 2
    SeqMod = 4
    Ticks = 3
    CmdDelay = 1
    DelayTicks = 1
    Lossy = FALSE
    AutoArm = TRUE
    Requests = {}
    Truths = {"settled"}
    Attempts = 1
    MaxFaults = 1
    SlowHost = FALSE
INVARIANTS
    StopIsOrderly
