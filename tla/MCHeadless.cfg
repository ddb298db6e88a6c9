SPECIFICATION Spec
CONSTANTS
    SettleTarget = 2
    CoastLimit = 1
    StaleLimit = 3
    SeqMod = 4
    Ticks = 5
    CmdDelay = 1
    DelayTicks = 1
    Lossy = TRUE
    AutoArm = FALSE
    Requests = {"ARM", "LAUNCH", "ABORT"}
    Truths = {"settled", "off", "diverged", "nonfinite"}
INVARIANTS
    EndsPaired
