SPECIFICATION Spec
CONSTANTS
    SettleTarget = 3
    CoastLimit = 1
    StaleLimit = 3
    SeqMod = 4
    SkewMax = 1
    MaxSkew = 2
    RxMax = 2
    Warmup = 1
    Cycles = 3
    Copies = 1
    AutoArm = TRUE
    Ticks = 4
    Lossy = TRUE
    Truths = {"settled"}
    Grace = 1
    MaxFaults = 1
INVARIANTS
    LossIsReported
    DelaysAreNotLosses
