SPECIFICATION Spec
CONSTANTS
    SettleTarget = 2
    CoastLimit = 1
    StaleLimit = 2
    SeqMod = 4
    SkewMax = 1
    MaxSkew = 1
    RxMax = 2
    Warmup = 1
    Cycles = 2
    Copies = 2
    AutoArm = TRUE
    Ticks = 3
    Lossy = FALSE
    Truths = {"settled", "diverged"}
    Grace = 1
    MaxFaults = 1
INVARIANTS
    PolicyContract
    NoFalseConflict
    MeasurementValid
    EndsAgree
PROPERTIES
    RunEnds
