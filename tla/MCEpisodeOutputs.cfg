SPECIFICATION Spec
CONSTANTS
    SettleTarget = 2
    CoastLimit = 1
    StaleLimit = 3
    SeqMod = 4
    MaxTick = 2
    AutoArm = TRUE
    CmdOpcodes = {"ARM", "LAUNCH", "ABORT", "BAD"}
    Leads <- LateOrEarly
    Classes = {"settled", "diverged"}
    SimFlags = {"horizon", "angle", "other"}
    Stops = {"SIGNAL"}
INVARIANTS
    TwinsAgree
