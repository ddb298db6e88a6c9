SPECIFICATION Spec
CONSTANTS
    SettleTarget = 2
    CoastLimit = 1
    StaleLimit = 4
    SeqMod = 4
    MaxTick = 4
    AutoArm = FALSE
    CmdOpcodes = {"ARM", "LAUNCH", "ABORT", "BAD"}
    Leads <- LateAndEarly
    Classes = {"settled"}
    SimFlags = {"horizon"}
    Stops = {}
INVARIANTS
    CommandLedger
PROPERTIES
    AbortStands
    OutputIsRecent
