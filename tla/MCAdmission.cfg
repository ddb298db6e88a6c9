SPECIFICATION AdmissionSpec
CONSTANTS
    TickBase = 1
    SkewMax = 2
    MaxSkew = 2
    RxMax = 1
    Warmup = 1
    MaxCycles = 3
    MaxTick = 4
    Uses = {"valid", "invalid", "nonfinite"}
    EnvelopeReasons = {"horizon", "bad"}
    Bodies = {"a", "b"}
INVARIANTS
    IdentitiesHold
    BuffersSuffice
    HeldIsNewest
    TerminalNotLost
