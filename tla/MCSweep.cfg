\* Rows of both kinds, faults at any step, readers at any moment.
SPECIFICATION Spec
CONSTANTS
    Invocations <- SweepInvocations
    MaxChanges = 2
    ChangeRows = 2
    MaxStarts = 2
INVARIANTS
    GateMeansWhole
    ChildrenStopped
PROPERTIES
    SweepEnds
CHECK_DEADLOCK FALSE
