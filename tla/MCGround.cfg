\* One run's copies over an unreliable link, and the check of its recordings.
SPECIFICATION Spec
CONSTANTS
    MaxCycles = 3
    MaxForeign = 1
    MaxReceived = 3
    MaxFaults = 1
INVARIANT VerdictIsTrue
INVARIANT LossIsNotInvalid
PROPERTY ReceiverEnds
CHECK_DEADLOCK FALSE
