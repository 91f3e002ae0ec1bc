\* Two failures and two signals, at any step, for every kind of image.
CONSTANTS
    MaxFaults = 2
    MaxSignals = 2

SPECIFICATION Spec
INVARIANTS
    VerifiedOrOriginal
    OriginalKept
    MountedIsAlarmed
CHECK_DEADLOCK FALSE
