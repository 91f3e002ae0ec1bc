\* One signal and no failure: an image that is refused, and its restoration.
CONSTANTS
    MaxFaults = 0
    MaxSignals = 1

SPECIFICATION Spec
INVARIANTS
    NeverSilentlyLost
CHECK_DEADLOCK FALSE
