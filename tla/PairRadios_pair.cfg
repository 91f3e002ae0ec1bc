\* A pair from its first boot on: one change of settings, one fault.  Scans tell
\* the 2.4 GHz channels apart only; on 5 GHz each has its fallback, or the other
\* channel when the peer has that.
CONSTANTS
    Channels <- MCChannels
    Fallback <- MCFallback
    Attempts <- MCAttempts
    Noise <- MCNoise
    Configs = {"new", "old"}
    Shipped = "old"
    MaxFaults = 1
    MaxCommands = 1

SPECIFICATION Spec
INVARIANTS
    EntriesBehindFile
PROPERTIES
    PairSettles
CHECK_DEADLOCK FALSE
