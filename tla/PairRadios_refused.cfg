\* A pair from its first boot on, with settings that stay and one call that fails.
CONSTANTS
    Channels <- MCChannels
    Fallback <- MCFallback
    Attempts <- MCAttempts
    Noise <- MCNoise
    Configs = {"new", "old"}
    Shipped = "old"
    MaxFaults = 1
    MaxCommands = 0

SPECIFICATION Spec
INVARIANTS
    NeverHalfConfigured
CHECK_DEADLOCK FALSE
