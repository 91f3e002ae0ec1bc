\* A cooldown that is shorter than the hard delay, as set-wifi accepts it.
CONSTANTS
    Clusters = {"a"}
    Samples = 1
    Cooldown = 1
    MinAge = 0
    Delay = 2
    Window = 3
    MaxAge = 3
    SyncInterval = 2
    SyncTime = 1
    MaxFaults = 0
    MaxChanges = 0

SPECIFICATION Spec
PROPERTIES
    HardFallbackComes
