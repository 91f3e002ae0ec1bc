\* Two clusters; the delays in the order of the defaults, in the fewest ticks.
CONSTANTS
    Clusters = {"a", "b"}
    Samples = 2
    Cooldown = 2
    MinAge = 1
    Delay = 1
    Window = 2
    MaxAge = 3
    SyncInterval = 2
    SyncTime = 1
    MaxFaults = 1
    MaxChanges = 1

SPECIFICATION Spec
INVARIANTS
    FreshNeighbour
PROPERTIES
    HardAfterSoft
    PressedInTheEnd
    SteeringStops
CHECK_DEADLOCK TRUE
