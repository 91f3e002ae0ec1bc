\* The A/B update cycle on the two slots of the device: safety, and that it comes to rest.
CONSTANTS
    slotA = slotA
    slotB = slotB
    none = none
    torn = torn
    Slots <- MCSlots
    NoSlot <- none
    FactorySlot <- slotA
    Invalid <- torn
    HealthChecks = 3
    StableChecks = 2
    MaxFaults = 2
    MaxUploads = 2
    MaxRequests = 1
    MaxReboots = 2

SPECIFICATION FairSpec
INVARIANTS
    RecordCoherent
    BootingIsRunning
    BadImageNeverStrands
PROPERTIES
    AcceptedUntouched
    OneStartPerCredit
    Settles
CHECK_DEADLOCK FALSE
