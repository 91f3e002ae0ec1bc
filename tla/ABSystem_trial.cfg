\* A second upload over a staged slot, no faults, no requests.
CONSTANTS
    slotA = slotA
    slotB = slotB
    none = none
    torn = torn
    Slots <- MCSlots
    NoSlot <- none
    FactorySlot <- slotA
    Invalid <- torn
    HealthChecks = 3
    StableChecks = 2
    MaxFaults = 0
    MaxUploads = 2
    MaxRequests = 0
    MaxReboots = 1

SPECIFICATION Spec
INVARIANTS
    TrialIsVerified
CHECK_DEADLOCK FALSE
