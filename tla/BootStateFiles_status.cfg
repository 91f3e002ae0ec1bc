\* An unlocked status beside a locked accept.
CONSTANTS
    slotA = slotA
    slotB = slotB
    caller1 = caller1
    caller2 = caller2
    none = none
    torn = torn
    Slots <- MCSlots
    NoSlot <- none
    FactorySlot <- slotA
    Invalid <- torn
    Procs <- MCProcs
    Commands <- StatusAndAccept
    MaxCommands = 2
    MaxSignals = 0

SPECIFICATION FairFilesSpec
PROPERTIES
    CommitsAlwaysAtomic
CHECK_DEADLOCK FALSE
