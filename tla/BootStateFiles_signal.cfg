\* An accept and a recovery, and one INT or TERM.
CONSTANTS
    slotA = slotA
    slotB = slotB
    caller1 = caller1
    caller2 = caller2
    none = none
    torn = torn
    Slots <- MCSlots
    NoSlot <- none
    FactorySlot <- slotA
    Invalid <- torn
    Procs <- MCProcs
    Commands <- AcceptAndRecovery
    MaxCommands = 2
    MaxSignals = 1

SPECIFICATION FairFilesSpec
PROPERTIES
    CommitsAlwaysAtomic
CHECK_DEADLOCK FALSE
