\* Two callers of any command, with signals.
CONSTANTS
    slotA = slotA
    slotB = slotB
    caller1 = caller1
    caller2 = caller2
    none = none
    torn = torn
    Slots <- MCSlots
    NoSlot <- none
    FactorySlot <- slotA
    Invalid <- torn
    Procs <- MCProcs
    Commands <- AllKinds
    MaxCommands = 3
    MaxSignals = 1

SPECIFICATION FairFilesSpec
INVARIANTS
    LockExcludes
PROPERTIES
    CommitsAreAtomic
    CommandsEnd
CHECK_DEADLOCK FALSE
