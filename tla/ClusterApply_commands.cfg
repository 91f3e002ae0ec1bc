\* Two dashboards, in turn or at the same time, with failures and a call that is given up.
CONSTANTS
    n1 = n1 n2 = n2 n3 = n3 p1 = p1 p2 = p2
    Nodes = {n1, n2, n3}
    Coordinators = {n1, n2}
    Profiles = {p1, p2}
    Original = Original
    MaxCommands = 2
    MaxTotal = 2
    MaxFaults = 2
    MaxLate = 1

SPECIFICATION Spec
PROPERTIES
    SuccessSynced
    FailureLeavesCaller
    CommandsEnd
    ValidatedFirst
CHECK_DEADLOCK FALSE
