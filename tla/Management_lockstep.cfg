\* Two community nodes with the same waits.
CONSTANTS
    ap2 = ap2 ap3 = ap3 node1 = node1 node2 = node2
    Nodes = {node1, node2}
    InitialWait <- SameInitial
    ProbeWait <- SameProbe
    Again = 1
    Lease = 8
    Renew = 4
    Rebind = 1
    MaxSwitches = 0
    MaxRestarts = 0

SPECIFICATION LoopsSpec
PROPERTIES
    OneServer
CHECK_DEADLOCK TRUE
