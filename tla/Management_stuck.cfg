\* A restart of the service: what does the loop take for a lease?
CONSTANTS
    ap2 = ap2 ap3 = ap3 node1 = node1 node2 = node2
    Nodes = {ap2, ap3}
    InitialWait <- PairInitial
    ProbeWait <- PairProbe
    Again = 1
    Lease = 8
    Renew = 4
    Rebind = 1
    MaxSwitches = 0
    MaxRestarts = 1

SPECIFICATION LoopsSpec
PROPERTIES
    ActiveIsLeased
CHECK_DEADLOCK TRUE
