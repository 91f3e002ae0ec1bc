\* The pair, with loops that are restarted or killed.
CONSTANTS
    ap2 = ap2 ap3 = ap3 node1 = node1 node2 = node2
    Nodes = {ap2, ap3}
    InitialWait <- PairInitial
    ProbeWait <- PairProbe
    Again = 1
    Lease = 8
    Renew = 4
    Rebind = 1
    MaxSwitches = 2
    MaxRestarts = 1

SPECIFICATION LoopsSpec
INVARIANTS
    FallbackIsOwned
PROPERTIES
    OneServer
    SomeoneServes
    UpstreamWins
CHECK_DEADLOCK TRUE
