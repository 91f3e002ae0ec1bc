\* A browser at each access point of a pair, in different time zones; one
\* failure, time-out, lost request or change of health, and a restore that fails.
CONSTANTS
    Nodes = {"ap1", "ap2"}
    Peer <- Other
    Zones = {"UTC", "z1", "z2"}
    Known <- Databases
    Factory = "UTC"
    Ssh = {"s1", "s2"}
    Free = Free NoBrowser = NoBrowser Nothing = Nothing
    Browsers = {"w1", "w2"}
    Host <- Looks
    BrowserZone <- Reports
    Systems <- Overviews
    MaxUses = 3
    MaxFaults = 1

SPECIFICATION FairSpec
INVARIANTS
    Restored
    PairAgrees
    DetectedOnce
    GoodIsComplete
PROPERTIES
    CallsEnd
    ShownInTheEnd
CHECK_DEADLOCK FALSE
