\* Two commands of any form, in turn or at the same time, with failures and a full flash.
CONSTANTS
    c1 = c1 c2 = c2 p1 = p1 p2 = p2 bad = bad
    Callers = {c1, c2}
    Profiles = {p1, p2, bad}
    ValidProfiles = {p1, p2}
    StagedProfiles = {p1, bad}
    Original = Original
    Torn = Torn
    Nothing = Nothing
    Shipped = Shipped
    Kinds = {"json", "pair", "staged", "owner"}
    MaxFaults = 2
    MaxFull = 1

SPECIFICATION Spec
INVARIANTS
    InstalledChecked
    HashTells
    SuccessInstalls
PROPERTIES
    ReportTells
CHECK_DEADLOCK FALSE
