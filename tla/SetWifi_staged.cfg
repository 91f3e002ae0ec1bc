\* A staged file that does not pass the checks.
CONSTANTS
    c1 = c1 c2 = c2 p1 = p1 p2 = p2 bad = bad
    Callers = {c1, c2}
    Profiles = {p1, p2, bad}
    ValidProfiles = {p1, p2}
    StagedProfiles = {p1, bad}
    Original = Original
    Torn = Torn
    Nothing = Nothing
    Shipped = Shipped
    Kinds = {"staged"}
    MaxFaults = 0
    MaxFull = 0

SPECIFICATION Spec
INVARIANTS
    InstalledValid
CHECK_DEADLOCK FALSE
