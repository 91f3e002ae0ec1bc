\* One tab, a change by others, and an answer that fails or never comes.
CONSTANTS
    w1 = w1
    Tabs = {w1}
    Names = {"n1", "n2"}
    Starts <- Starting
    Others <- Changed
    Edits <- Inputs
    Secret12 = {"long"}
    NoTab = NoTab NoArgs = NoArgs Failed = Failed Done = Done
    MaxUses = 3
    MaxFaults = 1

SPECIFICATION FairSpec
INVARIANTS
    RefusedOnlyUnseen
PROPERTIES
    UntouchedKept
    OperationsEnd
    ShownInTheEnd
