SPECIFICATION Spec
CONSTANTS
    Jobs = {j1}
    Managers = {m1}
    Specs <- GoodAndBad
    MaxVersions = 3
    MaxFaults = 0
    MaxCrashes = 0
    FetchMayFail = TRUE
CHECK_DEADLOCK FALSE
INVARIANTS
    PendingJobIsTracked
