SPECIFICATION Spec
CONSTANTS
    Jobs = {j1}
    Managers = {m1}
    Specs <- GoodAndBad
    MaxVersions = 6
    MaxFaults = 0
    MaxCrashes = 0
    FetchMayFail = FALSE
CHECK_DEADLOCK FALSE
PROPERTIES
    TerminalJobsGetNoPod
