SPECIFICATION FairSpec
CONSTANTS
    Jobs = {j1}
    Managers = {m1}
    Specs <- GoodAndBad
    MaxVersions = 5
    MaxFaults = 1
    MaxCrashes = 1
    FetchMayFail = TRUE
CHECK_DEADLOCK FALSE
INVARIANTS
    TypeOK
PROPERTIES
    OnlyDoomedPodsDeleted
    OutcomeReported
    VanishedPodNoticed
