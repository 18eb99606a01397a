SPECIFICATION Spec
CONSTANTS
    Jobs = {j1}
    Managers = {m1, m2}
    Specs <- GoodAndBad
    MaxVersions = 3
    MaxFaults = 1
    MaxCrashes = 0
    FetchMayFail = FALSE
CHECK_DEADLOCK FALSE
SYMMETRY AnyManager
INVARIANTS
    PendingJobIsTracked
    LeftoverPodIsTracked
PROPERTIES
    FollowsLifecycle
