SPECIFICATION FairSpec
CONSTANTS
    Jobs = {j1}
    Managers = {m1}
    Hosts = {n1}
    Gpus <- OneGpu
    GpuCount <- OneForAll
    Image = "a"
    Nowhere = Nowhere
    NoLabel = NoLabel
    MaxVersions = 3
    MaxFaults = 1
    MaxCrashes = 1
    MaxFlips = 2
    MaxNodeFaults = 1
INVARIANT TypeOK
PROPERTIES
    JobsEnd
    LeftoverPodsGo
    FollowsNodePass
CHECK_DEADLOCK FALSE
