SPECIFICATION FairSpec
CONSTANTS
    Jobs = {j1}
    Managers = {m1}
    Hosts = {n1}
    Gpus <- OneGpu
    GpuCount <- OneForAll
    Image = "a"
    Nowhere = Nowhere
    NoLabel = NoLabel
    MaxVersions = 2
    MaxFaults = 0
    MaxCrashes = 0
    MaxFlips = 2
    MaxNodeFaults = 1
PROPERTY JobsEndOnceHealthy
CHECK_DEADLOCK FALSE
