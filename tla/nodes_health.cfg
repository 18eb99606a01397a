SPECIFICATION FairSpec
CONSTANTS
    Nodes = {n1}
    Jobs = {j1}
    Managers = {m1, m2}
    Gpus <- OneGpu
    GpuCount <- OneForAll
    NoLabel = NoLabel
    MaxFlips = 2
    MaxFaults = 2
CHECK_DEADLOCK FALSE
PROPERTIES
    NodesFollowHealth
