SPECIFICATION FairSpec
CONSTANTS
    Nodes = {n1, n2}
    Jobs = {j1, j2}
    Managers = {m1}
    Gpus <- OneGpu
    GpuCount <- OneForAll
    NoLabel = NoLabel
    MaxFlips = 1
    MaxFaults = 1
CHECK_DEADLOCK FALSE
INVARIANTS
    TypeOK
    QuarantineHolds
PROPERTIES
    RoomGetsUsed
