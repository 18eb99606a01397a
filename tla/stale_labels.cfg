SPECIFICATION Spec
CONSTANTS
    Nodes = {n1}
    Jobs = {j1, j2}
    Managers = {m1}
    Gpus <- OneGpu
    GpuCount <- OneForAll
    NoLabel = NoLabel
    MaxFlips = 0
    MaxFaults = 0
CHECK_DEADLOCK FALSE
PROPERTIES
    CreatedWithinCapacity
