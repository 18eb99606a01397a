SPECIFICATION FairSpec
CONSTANTS
    Managers = {m1,m2}
    Nodes = {n1,n2}
    MaxGpus = 1
    MaxTicks = 3
    MaxLabels = 1
    MaxRollouts = 1
    MaxDeletes = 1
    MaxFaults = 1
    MaxCrashes = 1
INVARIANTS
    TypeOK
    CalmNodeIsHealthy
    ChaosIsNoticed
PROPERTIES
    NewestMetricsWin
    ExportFollowsMap
CHECK_DEADLOCK FALSE
