SPECIFICATION FairSpec
CONSTANTS
    GpuNodes = {g1, g2}
    Counts = {1, 8}
    Contexts = {"own", "other", "none"}
    HalfDone = {"cluster", "release"}
    MaxFaults = 1
    MaxCrashes = 1
INVARIANTS
    TypeOK
    SuccessMeansReady
PROPERTIES
    RerunsSucceed
    LastDrawIsKnown
CHECK_DEADLOCK FALSE
