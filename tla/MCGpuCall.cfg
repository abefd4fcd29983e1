SPECIFICATION Spec
CONSTANTS
    Workloads <- MCWorkloads
    Shared <- MCShared
INVARIANTS
    ReturnsClean
    PinsAreKept
    ReadsAreReady
    OkDelivers
    ResidIsOfX
