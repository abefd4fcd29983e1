SPECIFICATION Spec
CONSTANTS
    Workloads <- TwoCalls
    Shared <- MCShared
INVARIANTS
    RcIsOwn
