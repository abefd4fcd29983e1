SPECIFICATION FairSpec
CONSTANTS
    Clients = {"coordinator"}
    Coordinator = "coordinator"
    N = 3
    Local <- MCLocal
    Consume = FALSE
    MaxAttempts = 2
    MaxQids = 2
    MaxGrants = 2
    MaxFaults = 1
    MaxGets = 1
INVARIANTS
    HolderCanFinish
    OkIsCommitted
    WasteIsLostReplies
    HeldUntilDelivered
PROPERTY EveryCallReturns
