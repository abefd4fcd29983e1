SPECIFICATION Spec
CONSTANTS
    Clients = {"coordinator"}
    Coordinator = "coordinator"
    N = 1
    Local <- MCLocal
    Consume = TRUE
    MaxAttempts = 2
    MaxQids = 2
    MaxGrants = 2
    MaxFaults = 1
    MaxGets = 2
INVARIANT AbsentIsGenuine
