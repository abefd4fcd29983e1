SPECIFICATION Spec
CONSTANTS
    w1 = w1
    w2 = w2
    Workers = {w1, w2}
    Own = {w2}
    Registry <- MCRegistry
    Invoke <- MCInvoke
    Graphs <- MCGraphs
    Empty = Empty
    Fingerprint <- OneForeign
    Mine = 7
    FilterOf <- AnyTask
    NoOp = NoOp
    content_key <- MCContentKey
    Memos <- MCMemos
    Dedups <- MCDedups
    MaxRecoveries <- MCRecoveries
    MaxAttempts <- MCAttempts
    LeaseTimeout = 1
    DefaultExtend = 1
    MaxNow = 1
INVARIANTS
    OriginsSound
    CompletedHasResult
    InFlightAccounted
    ResultsBelong
PROPERTIES
    MemoSound
    ImplementsTaskRun
    Termination
