SPECIFICATION Spec
CONSTANTS
    Payloads <- MCPayloads
    Filters <- MCFilters
    AttemptLimits <- MCAttemptLimits
    DefaultMaxAttempts = 2
    Timeouts <- MCTimeouts
    DefaultTimeout = 2
    DefaultExtend = 2
    MaxQids = 2
    MaxNow = 3
    MaxFaults = 1
INVARIANTS
    TypeOK
    FencedCommit
    LivesAccounted
PROPERTIES
    NoEarlyReclaim
