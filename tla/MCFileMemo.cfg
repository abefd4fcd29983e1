SPECIFICATION Spec
CONSTANTS
    Keys = {1, 2}
    Fp <- MCFp
    Values = {"short", "long"}
    Bytes <- MCBytes
    Bounds = {2}
    MaxCalls = 4
    MaxRuns = 3
    MaxTorn = 1
    MaxRot = 1
INVARIANTS
    ServesOnlyOffered
    IntactPrefixSurvives
PROPERTY IsMemoTable
