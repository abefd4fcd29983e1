SPECIFICATION GraphSpec
CONSTANTS
    Chars <- MCChars
    CallerOpIds <- MCCallerOpIds
    MaxOpIdLen = 7
    TaskFns = {f, g}
    Literals <- MCLiterals
    DepLists <- MCDepLists
    MaxTasks = 3
INVARIANTS
    GraphTypeOK
    DepsPrecede
    WavefrontIsTight
    LevelsPartition
