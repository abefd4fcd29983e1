SPECIFICATION Spec
CONSTANTS
    t1 = t1
    t2 = t2
    t3 = t3
    Threads = {t1, t2, t3}
    Keys = {1, 2, 3, 4, 5}
    Hi <- MCHi
    Lo <- MCLo
    Values = {"a", "b", "big"}
    Oversize <- MCOversize
    MaxEntries = 2
    ShardCount = 2
    MaxCalls = 4
SYMMETRY Perms
INVARIANTS
    BoundedOvershoot
PROPERTY IsMemoTable
