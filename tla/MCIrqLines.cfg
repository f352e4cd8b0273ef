SPECIFICATION LinesSpec
CONSTANTS
    k1 = k1
    k2 = k2
    a = a
    NCpus = 2
    MaskBits = {0, 1, 2}
    Keyboards = {k1, k2}
    Boards <- MCBoards
    Keys = {a}
    NoKey = NoKey
    MaxKeys = 3
INVARIANTS KeysKept
CHECK_DEADLOCK FALSE
