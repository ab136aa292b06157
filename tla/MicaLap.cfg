SPECIFICATION SSpec
CONSTANTS
    Keys <- MCKeys
    Values = {v1, v2}
    NumBkts = 2
    NumSlots = 2
    LogCap = 8
    EntryLen = 3
    LogMargin = 4
    VSpace = 32
    Word = 64
    PopKeys <- MCPopKeys
    MaxBatch = 1
    MaxOps = 4
CHECK_DEADLOCK FALSE
INVARIANT PhysicalRoom
