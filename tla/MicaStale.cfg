SPECIFICATION SSpec
CONSTANTS
    Keys <- MCKeys
    Values = {v1, v2}
    NumBkts = 2
    NumSlots = 2
    LogCap = 8
    EntryLen = 2
    LogMargin = 3
    VSpace = 16
    Word = 64
    PopKeys <- MCPopKeysLap
    MaxBatch = 3
    MaxOps = 3
CHECK_DEADLOCK FALSE
INVARIANT AnswersValid
