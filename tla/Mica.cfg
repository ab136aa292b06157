SPECIFICATION SSpec
CONSTANTS
    Keys <- MCKeys
    Values = {v1, v2}
    NumBkts = 2
    NumSlots = 2
    LogCap = 8
    EntryLen = 3
    LogMargin = 4
    VSpace = 16
    Word = 64
    PopKeys <- MCPopKeys
    MaxBatch = 3
    MaxOps = 4
CHECK_DEADLOCK FALSE
INVARIANTS TypeOK TagIsFound LiveEntriesIntact AnswersValidUnlessLapped
PROPERTIES ImplementsStore LossesAccounted
