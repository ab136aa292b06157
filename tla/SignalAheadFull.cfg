SPECIFICATION Spec
CONSTANTS
    UNSIG_BATCH = 4
    Policies = {"ahead"}
    Sizes <- MCSizesFull
    NumQPs = 1
    Q_DEPTH = 8
INVARIANT PollFindsSignal
