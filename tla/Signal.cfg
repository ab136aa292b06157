SPECIFICATION FairSpec
CONSTANTS
    UNSIG_BATCH = 4
    Policies = {"now", "ahead", "last"}
    Sizes <- MCSizes
    NumQPs = 2
    Q_DEPTH = 8
INVARIANTS TypeOK PollFindsSignal PostFits UnackedBound OneSignalOutstanding
PROPERTY SenderProgress
