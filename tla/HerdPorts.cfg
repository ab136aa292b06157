SPECIFICATION Spec
CONSTANTS
    NUM_CLIENTS = 2
    NUM_WORKERS = 1
    WINDOW_SIZE = 2
    UNSIG_BATCH = 3
    Postlist = 2
    NumServerPorts = 2
    HRD_Q_DEPTH = 6
INVARIANTS RecvsSuffice PortMatches QueuesFit
