SPECIFICATION LiveSpec
CONSTANTS
    NUM_CLIENTS = 1
    NUM_WORKERS = 2
    WINDOW_SIZE = 2
    UNSIG_BATCH = 2
    Postlist = 1
    NumServerPorts = 1
    HRD_Q_DEPTH = 4
INVARIANTS TypeOK SlotsNotOverwritten WindowsAgree
PROPERTIES ImplementsRpc WindowReturns
