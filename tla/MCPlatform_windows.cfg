CONSTANTS
    PLATFORM = "windows"
    Threads = {t1, t2}
    Sockets = {s1}
    INITIAL_SIZE = 1
    MAX_SIZE = 2
SPECIFICATION FairSpec
INVARIANTS
    InitNoAdapterBufferLeak
    SocketCloseOnlyOpenHandles
PROPERTY
    InitReturns
CHECK_DEADLOCK FALSE
