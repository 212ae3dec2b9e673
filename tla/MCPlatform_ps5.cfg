CONSTANTS
    PLATFORM = "ps5"
    Threads = {t1, t2}
    Sockets = {s1}
    INITIAL_SIZE = 1
    MAX_SIZE = 2
SPECIFICATION FairSpec
INVARIANTS
    ThreadMemorySafe
    ThreadResourcesReleased
    SocketResourcesReleased
PROPERTY
    ThreadsRefineService
CHECK_DEADLOCK FALSE
