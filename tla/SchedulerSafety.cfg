SPECIFICATION FairSpec
CONSTANTS
    Clients = {e1}
    Servers = {}
    Workers = {w1}
    Callers = {k1, k2}
    MaxQueue = 2
    CountWidth = 4
    MaxStarts = 2
    MaxCalls = 2
    MaxPosts = 2
    NULL = NULL
INVARIANTS UsersTyped StoppedIsEmpty
PROPERTIES ActiveUsersDeferShutdown ShutdownReturns JoinReturns
CHECK_DEADLOCK FALSE
