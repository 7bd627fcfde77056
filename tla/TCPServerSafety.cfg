SPECIFICATION FairSpec
CONSTANTS
    Conns = {c1, c2, c3}
    Pipelining = {c1}
    NULL = NULL
INVARIANTS ServerConsistent NeverDeaf HandledInPool
PROPERTIES StopReturns
CHECK_DEADLOCK FALSE
