SPECIFICATION FairSpec
CONSTANTS
    e1 = e1
    e2 = e2
    e3 = e3
    e4 = e4
    e5 = e5
    k1 = k1
    k2 = k2
    k3 = k3
    k4 = k4
    Producers = {p1, p2}
    Events = {e1, e2, e3, e4, e5}
    KeyOf <- MCKeyOf
    QueueMax = 2
    NULL = NULL
INVARIANTS CacheConsistent StoredOnce
PROPERTIES SleepersWake StopReturns
CHECK_DEADLOCK FALSE
