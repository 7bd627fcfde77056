SPECIFICATION Spec
CONSTANTS
    Producers = {p1, p2}
    Consumers = {c1, c2}
    TimersAllowed = FALSE
    Nodes = {n1, n2, n3, n4, n5}
    Values = {a, b}
    MaxSize = 1
    VersionModulus = 65536
    MaxPush = 3
    StopAllowed = FALSE
    SpuriousAllowed = TRUE
    ClearAllowed = TRUE
    NULL = NULL
SYMMETRY Symm
INVARIANTS TypeOK NodesOwnedOnce SizeAccounts NoLostWakeup
PROPERTIES PushWakesIdle ImplementsFifo
CHECK_DEADLOCK FALSE
