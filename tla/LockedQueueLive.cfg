SPECIFICATION WorkerSpec
CONSTANTS
    Producers = {p1}
    Consumers = {c1, c2}
    Nodes = {n1, n2}
    Values = {a}
    MaxSize = 1
    VersionModulus = 65536
    MaxPush = 1
    TimersAllowed = TRUE
    StopAllowed = TRUE
    SpuriousAllowed = TRUE
    ClearAllowed = FALSE
    NULL = NULL
PROPERTIES StopReturns QueueDrains PushWakesIdle
CHECK_DEADLOCK FALSE
