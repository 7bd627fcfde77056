SPECIFICATION MCSpec
CONSTANTS
    Reactors = {r1, r2}
    Feeds = {f1, f2}
    Spaces = {s1}
    Threads = {t1, t2}
    MaxFailures = 1
    NULL = NULL
SYMMETRY Symm
INVARIANTS TopologyAgrees PointersRegistered NoDangling
CHECK_DEADLOCK FALSE
