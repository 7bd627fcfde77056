SPECIFICATION LockSpec
CONSTANTS
    Readers = {r1}
    Writers = {w1, w2}
    Ops = {"connect", "update"}
    MaxSleeps = 2
    MaxWrites = 3
    Nobody = Nobody
INVARIANTS OneWriter
CHECK_DEADLOCK FALSE
