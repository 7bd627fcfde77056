SPECIFICATION Spec
CONSTANTS
    Readers = {f1}
    Writers = {w1, w2}
    Workers = {k1}
    Admin = admin
    NULL = NULL
SYMMETRY Symm
INVARIANTS NotUsedAfterRemoved ResponseFirst OneAtATime QuietAfterNull
CHECK_DEADLOCK FALSE
