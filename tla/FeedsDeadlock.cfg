SPECIFICATION Spec
CONSTANTS
    Readers = {f1}
    Writers = {}
    Workers = {k1}
    Admin = admin
    NULL = NULL
SYMMETRY Symm
INVARIANTS NoDeadlock
CHECK_DEADLOCK FALSE
