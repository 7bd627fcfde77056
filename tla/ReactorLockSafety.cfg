SPECIFICATION FairLockSpec
CONSTANTS
    Readers = {r1}
    Writers = {w1, w2}
    Ops = {"connect", "update", "start", "stop"}
    MaxSleeps = 1
    MaxWrites = 3
    Nobody = Nobody
INVARIANTS LockConsistent NoReaderWhileWriting
PROPERTIES ImplementsAccess WriterReturns ReaderReturns
CHECK_DEADLOCK FALSE
