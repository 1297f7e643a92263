SPECIFICATION Spec
CONSTANTS
    PageSize = 3
    Lens = {1, 2, 4}
    MaxBytes = 8
INVARIANTS
    TypeOK
    BytesCounted
    WaitingIsWatched
    SentInOrderUnless
PROPERTIES
    WaitingIsSent
CHECK_DEADLOCK FALSE
