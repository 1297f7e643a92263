SPECIFICATION Spec
CONSTANTS
    MaxFileSize = 2
    Sizes = {1, 2}
    MaxRecords = 4
    MaxClock = 2
INVARIANTS
    TypeOK
    KeptInOrder
    SizeBounded
