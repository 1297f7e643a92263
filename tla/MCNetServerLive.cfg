SPECIFICATION Spec
CONSTANTS
    ProcessorCount = 2
    MaxConns = 2
    MaxFd = 1
    MaxPages = 2
PROPERTIES
    DataIsRead
    EndCloses
    ResetCloses
CHECK_DEADLOCK FALSE
