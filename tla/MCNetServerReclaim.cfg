SPECIFICATION Spec
CONSTANTS
    ProcessorCount = 2
    MaxConns = 1
    MaxFd = 1
    MaxPages = 1
PROPERTIES
    ClosedIsDeleted
CHECK_DEADLOCK FALSE
