SPECIFICATION Spec
CONSTANTS
    ProcessorCount = 2
    MaxConns = 3
    MaxFd = 2
    MaxPages = 1
INVARIANTS
    TypeOK
    DescriptorsOwned
    WatchedByOwner
    EventsOnlyForOpen
PROPERTIES
    NoForeignClose
CHECK_DEADLOCK FALSE
