SPECIFICATION Spec
CONSTANTS
    PoolSize = 8
    PageSize = 2
INVARIANTS
    TypeOK
    FreeListIsChain
    Conservation
    OnlyLastPageLost
PROPERTIES
    NoDoubleHandout
    ImplementsPagePool
