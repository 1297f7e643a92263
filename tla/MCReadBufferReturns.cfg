SPECIFICATION Spec
CONSTANTS
    PageSize = 4
    HeadLen = 2
    PoolPages = 3
    MaxMsgs = 2
    BodyLens = {0, 1, 2, 7}
    WildLens = {3, 99}
PROPERTIES
    ReadTellsWhatItRead
CHECK_DEADLOCK FALSE
