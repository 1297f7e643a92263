SPECIFICATION Spec
CONSTANTS
    Threads = {t1, t2, t3, t4}
    NoThread = NoThread
    MaxSkew = 2
SYMMETRY Symmetry
INVARIANTS
    TypeOK
    InsideIsHolder
    CountedUnlessTimed
CHECK_DEADLOCK FALSE
