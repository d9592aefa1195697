\* Two goroutines compete for one connection; fair behaviours, no symmetry.
CONSTANTS
    Proc = {p1, p2}
    PoolSize = 1
    MaxRows = 2
SPECIFICATION FairSpec
CHECK_DEADLOCK FALSE
INVARIANTS
    RowsClosed
    NilMeansAll
    OneRowOrError
PROPERTIES
    EveryCallReturns
