\* Two goroutines over one connection, each up to two calls deep; no symmetry.
CONSTANTS
    Proc = {p1, p2}
    PoolSize = 1
    MaxDepth = 2
    MaxRows = 1
SPECIFICATION FairSpec
INVARIANTS TypeOK WaitsHoldingNothing
PROPERTY EveryoneReturns
