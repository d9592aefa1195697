\* A callback registered through a copy of the TX's Querier.
CONSTANTS
    Tx = {t1}
    Copy = {c1}
    NoTx = NoTx
    MaxCalls = 1
SPECIFICATION Spec
CHECK_DEADLOCK FALSE
INVARIANTS
    CopyCallbacksRun
