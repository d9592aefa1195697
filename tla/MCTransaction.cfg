\* Two transactions side by side, one copy, one callback per Querier.
CONSTANTS
    Tx = {t1, t2}
    Copy = {c1}
    NoTx = NoTx
    MaxCalls = 1
SPECIFICATION Spec
SYMMETRY Symmetry
CHECK_DEADLOCK FALSE
INVARIANTS
    NoLeak
    OutcomeMatchesResult
    CallbacksOfOwnTx
PROPERTIES
    DecisionIsFinal
    ImplementsContract
