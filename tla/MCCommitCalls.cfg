\* One transaction whose callback list grows to a shared array of capacity 4;
\* fair behaviours.
CONSTANTS
    Tx = {t1}
    Copy = {c1}
    NoTx = NoTx
    MaxCalls = 4
SPECIFICATION FairSpec
CHECK_DEADLOCK FALSE
INVARIANTS
    CallbacksOnlyAfterCommit
    AtMostOnce
    OwnCallbacksRunInOrder
PROPERTIES
    AnswersOnceFReturns
