\* Two replicas, and two Queriers derived from the DB's.
CONSTANTS
    Querier = {db, q1, q2}
    DB = db
    Replica = {r1, r2}
    Master = master
    MaxWrites = 2
SPECIFICATION Spec
SYMMETRY Symmetry
INVARIANTS
    PinnedToMaster
    ReplicaReadsAreMonotonic
    WritesReachMaster
