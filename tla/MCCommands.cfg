\* A dialect that asks for the last insert id: mysql, sqlite3.
CONSTANTS
    Id = {i1, i2}
    NoId = NoId
    Val = {v1, v2}
    Default = v1
    Absent = Absent
    Method = "LastInsertId"
SPECIFICATION Spec
INVARIANTS
    NilMeansStored
    HookAborts
    SaveDecides
PROPERTIES
    ImplementsAtomicCommands
