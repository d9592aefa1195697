CONSTANTS
    user = user
    User = User
    orders = orders
    id = id
    data = data
    Table <- MCTable
    Column <- MCColumn
    FileName = {"user", "orders"}
    Lower <- MCLower
    Bytes = {data}
    NoColumn = NoColumn
    Inputs <- MCInputs
    Schemas <- MCSchemas
    MaxWait = 1
    PingTime = 1
    MaxAlter = 1
    MaxDrops = 1
SPECIFICATION FairSpec
INVARIANTS TypeOK PingsUntilDeadline ExecutesInOrder FilesMatchSchema GeneratorAcceptsInit
PROPERTY EveryRunEnds
CHECK_DEADLOCK FALSE
