\* Structs of up to two declarations, types that both parsers write alike.
CONSTANTS
    Decl <- PlainDecl
    Table = {"people"}
    Unexported = {"u"}
    NotGenerated = NotGenerated
    MaxFields = 2
SPECIFICATION StructSpec
INVARIANTS
    TypeOK
    StaleFieldsPanic
    FreshStarts
