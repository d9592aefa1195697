\* The magic comment is edited.
CONSTANTS
    Decl <- PlainDecl
    Table = {"people", "persons"}
    Unexported = {"u"}
    NotGenerated = NotGenerated
    MaxFields = 1
SPECIFICATION StructSpec
INVARIANTS
    StaleTablePanics
