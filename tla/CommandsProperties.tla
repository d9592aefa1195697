------------------------- MODULE CommandsProperties -------------------------
(***************************************************************************)
(* What must hold of Commands, whatever the hooks return, the connection   *)
(* does and the other clients change between two statements.               *)
(***************************************************************************)
EXTENDS Commands

Answered == pc = "idle" /\ op # "none"
Change   == Id \X (Row \cup {Absent})

\* Every variable has its type; in particular a record in memory is never
\* filled with anything its fields cannot hold.
TypeOK ==
    /\ rows \in [Id -> Row \cup {Absent}]
    /\ pc \in {"idle", "called", "insert"}
    /\ op \in Ops \cup {"none"}
    /\ rec \in Record
    /\ err \in Errs \cup {"none"}
    /\ refused \in HookErrs
    /\ wrote \in SUBSET Change

\* When Insert, Update or Save returns nil, exactly one row was changed: the
\* row under the record's primary key now, and it was given every field of the
\* record as it is now, the stamps of all hooks included.  For Save this holds
\* whichever of its two statements did it, and whoever inserted or deleted
\* the row between them.
NilMeansStored ==
    Answered /\ err = "nil" /\ op \in {"Insert", "Update", "Save"} =>
        wrote = {<<rec.id, [a |-> rec.a, b |-> rec.b]>>}

\* A command that returns any error but one of the driver has changed
\* nothing, not even by the first of two statements, by one record of several
\* or by one column of several; and one that works on a single record changes
\* at most one row even then.
ErrorsChangeNothing ==
    /\ Answered /\ err \notin {"nil", "driverErr"} => wrote = {}
    /\ op \notin {"InsertMulti", "UpdateView", "DeleteFrom"} =>
          \A m, n \in wrote : m = n

\* "Returning error aborts operation" (base.go:92, base.go:99): when a hook of
\* any of its records refused, the command returns that error and has changed
\* nothing.  Save and SaveColumns are the exception, see HookAbortsSave.
HookAborts ==
    Answered /\ refused # "nil" /\ op \notin {"Save", "SaveColumns"} =>
        err = refused /\ wrote = {}

\* Save finds its way for every record: unless a hook says so, it never
\* returns ErrNoRows or ErrNoPK.  What is left to fail is a row with the same
\* key that another client inserted between the two statements.
SaveDecides ==
    Answered /\ op \in {"Save", "SaveColumns"} /\ refused = "nil" =>
        err \notin {"noRows", "noPK", "mixedPK"}

-----------------------------------------------------------------------------
\* To its caller and to every other client each command is one change of the
\* table that agrees with what it returns: Save is an upsert, although others
\* change the row between its UPDATE and its INSERT.
AC == INSTANCE AtomicCommands WITH
         busy  <- IF pc = "idle" THEN "none" ELSE op,
         acted <- wrote # {}

ImplementsAtomicCommands == AC!Atomic

-----------------------------------------------------------------------------
\* What the documentation says and the code does not do.

\* "Returning error aborts operation" (base.go:99), of BeforeUpdate.
HookAbortsSave ==
    Answered /\ refused # "nil" /\ op \in {"Save", "SaveColumns"} => wrote = {}
=============================================================================
