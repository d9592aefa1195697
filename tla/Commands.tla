------------------------------ MODULE Commands ------------------------------
(***************************************************************************)
(* The commands of a Querier that change a table (querier_commands.go):    *)
(* Insert, InsertColumns, InsertMulti, Update, UpdateColumns, UpdateView,  *)
(* Save, SaveColumns, Delete, DeleteFrom.                                  *)
(*                                                                         *)
(* One goroutine calls them outside a transaction, one after the other, on *)
(* records of its own.  A statement is atomic at the server; between two   *)
(* statements (Save sends up to two) and between two calls Others, that is *)
(* every other client of the database, change the table as they like.      *)
(*                                                                         *)
(* The table has a primary key "id", which the server generates when it is *)
(* not given, and the columns "a" and "b".  Hooks (BeforeInsert,           *)
(* BeforeUpdate) belong to the caller: they may stamp the column "b", set  *)
(* an unset primary key before an INSERT, and return any error.            *)
(***************************************************************************)
EXTENDS FiniteSets

CONSTANTS
    Id,        \* primary keys
    NoId,      \* the zero primary key of a record that has none
    Val,       \* values of the columns "a" and "b"
    Default,   \* what the server stores into a column an INSERT leaves out
    Absent,    \* no row
    Method     \* the dialect's LastInsertIdMethod

ASSUME NamesAssumption == NoId \notin Id /\ Default \in Val
ASSUME AbsentAssumption == Absent \notin [a : Val, b : Val]
ASSUME MethodAssumption == Method \in {"LastInsertId", "Returning", "OutputInserted"}

VARIABLES
    rows,    \* the table
    pc,      \* where the goroutine is
    op,      \* the command called last
    rec,     \* the record it was called with, as it is now in memory
    err,     \* what it returned
    refused, \* history: the first error a hook of this call returned
    wrote    \* history: the rows this call changed, as <<id, row>>

vars == <<rows, pc, op, rec, err, refused, wrote>>

Data    == {"a", "b"}
Column  == {"id"} \cup Data
Row     == [a : Val, b : Val]
Record  == [id : Id \cup {NoId}, a : Val, b : Val]

\* What the caller may pass for a list of columns: a name of no column too.
Columns == SUBSET (Column \cup {"other"})

Ops  == {"Insert", "InsertColumns", "InsertMulti", "Update", "UpdateColumns",
         "UpdateView", "Save", "SaveColumns", "Delete", "DeleteFrom"}
Errs == {"nil", "hookErr", "noRows", "noPK", "duplicate", "driverErr",
         "pkColumn", "badColumns", "nothing", "mixedPK", "mixedTables"}

HookErrs == {"nil", "hookErr", "noRows"}

HasPK(r)   == r.id # NoId
Present    == {i \in Id : rows[i] # Absent}

Init ==
    /\ rows \in [Id -> Row \cup {Absent}]
    /\ pc = "idle" /\ op = "none" /\ err = "none" /\ refused = "nil" /\ wrote = {}
    /\ rec \in Record

Others ==
    /\ \E i \in Id, row \in Row \cup {Absent} : rows' = [rows EXCEPT ![i] = row]
    /\ UNCHANGED <<pc, op, rec, err, refused, wrote>>

\* The caller calls command o with record r.
Call(o, r) ==
    /\ pc = "idle" /\ pc' = "called"
    /\ op' = o /\ rec' = r /\ err' = "none" /\ refused' = "nil" /\ wrote' = {}
    /\ UNCHANGED rows

Called(o) == pc = "called" /\ op = o

Return(e) == pc' = "idle" /\ err' = e /\ UNCHANGED op

\* Return e without a statement: the record may have been changed by a hook.
Abort(r, e) == Return(e) /\ rec' = r /\ UNCHANGED <<rows, wrote>>

-----------------------------------------------------------------------------
\* Hooks: what they make of a record, and the error they return.

BeforeUpdate(r) == {[r EXCEPT !.b = v] : v \in Val}

BeforeInsert(r) ==
    BeforeUpdate(r) \cup IF HasPK(r) THEN {} ELSE {[r EXCEPT !.id = i] : i \in Id}

Refuses(e) == refused' = IF refused = "nil" THEN e ELSE refused

-----------------------------------------------------------------------------
\* Statements, as the server executes them

Stores(new) ==
    /\ rows'  = [i \in Id |-> IF \E n \in new : n[1] = i
                              THEN (CHOOSE n \in new : n[1] = i)[2] ELSE rows[i]]
    /\ wrote' = wrote \cup new

\* INSERT of record r with the columns S: the row it makes.
Inserted(r, S) == [a |-> IF "a" \in S THEN r.a ELSE Default,
                   b |-> IF "b" \in S THEN r.b ELSE Default]

\* UPDATE of the columns S in row i.
Updated(r, S, i) == [a |-> IF "a" \in S THEN r.a ELSE rows[i].a,
                     b |-> IF "b" \in S THEN r.b ELSE rows[i].b]

\* An error of the driver, a broken connection say, leaves open whether the statement was executed.
Breaks(r, new) ==
    /\ Return("driverErr") /\ rec' = r
    /\ \/ Stores(new)
       \/ UNCHANGED <<rows, wrote>>

-----------------------------------------------------------------------------
\* filteredColumnsAndValues: the error for a list of columns.

FilterErr(S, isUpdate) ==
    CASE isUpdate /\ "id" \in S -> "pkColumn"
      [] "other" \in S /\ ~(isUpdate /\ "id" \in S) -> "badColumns"
      [] isUpdate /\ S = {} -> "nothing"
      [] OTHER -> "nil"

\* The primary key read back after an INSERT that made row i: LastInsertId is
\* asked only for a record without one, RETURNING and OUTPUT always answer.  Keys
\* are of the width of their column, so that SetPK has nothing to convert;
\* Statements has those that are narrower, or strings.
Filled(r, i) ==
    IF Method = "LastInsertId" /\ HasPK(r) THEN r ELSE [r EXCEPT !.id = i]

\* insert
insert(r, S) ==
    \/ \E i \in Id \ Present :
          /\ "id" \in S => i = r.id
          /\ LET new == {<<i, Inserted(r, S)>>} IN
             \/ Stores(new) /\ rec' = Filled(r, i) /\ Return("nil")
             \/ Breaks(r, new)
    \/ "id" \in S /\ r.id \in Present /\ Abort(r, "duplicate")
    \/ Abort(r, "driverErr")

\* update by primary key, when it affects the row or fails.  The key is unique,
\* so that no more than one row is affected.
update(r, S) ==
    \/ /\ r.id \in Present
       /\ LET new == {<<r.id, Updated(r, S, r.id)>>} IN
          \/ Stores(new) /\ rec' = r /\ Return("nil")
          \/ Breaks(r, new)
    \/ Abort(r, "driverErr")

\* update or DELETE affects no row: the driver counts the rows it matched.
NoRow(r) == r.id \notin Present

-----------------------------------------------------------------------------
\* INSERT

\* Mutant: the primary key is cut from the columns even when it is set.
insertAllCutting(r) == insert(r, Data)

\* Insert after its hook: all columns, without the primary key when unset.
insertAll(r) == insert(r, IF HasPK(r) THEN Column ELSE Data)

insertWithHook ==
    \E r \in BeforeInsert(rec), e \in HookErrs :
        /\ Refuses(e)
        /\ IF e # "nil" THEN Abort(r, e) ELSE insertAll(r)

Insert == Called("Insert") /\ insertWithHook

\* The caller lists the primary key only for a record that has one.
InsertColumns ==
    /\ Called("InsertColumns")
    /\ \E r \in BeforeInsert(rec), e \in HookErrs, S \in Columns :
        /\ "id" \in S => HasPK(r)
        /\ Refuses(e)
        /\ CASE e # "nil" -> Abort(r, e)
             [] e = "nil" /\ FilterErr(S, FALSE) # "nil" -> Abort(r, FilterErr(S, FALSE))
             [] OTHER -> insert(r, S)

\* Mutant: the error of a hook is kept only until the next hook has run.
FirstErrLast(e1, e2) == e2

FirstErr(e1, e2) == IF e1 # "nil" THEN e1 ELSE e2

\* One statement for two records.  Every hook runs, the first error counts;
\* all records must have a primary key, or none; no key is filled in.
insertRecords ==
    \E r \in BeforeInsert(rec), other \in Record, e1, e2 \in HookErrs :
        /\ refused' = IF e1 # "nil" THEN e1 ELSE e2
        /\ CASE FirstErr(e1, e2) # "nil" -> Abort(r, FirstErr(e1, e2))
             [] FirstErr(e1, e2) = "nil" /\ HasPK(r) # HasPK(other) -> Abort(r, "mixedPK")
             [] OTHER ->
                  \/ \E i, j \in Id \ Present :
                        /\ i # j /\ (HasPK(r) => i = r.id /\ j = other.id)
                        /\ LET new == {<<i, Inserted(r, Data)>>, <<j, Inserted(other, Data)>>} IN
                           \/ Stores(new) /\ rec' = r /\ Return("nil")
                           \/ Breaks(r, new)
                  \/ /\ HasPK(r) /\ (r.id = other.id \/ {r.id, other.id} \cap Present # {})
                     /\ Abort(r, "duplicate")
                  \/ Abort(r, "driverErr")

\* No struct at all, or structs of several tables: not even a hook runs.
insertNone == UNCHANGED refused /\ \E e \in {"nil", "mixedTables"} : Abort(rec, e)

InsertMulti == Called("InsertMulti") /\ (insertNone \/ insertRecords)

-----------------------------------------------------------------------------
\* UPDATE

Update ==
    /\ Called("Update")
    /\ \E r \in BeforeUpdate(rec), e \in HookErrs :
        /\ Refuses(e)
        /\ CASE e # "nil" -> Abort(r, e)
             [] e = "nil" /\ ~HasPK(r) -> Abort(r, "noPK")
             [] OTHER -> update(r, Data) \/ (NoRow(r) /\ Abort(r, "noRows"))

UpdateColumns ==
    /\ Called("UpdateColumns")
    /\ \E r \in BeforeUpdate(rec), e \in HookErrs, S \in Columns :
        /\ Refuses(e)
        /\ CASE e # "nil" -> Abort(r, e)
             [] e = "nil" /\ ~HasPK(r) -> Abort(r, "noPK")
             [] e = "nil" /\ HasPK(r) /\ FilterErr(S, TRUE) # "nil" -> Abort(r, FilterErr(S, TRUE))
             [] OTHER -> update(r, S) \/ (NoRow(r) /\ Abort(r, "noRows"))

\* The tail, any SQL of the caller's, selects rows A.
UpdateView ==
    /\ Called("UpdateView")
    /\ \E r \in BeforeUpdate(rec), e \in HookErrs, S \in Columns, A \in SUBSET Present :
        /\ Refuses(e)
        /\ CASE e # "nil" -> Abort(r, e)
             [] e = "nil" /\ FilterErr(S, TRUE) # "nil" -> Abort(r, FilterErr(S, TRUE))
             [] OTHER -> LET new == {<<i, Updated(r, S, i)>> : i \in A} IN
                         \/ Stores(new) /\ rec' = r /\ Return("nil")
                         \/ Breaks(r, new)

-----------------------------------------------------------------------------
\* Save and SaveColumns: UPDATE, and INSERT of all columns if there was no row

\* ErrNoRows, of the statement or of the hook, leads to the INSERT.
GoOnToInsert(r) ==
    /\ pc' = "insert" /\ rec' = r
    /\ UNCHANGED <<rows, op, err, wrote>>

\* Mutant: the UPDATE is not checked to have found no row.
SaveUpdateUnchecked(S) ==
    \E r \in BeforeUpdate(rec), e \in HookErrs :
        /\ Refuses(e)
        /\ IF e # "nil" THEN Abort(r, e)
           ELSE \/ /\ r.id \in Present /\ Stores({<<r.id, Updated(r, S, r.id)>>})
                   /\ pc' = "insert" /\ rec' = r /\ UNCHANGED <<op, err>>
                \/ NoRow(r) /\ GoOnToInsert(r)

SaveUpdate(S) ==
    \E r \in BeforeUpdate(rec), e \in HookErrs :
        /\ Refuses(e)
        /\ CASE e = "noRows" -> GoOnToInsert(r)
             [] e = "hookErr" -> Abort(r, e)
             [] e = "nil" /\ FilterErr(S, TRUE) # "nil" -> Abort(r, FilterErr(S, TRUE))
             [] OTHER -> update(r, S) \/ (NoRow(r) /\ GoOnToInsert(r))

\* Mutant: the UPDATE is tried for a record without a primary key too.
SaveAlwaysUpdating ==
    /\ Called("Save")
    /\ IF HasPK(rec) THEN SaveUpdate(Data) ELSE Refuses("nil") /\ Abort(rec, "noPK")

Save == Called("Save") /\ IF HasPK(rec) THEN SaveUpdate(Data) ELSE insertWithHook

SaveColumns ==
    /\ Called("SaveColumns")
    /\ IF HasPK(rec) THEN \E S \in Columns : SaveUpdate(S) ELSE insertWithHook

SaveInsert == pc = "insert" /\ insertWithHook

-----------------------------------------------------------------------------
\* DELETE

Delete ==
    /\ Called("Delete") /\ UNCHANGED refused
    /\ \/ ~HasPK(rec) /\ Abort(rec, "noPK")
       \/ /\ rec.id \in Present
          /\ LET new == {<<rec.id, Absent>>} IN
             \/ Stores(new) /\ rec' = rec /\ Return("nil")
             \/ Breaks(rec, new)
       \/ HasPK(rec) /\ NoRow(rec) /\ Abort(rec, "noRows")
       \/ HasPK(rec) /\ Abort(rec, "driverErr")

DeleteFrom ==
    /\ Called("DeleteFrom") /\ UNCHANGED refused
    /\ \E A \in SUBSET Present :
        LET new == {<<i, Absent>> : i \in A} IN
        \/ Stores(new) /\ rec' = rec /\ Return("nil")
        \/ Breaks(rec, new)

Next ==
    \/ Others
    \/ \E o \in Ops, r \in Record : Call(o, r)
    \/ Insert \/ InsertColumns \/ InsertMulti
    \/ Update \/ UpdateColumns \/ UpdateView
    \/ Save \/ SaveColumns \/ SaveInsert
    \/ Delete \/ DeleteFrom

Spec == Init /\ [][Next]_vars
=============================================================================
