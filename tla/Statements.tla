------------------------------ MODULE Statements ------------------------------
(***************************************************************************)
(* The statements that commands, finders and selectors build               *)
(* (querier_commands.go, querier_selects.go), in the words of each dialect *)
(* (dialects/), and the key that is read back after an INSERT (base.go).   *)
(*                                                                         *)
(* A statement is a text with slots, in the order in which they stand in   *)
(* it, and a list of arguments.  The server puts arguments into slots: by  *)
(* their order if the text says "?", by their numbers if it says "$1" or   *)
(* "@P1".  A slot and a value are both named by what they are of: <<k, c>> *)
(* is the column c of the k-th struct, <<0, j>> the caller's j-th argument.*)
(***************************************************************************)
EXTENDS Integers, Sequences, FiniteSets, SequencesExt

CONSTANTS
    Views,     \* tables and views: their columns, and which of them is the key
    MaxArgs,   \* bound: arguments of a tail
    MaxId,     \* bound: keys the server generates
    Half       \* integers of a narrow key are those in -Half .. Half - 1

\* What the generator makes sure of (checkFields, parse/base.go:167-183).
IsView(v) ==
    /\ v.columns \in Seq(STRING) /\ v.columns # << >> /\ IsInjective(v.columns)
    /\ v.pk \in 0 .. Len(v.columns)

ASSUME ViewsAssumption == \A v \in Views : IsView(v)
ASSUME ArgsAssumption == MaxArgs \in Nat
ASSUME KeysAssumption == MaxId \in Nat /\ Half \in Nat \ {0}

VARIABLES
    dialect,   \* the dialect, and the server that goes with it
    view,      \* the table; pk = 0 for a view without a primary key
    keyType,   \* the Go type of the key: "wide" and "narrow" integers, "string"
    pc,        \* "idle", "sent": a statement is under way
    op,        \* the function called last
    text,      \* its statement
    args,      \* the arguments that go with it
    err,       \* what it returned
    key,       \* the key of the record in memory; 0 if it has none
    hadKey,    \* whether it had one when its row was inserted
    id,        \* the key of that row
    lastId     \* the key the server generated last

choice == <<dialect, view, keyType>>
vars   == <<choice, pc, op, text, args, err, key, hadKey, id, lastId>>

-----------------------------------------------------------------------------
\* The dialects

Dialects == {"postgresql", "mysql", "sqlite3", "mssql", "sqlserver"}

\* The mark of a slot: its number, 0 for "?".
Placeholder(i) == IF dialect \in {"postgresql", "sqlserver"} THEN i ELSE 0

\* That of sqlserver does not look at start.
Placeholders(start, count) ==
    [i \in 1 .. count |-> IF dialect = "sqlserver" THEN i ELSE Placeholder(start + i - 1)]

LastInsertIdMethod ==
    CASE dialect \in {"mysql", "sqlite3"}    -> "LastInsertId"
      [] dialect = "postgresql"              -> "Returning"
      [] dialect \in {"mssql", "sqlserver"}  -> "OutputInserted"

SelectLimitMethod   == IF dialect \in {"mssql", "sqlserver"} THEN "SelectTop" ELSE "Limit"
DefaultValuesMethod == IF dialect = "mysql" THEN "EmptyLists" ELSE "DefaultValues"

-----------------------------------------------------------------------------
\* Structs

Columns  == view.columns
IsRecord == view.pk # 0
HasPK    == key # 0
PKValue  == <<1, Columns[view.pk]>>

\* A name for each of these columns of the k-th struct.
Of(k, columns) == [i \in DOMAIN columns |-> <<k, columns[i]>>]
Values(k)      == Of(k, Columns)

\* append(s[:pk], s[pk+1:]...)
Cut(s) == RemoveAt(s, view.pk)

\* What S lists, in the order of the struct.
filteredColumnsAndValues(S) ==
    LET Take(r, i) == IF Columns[i] \in S
                      THEN [columns |-> Append(r.columns, Columns[i]),
                            values  |-> Append(r.values, Values(1)[i])]
                      ELSE r
    IN FoldLeftDomain(Take, [columns |-> << >>, values |-> << >>], Columns)

\* The j-th of n arguments of a tail the caller wrote.
Arguments(n) == [j \in 1 .. n |-> <<0, j>>]

-----------------------------------------------------------------------------
\* Texts

Slots(targets, marks) == [i \in DOMAIN targets |-> [to |-> targets[i], mark |-> marks[i]]]

\* list: what stands for the list of columns (or of arguments, after IN);
\* output: how an INSERT returns the key; one: how a SELECT asks for one row.
Text(verb, slots, list) ==
    [verb |-> verb, slots |-> slots, list |-> list, output |-> "none", one |-> "none"]

List(s) == IF s = << >> THEN "empty" ELSE "full"

\* How the caller numbers the slots of a tail that has n arguments.
TailMarks(from, n) ==
    {[j \in 1 .. n |-> Placeholder(from + j - 1)]} \cup
    IF dialect = "sqlserver" /\ from > 1 THEN {} ELSE {Placeholders(from, n)}

Init ==
    /\ dialect \in Dialects /\ view \in Views /\ keyType \in {"wide", "narrow", "string"}
    /\ pc = "idle" /\ op = "none" /\ text = Text("none", << >>, "empty") /\ args = << >>
    /\ err = "nil" /\ key = 0 /\ hadKey = FALSE /\ id = 0 /\ lastId = 0

\* The caller takes a new record, with a key or without.
NewRecord ==
    /\ pc = "idle" /\ key' \in IF IsRecord THEN {0, 1} ELSE {0}
    /\ op' = "none" /\ err' = "nil" /\ id' = 0 /\ hadKey' = FALSE
    /\ UNCHANGED <<choice, pc, text, args, lastId>>

Send(o, t, a) ==
    /\ pc = "idle" /\ pc' = "sent"
    /\ op' = o /\ text' = t /\ args' = a
    /\ UNCHANGED <<choice, err, key, hadKey, id, lastId>>

-----------------------------------------------------------------------------
\* INSERT

InsertList(columns) ==
    CASE columns # << >> -> "full"
      [] columns = << >> /\ DefaultValuesMethod = "EmptyLists" -> "empty"
      [] OTHER -> "default"

insert(o, columns, values) ==
    Send(o,
         [Text("INSERT", Slots(Of(1, columns), Placeholders(1, Len(columns))), InsertList(columns))
             EXCEPT !.output = IF IsRecord THEN LastInsertIdMethod ELSE "none"],
         values)

Insert ==
    IF IsRecord /\ ~HasPK THEN insert("Insert", Cut(Columns), Cut(Values(1)))
                          ELSE insert("Insert", Columns, Values(1))

\* A record without a key does not list it.
InsertColumns(S) ==
    /\ S \subseteq ToSet(Columns) /\ (IsRecord /\ ~HasPK => Columns[view.pk] \notin S)
    /\ LET filtered == filteredColumnsAndValues(S)
       IN insert("InsertColumns", filtered.columns, filtered.values)

\* Mutant: the key is cut from the columns, not from the values.
InsertMultiUncut ==
    LET cut == IsRecord /\ ~HasPK
        columns == IF cut THEN Cut(Columns) ELSE Columns
    IN Send("InsertMulti",
            Text("INSERT", Slots(Of(1, columns) \o Of(2, columns), Placeholders(1, 2 * Len(columns))),
                 List(columns)),
            Values(1) \o Values(2))

\* Two structs, both with a key or both without.
InsertMulti ==
    LET cut == IsRecord /\ ~HasPK
        columns   == IF cut THEN Cut(Columns) ELSE Columns
        values(k) == IF cut THEN Cut(Values(k)) ELSE Values(k)
    IN Send("InsertMulti",
            Text("INSERT", Slots(Of(1, columns) \o Of(2, columns), Placeholders(1, 2 * Len(columns))),
                 List(columns)),
            values(1) \o values(2))

-----------------------------------------------------------------------------
\* UPDATE, DELETE: the tail follows the columns that are set

update(o, columns, values, targets, marks, tailArgs) ==
    Send(o, Text("UPDATE", Slots(Of(1, columns), Placeholders(1, Len(columns)))
                              \o Slots(targets, marks), List(columns)),
         values \o tailArgs)

Update ==
    /\ IsRecord /\ HasPK
    /\ LET columns == Cut(Columns) IN
       update("Update", columns, Cut(Values(1)),
              <<PKValue>>, <<Placeholder(Len(columns) + 1)>>, <<PKValue>>)

UpdateColumns(S) ==
    /\ IsRecord /\ HasPK /\ S # {} /\ S \subseteq ToSet(Columns) \ {Columns[view.pk]}
    /\ LET filtered == filteredColumnsAndValues(S) IN
       update("UpdateColumns", filtered.columns, filtered.values,
              <<PKValue>>, <<Placeholder(Len(filtered.columns) + 1)>>, <<PKValue>>)

\* The caller starts its tail behind the columns it has listed.
UpdateView(S, n) ==
    /\ S # {} /\ S \subseteq ToSet(Columns) /\ (IsRecord => Columns[view.pk] \notin S)
    /\ LET filtered == filteredColumnsAndValues(S) IN
       \E marks \in TailMarks(Cardinality(S) + 1, n) :
          update("UpdateView", filtered.columns, filtered.values, Arguments(n), marks, Arguments(n))

Delete ==
    /\ IsRecord /\ HasPK
    /\ Send("Delete", Text("DELETE", Slots(<<PKValue>>, <<Placeholder(1)>>), "full"), <<PKValue>>)

DeleteFrom(n) ==
    \E marks \in TailMarks(1, n) :
        Send("DeleteFrom", Text("DELETE", Slots(Arguments(n), marks), "full"), Arguments(n))

-----------------------------------------------------------------------------
\* SELECT

\* selectQuery
Top(limit1) == IF limit1 /\ SelectLimitMethod = "SelectTop" THEN "TOP" ELSE "none"

\* SelectOneTo and its like; SelectRows, SelectAllFrom, Count.
Select(n) ==
    \E marks \in TailMarks(1, n), limit1 \in BOOLEAN :
        Send("Select", [Text("SELECT", Slots(Arguments(n), marks), "full") EXCEPT !.one = Top(limit1)],
             Arguments(n))

\* Mutant: LIMIT 1 for every dialect.
LimitAlways(limit1) == IF limit1 THEN "LIMIT" ELSE Top(limit1)

\* findTail and selectQuery
Limit(limit1) == IF limit1 /\ SelectLimitMethod = "Limit" THEN "LIMIT" ELSE Top(limit1)

\* FindOneTo, FindByPrimaryKeyTo, Reload; FindRows.  A nil argument is no
\* argument: n = 0.
Find(n, limit1) ==
    Send(IF limit1 THEN "FindOneTo" ELSE "FindRows",
         [Text("SELECT", Slots(Arguments(n), Placeholders(1, n)), "full") EXCEPT !.one = Limit(limit1)],
         Arguments(n))

FindAllFrom(n) ==
    Send("FindAllFrom", Text("SELECT", Slots(Arguments(n), Placeholders(1, n)), List(Arguments(n))),
         Arguments(n))

-----------------------------------------------------------------------------
\* The servers

\* The grammar of the dialect has such a statement.
Understands ==
    /\ text.list = "empty" => \/ text.verb = "INSERT" /\ dialect = "mysql"
                              \/ text.verb = "SELECT" /\ dialect = "sqlite3"
    /\ text.list = "default" => dialect # "mysql"
    /\ text.output = "Returning" => dialect = "postgresql"
    /\ text.output = "OutputInserted" => dialect \in {"mssql", "sqlserver"}
    /\ text.one # "none" => (text.one = "TOP" <=> dialect \in {"mssql", "sqlserver"})

Marks == {text.slots[i].mark : i \in DOMAIN text.slots}

\* It takes the arguments: there is one for every slot, and none is left.
Binds ==
    /\ text.slots # << >> \/ args # << >> =>
          (0 \in Marks <=> dialect \notin {"postgresql", "sqlserver"})
    /\ IF dialect \in {"postgresql", "sqlserver"} THEN Marks = DOMAIN args
                                                  ELSE Len(text.slots) = Len(args)

Bound(i) == IF text.slots[i].mark = 0 THEN args[i] ELSE args[text.slots[i].mark]

-----------------------------------------------------------------------------
\* The answer

Answer(e) == pc' = "idle" /\ err' = e /\ UNCHANGED <<choice, op, text, args>>

Fails ==
    /\ pc = "sent"
    /\ Answer(IF Understands /\ Binds THEN "driverErr" ELSE "refused")
    /\ UNCHANGED <<key, hadKey, id, lastId>>

\* Any statement that makes no row of the record.
Succeeds ==
    /\ pc = "sent" /\ Understands /\ Binds /\ op \notin {"Insert", "InsertColumns"}
    /\ Answer("nil")
    /\ UNCHANGED <<key, hadKey, id, lastId>>

\* A key that does not fit into the field.
TooLarge(i) == keyType = "narrow" /\ i \notin -Half .. Half - 1

\* reflect.Value.Convert of an integer to a narrower one.
Convert(i) == IF TooLarge(i) THEN ((i + Half) % (2 * Half)) - Half ELSE i

\* SetPK: a string converts to no int64, and so is never set.
SetPK(i) == key' = IF keyType = "string" THEN key ELSE Convert(i)

\* A record without a key is given the one the driver returns.
ReadLastInsertId(i) ==
    /\ IF IsRecord /\ ~HasPK THEN SetPK(i) ELSE UNCHANGED key
    /\ Answer("nil")

\* Mutant: as for LastInsertId, only a record without a key is given one.
ReadReturnedOnce(i) ==
    /\ IF IsRecord /\ ~HasPK THEN SetPK(i) ELSE UNCHANGED key
    /\ Answer("nil")

\* QueryRow and Scan: the record's key, whether it had one or not.
ReadReturned(i) ==
    IF ~IsRecord THEN UNCHANGED key /\ Answer("nil")
    ELSE IF TooLarge(i) THEN UNCHANGED key /\ Answer("scanErr")
    ELSE key' = i /\ Answer("nil")

ReadKey(i) ==
    IF LastInsertIdMethod = "LastInsertId" THEN ReadLastInsertId(i) ELSE ReadReturned(i)

\* An INSERT of the record: with its key, or with one the server generates.
InsertSucceeds ==
    /\ pc = "sent" /\ Understands /\ Binds /\ op \in {"Insert", "InsertColumns"}
    /\ hadKey' = HasPK
    /\ IF IsRecord /\ \E i \in DOMAIN text.slots : text.slots[i].to = PKValue
       THEN id' = key /\ UNCHANGED lastId
       ELSE lastId < MaxId /\ lastId' = lastId + 1 /\ id' = lastId'
    /\ ReadKey(id')

-----------------------------------------------------------------------------
Lists == SUBSET UNION {ToSet(v.columns) : v \in Views}

Call ==
    \/ Insert \/ InsertMulti \/ Update \/ Delete
    \/ \E S \in Lists : InsertColumns(S) \/ UpdateColumns(S) \/ \E n \in 0 .. MaxArgs : UpdateView(S, n)
    \/ \E n \in 0 .. MaxArgs : DeleteFrom(n) \/ Select(n) \/ FindAllFrom(n)
    \/ \E n \in 0 .. 1, limit1 \in BOOLEAN : Find(n, limit1)

Next == NewRecord \/ Call \/ Fails \/ Succeeds \/ InsertSucceeds

Spec == Init /\ [][Next]_vars

-----------------------------------------------------------------------------
\* The two lists every command builds, of columns and of values, are cut,
\* filtered and numbered apart from each other, in the dialect's own way.  The
\* server still puts every field into its own column, the key into the
\* condition, and the caller's arguments where its tail has them.
ValuesReachColumns ==
    pc = "sent" => Binds /\ \A i \in DOMAIN text.slots : Bound(i) = text.slots[i].to

\* The server of each dialect can parse what is built for it: lists that are
\* empty, one row only, the key returned.  There are three exceptions: Update
\* of a table that has no column but its key (querier_commands.go:265),
\* InsertMulti of such records without a key, which only MySQL knows (:231), and
\* FindAllFrom without arguments, which only SQLite knows (querier_selects.go:187).
ServerUnderstands ==
    pc = "sent" =>
        \/ Understands /\ (op = "FindOneTo" => text.one # "none")
        \/ op = "Update" /\ Len(Columns) = 1
        \/ op = "InsertMulti" /\ Len(Columns) = 1 /\ ~HasPK
        \/ op = "FindAllFrom" /\ args = << >>

\* "It fills record's primary key field" (querier_commands.go:128,160): when an
\* insert returns nil, the record in memory has the key of its row, so that a
\* later Update, Delete or Reload of it finds that row and no other.  With
\* LastInsertId this does not hold for a key field that is a string, or too
\* narrow for the key (base.go:216-217), or that was set but not listed.
KeyIsFilled ==
    /\ op \in {"Insert", "InsertColumns"} /\ pc = "idle" /\ err = "nil" /\ IsRecord =>
          \/ key = id
          \/ /\ LastInsertIdMethod = "LastInsertId"
             /\ (hadKey /\ op = "InsertColumns") \/ keyType = "string" \/ TooLarge(id)
=============================================================================
