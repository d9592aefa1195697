-------------------------------- MODULE ReformDB --------------------------------
(***************************************************************************)
(* The reform-db tool (package reform-db/): it waits for the database,     *)
(* then executes the queries of some files (exec, query), or writes a file *)
(* with a struct for every table of the schema (init).  The pool of        *)
(* database/sql has a single connection, which open rows keep busy.  While *)
(* the tool works the connection may be lost, a query or a write may fail, *)
(* other clients alter the schema, and the tool may be killed.             *)
(***************************************************************************)
EXTENDS Naturals, Sequences, FiniteSets

CONSTANTS
    Table,      \* names of tables
    Column,     \* names of columns
    FileName,   \* Go files of the directory and of those below it
    Lower,      \* the file of a table: its name in lower case
    Bytes,      \* columns of a type that becomes []byte
    NoColumn,   \* no primary key
    Inputs,     \* what the files given to exec and query may hold
    Schemas,    \* schemas the database may have
    MaxWait,    \* bound: the flag -db-wait, in seconds
    PingTime,   \* bound: seconds a Ping takes
    MaxAlter,   \* bound: changes of the schema while the tool works
    MaxDrops    \* bound: connections lost between two queries

ASSUME ReformDBAssumption ==
    /\ Lower \in [Table -> FileName] /\ Bytes \subseteq Column
    /\ NoColumn \notin Column /\ IsFiniteSet(Column)
    /\ MaxWait \in Nat /\ PingTime \in Nat /\ MaxAlter \in Nat /\ MaxDrops \in Nat

\* A table is its columns, those that may be NULL, and its primary key; a table
\* that does not exist has no columns.
Defs == {d \in [columns : SUBSET Column, null : SUBSET Column, key : SUBSET Column] :
            d.null \subseteq d.columns /\ d.key \subseteq d.columns}

\* A file given to exec: unreadable, or a number of statements.
Files   == [readable : BOOLEAN, statements : Nat]
Queries == Nat \X Nat

\* A generated struct: the types of its fields, and the one labelled "pk".
Types   == UNION {[S -> {"plain", "pointer", "slice"}] : S \in SUBSET Column}
Structs == [table : Table, types : Types, pk : Column \cup {NoColumn}]

ASSUME InputsAssumption == Inputs \subseteq Seq(Files) /\ Schemas \subseteq [Table -> Defs]

VARIABLES
    pc,       \* where the tool is
    command,  \* "exec", "query" or "init"
    dialect,  \* "sqlite3", or "standard" for those with an information_schema
    split,    \* the flag -split
    wait,     \* the flag -db-wait
    input,    \* the files given to exec or query
    gofmtF,   \* the flag -gofmt of init
    before,   \* history: the files of the directory at the start
    clock,    \* seconds since getDB started, as long as it runs
    pings,    \* history: number of pings it has made
    session,  \* queries executed on the connection that is open now
    busy,     \* rows are open on the connection
    queries,  \* what readFiles has found so far
    next,     \* number of files read, queries executed, or structs written
    schema,   \* the tables of the database
    todo,     \* tables that have still to be looked at
    cur,      \* the table that is looked at
    seen,     \* the definition the open rows return
    key,      \* its primary key, or NoColumn
    structs,  \* the structs made so far
    files,    \* the files of the directory: [state, struct, tidy]
    exit,     \* how the run ended
    executed, \* history: queries the server has executed
    listing,  \* history: tables found, without those skipped
    altered,  \* history: tables altered since
    alters,   \* history: number of changes
    drops,    \* history: number of connections lost
    failed    \* history: what failed, of "ping", "database" and "file"

flags  == <<command, dialect, split, wait, input, gofmtF, before>>
conn   == <<session, busy>>
work   == <<queries, next, todo, cur, seen, key, structs>>
server == <<schema, altered, alters>>
vars   == <<pc, flags, clock, pings, conn, work, server, files, exit, executed, listing,
            drops, failed>>

\* A file has a struct of a table, or is older: written by hand, or no Go at all.
FileStates == {"absent", "old", "broken", "partial", "whole"}
Content(state, struct) == [state |-> state, struct |-> struct, tidy |-> FALSE]
Older == {Content(state, {}) : state \in {"absent", "old", "broken"}}

Init ==
    /\ pc = "ping" /\ clock = 0 /\ pings = 0
    /\ command \in {"exec", "query", "init"} /\ wait \in 0 .. MaxWait
    /\ IF command = "init"
       THEN /\ split = FALSE /\ input = << >> /\ schema \in Schemas
            /\ dialect \in {"sqlite3", "standard"}
            \* Key columns are NOT NULL, in SQLite only if declared so.
            /\ dialect = "standard" => \A t \in Table : schema[t].key \cap schema[t].null = {}
            /\ files \in [FileName -> Older] /\ gofmtF \in BOOLEAN
       ELSE /\ split \in BOOLEAN /\ input \in Inputs /\ dialect = "standard"
            /\ schema = [t \in Table |-> [columns |-> {}, null |-> {}, key |-> {}]]
            /\ files = [f \in FileName |-> Content("absent", {})] /\ gofmtF = TRUE
    /\ before = files
    /\ session = << >> /\ busy = FALSE
    /\ queries = << >> /\ next = 0 /\ todo = {} /\ \E t \in Table : cur = t
    /\ seen = [columns |-> {}, null |-> {}, key |-> {}] /\ key = NoColumn /\ structs = << >>
    /\ exit = "none" /\ executed = << >> /\ listing = {} /\ altered = {} /\ alters = 0
    /\ drops = 0 /\ failed = {}

Exit(code) == pc' = "exited" /\ exit' = code
Fatalf     == Exit("fatal") /\ UNCHANGED failed
FatalPing  == Exit("fatal") /\ failed' = failed \cup {"ping"}
FatalDB    == Exit("fatal") /\ failed' = failed \cup {"database"}
FatalFile  == Exit("fatal") /\ failed' = failed \cup {"file"}
Goto(p)    == pc' = p /\ UNCHANGED <<exit, failed>>

-----------------------------------------------------------------------------
\* getDB

\* time.Since(start) > *waitF, with the fraction of a second the clock drops.
DeadlineMayHavePassed  == clock' >= wait
DeadlineMayNotHavePassed == clock' <= wait

\* getDB returns, and with it the clock it has started.
PingSucceeds ==
    /\ pc = "ping" /\ clock' = 0 /\ pings' = 0
    /\ Goto(IF command = "init" THEN "tables" ELSE "read")
    /\ UNCHANGED <<flags, conn, work, server, files, executed, listing, drops>>

PingFails ==
    /\ pc = "ping" /\ pings' = pings + 1
    /\ \E d \in 0 .. PingTime : clock' = clock + d
    /\ \/ DeadlineMayHavePassed /\ FatalPing
       \/ DeadlineMayNotHavePassed /\ Goto("sleep")
    /\ UNCHANGED <<flags, conn, work, server, files, executed, listing, drops>>

\* Mutant: the loop does not sleep.
SleepNot ==
    /\ pc = "sleep" /\ Goto("ping")
    /\ UNCHANGED <<flags, clock, pings, conn, work, server, files, executed, listing, drops>>

Sleep ==
    /\ pc = "sleep" /\ clock' = clock + 1 /\ Goto("ping")
    /\ UNCHANGED <<flags, pings, conn, work, server, files, executed, listing, drops>>

\* The server closes the connection; the next query opens another one.
Drop ==
    /\ pc = "exec" /\ ~busy /\ drops < MaxDrops
    /\ drops' = drops + 1 /\ session' = << >>
    /\ UNCHANGED <<pc, flags, clock, pings, busy, work, server, files, exit, executed, listing,
                   failed>>

-----------------------------------------------------------------------------
\* exec and query

\* The queries of the i-th file: its statements, or all of it; none if blank.
QueriesOf(i) ==
    IF split \/ input[i].statements = 0
    THEN [k \in 1 .. input[i].statements |-> <<i, k>>]
    ELSE <<<<i, 0>>>>

\* readFiles
ReadFile ==
    /\ pc = "read" /\ next < Len(input) /\ input[next + 1].readable
    /\ queries' = queries \o QueriesOf(next + 1) /\ next' = next + 1
    /\ UNCHANGED <<pc, flags, clock, pings, conn, todo, cur, seen, key, structs, server, files,
                   exit, executed, listing, drops, failed>>

ReadFails ==
    /\ pc = "read" /\ next < Len(input) /\ ~input[next + 1].readable
    /\ FatalFile
    /\ UNCHANGED <<flags, clock, pings, conn, work, server, files, executed, listing, drops>>

\* Mutant: the queries of a file are executed as soon as it is read.
ReadDoneEarly ==
    /\ pc = "read" /\ next > 0
    /\ Goto("exec") /\ next' = 0
    /\ UNCHANGED <<flags, clock, pings, conn, queries, todo, cur, seen, key, structs, server,
                   files, executed, listing, drops>>

ReadDone ==
    /\ pc = "read" /\ next = Len(input)
    /\ Goto("exec") /\ next' = 0
    /\ UNCHANGED <<flags, clock, pings, conn, queries, todo, cur, seen, key, structs, server,
                   files, executed, listing, drops>>

\* The server executes a query on the one connection, which stays open.
RunsOn(q) == session' = Append(session, q) /\ executed' = Append(executed, q)

\* cmdExec: db.Exec; cmdQuery: db.Query, whose rows stay open.
Execute ==
    /\ pc = "exec" /\ next < Len(queries) /\ ~busy
    /\ RunsOn(queries[next + 1])
    /\ IF command = "query" THEN busy' = TRUE /\ Goto("rows") /\ UNCHANGED next
                            ELSE next' = next + 1 /\ Goto("exec") /\ UNCHANGED busy
    /\ UNCHANGED <<flags, clock, pings, queries, todo, cur, seen, key, structs, server, files,
                   listing, drops>>

\* The query fails, or its answer is lost.
ExecuteFails ==
    /\ pc = "exec" /\ next < Len(queries) /\ ~busy
    /\ \/ UNCHANGED <<session, executed>>
       \/ RunsOn(queries[next + 1])
    /\ FatalDB
    /\ UNCHANGED <<flags, clock, pings, busy, work, server, files, listing, drops>>

\* cmdQuery has read all rows: they are closed.
RowsDone ==
    /\ pc = "rows" /\ busy' = FALSE /\ next' = next + 1 /\ Goto("exec")
    /\ UNCHANGED <<flags, clock, pings, session, queries, todo, cur, seen, key, structs, server,
                   files, executed, listing, drops>>

RowsFail ==
    /\ pc = "rows" /\ FatalDB
    /\ UNCHANGED <<flags, clock, pings, conn, work, server, files, executed, listing, drops>>

ExecDone ==
    /\ pc = "exec" /\ next = Len(queries) /\ Exit("ok")
    /\ UNCHANGED <<flags, clock, pings, conn, work, server, files, executed, listing, drops, failed>>

-----------------------------------------------------------------------------
\* init: the schema is read first

Exists(t) == schema[t].columns # {}

\* Other clients alter the schema while it is read.
Alter ==
    /\ alters < MaxAlter /\ alters' = alters + 1
    /\ pc \in {"key", "keyRows", "columns"}
    /\ \E t \in Table : \E d \in {s[t] : s \in Schemas} \ {schema[t]} :
          /\ dialect = "standard" => d.key \cap d.null = {}
          /\ schema' = [schema EXCEPT ![t] = d]
          /\ altered' = altered \cup {t}
    /\ UNCHANGED <<pc, flags, clock, pings, conn, work, files, exit, executed, listing, drops,
                   failed>>

\* A query of init fails.
SchemaFails ==
    /\ \/ pc \in {"tables", "columns"} /\ ~busy
       \/ pc = "key" /\ ~busy /\ todo # {} /\ dialect = "standard"
       \/ pc \in {"keyRows", "infoRows"}
    /\ FatalDB
    /\ UNCHANGED <<flags, clock, pings, conn, work, server, files, executed, listing, drops>>

\* SelectAllFrom(tableView, ...) or SelectAllFrom(sqliteMasterView, ...).
Tables ==
    /\ pc = "tables" /\ ~busy
    /\ todo' = {t \in Table : Exists(t)} /\ listing' = todo'
    /\ Goto("key")
    /\ UNCHANGED <<flags, clock, pings, conn, queries, next, cur, seen, key, structs, server,
                   files, executed, drops>>

\* db.Query in getPrimaryKeyColumn; PRAGMA table_info for SQLite.
QueryTable(t) ==
    /\ pc = "key" /\ t \in todo /\ ~busy
    /\ cur' = t /\ seen' = schema[t] /\ busy' = TRUE
    /\ Goto(IF dialect = "standard" THEN "keyRows" ELSE "infoRows")
    /\ UNCHANGED <<flags, clock, pings, session, queries, next, todo, key, structs, server,
                   files, executed, listing, drops>>

\* A failed PRAGMA is logged, and the table skipped.
SkipTable(t) ==
    /\ pc = "key" /\ t \in todo /\ ~busy /\ dialect = "sqlite3"
    /\ todo' = todo \ {t} /\ listing' = listing \ {t}
    /\ UNCHANGED <<pc, flags, clock, pings, conn, queries, next, cur, seen, key, structs, server,
                   files, exit, executed, drops, failed>>

\* The one column of the primary key, if it has one.
KeyOf(d) == IF d.key = {} THEN NoColumn ELSE CHOOSE c \in d.key : TRUE

\* Mutant: a table without a key keeps that of the table before.
KeyRowsKeeping ==
    /\ pc = "keyRows"
    /\ IF Cardinality(seen.key) > 1 THEN Fatalf /\ UNCHANGED <<key, busy>>
       ELSE /\ key' = IF seen.key = {} THEN key ELSE KeyOf(seen)
            /\ Goto("columns") /\ busy' = FALSE
    /\ UNCHANGED <<flags, clock, pings, session, queries, next, todo, cur, seen, structs, server,
                   files, executed, listing, drops>>

\* Mutant: the rows stay open.
KeyRowsOpen ==
    /\ pc = "keyRows"
    /\ IF Cardinality(seen.key) > 1 THEN Fatalf /\ UNCHANGED <<key, busy>>
       ELSE key' = KeyOf(seen) /\ Goto("columns") /\ UNCHANGED busy
    /\ UNCHANGED <<flags, clock, pings, session, queries, next, todo, cur, seen, structs, server,
                   files, executed, listing, drops>>

\* getPrimaryKeyColumn: a key of several columns ends the run; the deferred
\* Close frees the connection.
KeyRows ==
    /\ pc = "keyRows"
    /\ IF Cardinality(seen.key) > 1 THEN Fatalf /\ UNCHANGED <<key, busy>>
       ELSE key' = KeyOf(seen) /\ Goto("columns") /\ busy' = FALSE
    /\ UNCHANGED <<flags, clock, pings, session, queries, next, todo, cur, seen, structs, server,
                   files, executed, listing, drops>>

\* Mutant: pointers for the columns that are NOT NULL.
goTypeInverted(c, nullable) ==
    CASE c \in Bytes -> "slice" [] c \notin Bytes /\ ~nullable -> "pointer" [] OTHER -> "plain"

\* goTypePostgres and its like, with maybePointer: []byte is never a pointer.
goType(c, nullable) ==
    CASE c \in Bytes -> "slice" [] c \notin Bytes /\ nullable -> "pointer" [] OTHER -> "plain"

\* The struct of a table with these columns and this key.
StructOf(t, d, k) ==
    [table |-> t, types |-> [c \in d.columns |-> goType(c, c \in d.null)],
     pk |-> IF k \in d.columns THEN k ELSE NoColumn]

\* SelectAllFrom(columnView, ...)
Columns ==
    /\ pc = "columns" /\ ~busy
    /\ structs' = Append(structs, StructOf(cur, schema[cur], key))
    /\ todo' = todo \ {cur} /\ Goto("key")
    /\ UNCHANGED <<flags, clock, pings, conn, queries, next, cur, seen, key, server, files,
                   executed, listing, drops>>

\* The rows of table_info; the second column of a key has pk = 2, which is no bool.
InfoRows ==
    /\ pc = "infoRows"
    /\ IF Cardinality(seen.key) > 1 THEN Fatalf /\ UNCHANGED <<structs, todo, busy>>
       ELSE /\ structs' = Append(structs, StructOf(cur, seen, KeyOf(seen)))
            /\ todo' = todo \ {cur} /\ Goto("key") /\ busy' = FALSE
    /\ UNCHANGED <<flags, clock, pings, session, queries, next, cur, seen, key, server, files,
                   executed, listing, drops>>

SchemaDone ==
    /\ pc = "key" /\ todo = {} /\ Goto("create")
    /\ UNCHANGED <<flags, clock, pings, conn, work, server, files, executed, listing, drops>>

-----------------------------------------------------------------------------
\* init: the files are written last

CurFile == Lower[structs[next + 1].table]

Create ==
    /\ pc = "create" /\ next < Len(structs) /\ Goto("write")
    /\ files' = [files EXCEPT ![CurFile] = Content("partial", {})]
    /\ UNCHANGED <<flags, clock, pings, conn, work, server, executed, listing, drops>>

Write ==
    /\ pc = "write" /\ Goto("create") /\ next' = next + 1
    /\ files' = [files EXCEPT ![CurFile] = Content("whole", {structs[next + 1]})]
    /\ UNCHANGED <<flags, clock, pings, conn, queries, todo, cur, seen, key, structs, server,
                   executed, listing, drops>>

WriteFails ==
    /\ \/ pc = "create" /\ next < Len(structs)
       \/ pc = "write"
    /\ FatalFile
    /\ UNCHANGED <<flags, clock, pings, conn, work, server, files, executed, listing, drops>>

\* A file as gofmt lays it out; what is no Go it leaves alone.
Laid(file) == IF file.state \in {"old", "whole"} THEN [file EXCEPT !.tidy = TRUE] ELSE file

\* gofmt -s -w lays out every file of the directory and below, those that init
\* has not written too.
Gofmt ==
    /\ pc = "create" /\ next = Len(structs)
    /\ gofmtF => \A f \in FileName : files[f].state # "broken"
    /\ files' = IF gofmtF THEN [f \in FileName |-> Laid(files[f])] ELSE files
    /\ Exit("ok")
    /\ UNCHANGED <<flags, clock, pings, conn, work, server, executed, listing, drops, failed>>

\* A file is no Go, or gofmt fails for another reason: it has got to some files.
GofmtFails ==
    /\ pc = "create" /\ next = Len(structs) /\ gofmtF
    /\ \E S \in SUBSET FileName :
          files' = [f \in FileName |-> IF f \in S THEN Laid(files[f]) ELSE files[f]]
    /\ FatalFile
    /\ UNCHANGED <<flags, clock, pings, conn, work, server, executed, listing, drops>>

Kill ==
    /\ pc # "exited" /\ Exit("killed")
    /\ UNCHANGED <<flags, clock, pings, conn, work, server, files, executed, listing, drops, failed>>

-----------------------------------------------------------------------------
getDB     == PingSucceeds \/ PingFails \/ Sleep
readFiles == ReadFile \/ ReadFails \/ ReadDone
cmdQuery  == Execute \/ ExecuteFails \/ RowsDone \/ RowsFail \/ ExecDone
cmdInit   ==
    \/ SchemaFails \/ Tables \/ KeyRows \/ Columns \/ InfoRows \/ SchemaDone
    \/ \E t \in Table : QueryTable(t) \/ SkipTable(t)
    \/ Create \/ Write \/ WriteFails \/ Gofmt \/ GofmtFails

Program == getDB \/ readFiles \/ cmdQuery \/ cmdInit
Next == Program \/ Drop \/ Alter \/ Kill

Spec == Init /\ [][Next]_vars

\* The tool goes on: pings, queries and writes return, and time passes.
FairSpec == Spec /\ WF_vars(Program)

-----------------------------------------------------------------------------
\* Types; the rows open belong to the query under way.
TypeOK ==
    /\ pc \in {"ping", "sleep", "read", "exec", "rows", "tables", "key", "keyRows", "infoRows",
               "columns", "create", "write", "exited"}
    /\ command \in {"exec", "query", "init"} /\ dialect \in {"sqlite3", "standard"}
    /\ split \in BOOLEAN /\ wait \in 0 .. MaxWait /\ input \in Seq(Files)
    /\ gofmtF \in BOOLEAN /\ before \in [FileName -> Older]
    /\ clock \in Nat /\ pings \in Nat
    /\ session \in Seq(Queries) /\ busy \in BOOLEAN
    /\ queries \in Seq(Queries) /\ next \in Nat
    /\ schema \in [Table -> Defs] /\ todo \subseteq Table /\ cur \in Table
    /\ seen \in Defs /\ key \in Column \cup {NoColumn} /\ structs \in Seq(Structs)
    /\ files \in [FileName -> [state : FileStates, struct : SUBSET Structs, tidy : BOOLEAN]]
    /\ exit \in {"none", "ok", "fatal", "killed"} /\ executed \in Seq(Queries)
    /\ listing \subseteq Table /\ altered \subseteq Table
    /\ alters \in 0 .. MaxAlter /\ drops \in 0 .. MaxDrops
    /\ failed \subseteq {"ping", "database", "file"}
    /\ pc # "exited" => (busy <=> pc \in {"rows", "keyRows", "infoRows"})

\* The loop of getDB (main.go:65-77) tries once a second and no more often; it
\* does not give up before -db-wait has passed, and not later than a second
\* and a Ping after it, because the deadline is looked at between two pings.
PingsUntilDeadline ==
    /\ pings <= clock + 1 /\ clock <= wait + 1 + PingTime
    /\ "ping" \in failed => clock >= wait

\* exec and query (cmd_exec.go:47-98): the queries run in the order of the files,
\* each once, none after the first that fails; and none at all unless every
\* file could be read.  All run on one connection (main.go:58), so that a query
\* finds what all before it have set, unless the server closes it.
ExecutesInOrder ==
    /\ Len(executed) <= Len(queries)
    /\ executed = SubSeq(queries, 1, Len(executed))
    /\ executed # << >> => \A i \in DOMAIN input : input[i].readable
    /\ exit = "ok" => executed = queries
    /\ exit = "ok" /\ command # "init" =>
          \A i \in DOMAIN input : input[i].statements > 0 => \E j \in DOMAIN queries : queries[j][1] = i
    /\ drops = 0 => session = executed

Matches(struct, d) ==
    /\ DOMAIN struct.types = d.columns
    /\ struct.pk = KeyOf(d)

AllWritten == \A i \in DOMAIN structs : files[Lower[structs[i].table]].state = "whole"

\* When init ends well, every table it has listed and not skipped has a file with
\* a struct of its columns and its key, formatted unless -gofmt=false; tables whose
\* names differ in case only share one.  (Not tables altered meanwhile: their key and
\* columns may be of different times.)  However init ends, a file of no such table
\* keeps its text; only gofmt (cmd_init.go:254), after the last struct is written,
\* lays it out anew.  And the whole schema is read before the first file is touched
\* (cmd_init.go:197-233): nothing but a failure to write or format files, or a kill,
\* costs an older file, one edited by hand for instance.
FilesMatchSchema ==
    /\ command = "init" /\ exit = "ok" =>
          \A t \in listing : \E s \in files[Lower[t]].struct :
              /\ files[Lower[t]].state = "whole" /\ files[Lower[t]].struct = {s}
              /\ gofmtF => files[Lower[t]].tidy
              /\ s.table \in listing /\ Lower[s.table] = Lower[t]
              /\ s.table \notin altered => Matches(s, schema[s.table])
    /\ \A f \in FileName :
          \/ \E t \in listing : Lower[t] = f
          \/ files[f] = before[f]
          \/ files[f] = Laid(before[f]) /\ gofmtF /\ pc = "exited" /\ AllWritten
    /\ exit = "fatal" /\ "file" \notin failed => files = before

\* What the parser of the reform command accepts (parse/file.go:89-117).
Accepts(struct) ==
    /\ DOMAIN struct.types # {}
    /\ struct.pk # NoColumn => struct.types[struct.pk] = "plain"

\* README.md:57-82: reform-db init, then reform.  The generator accepts the structs
\* that init writes, but for keys of a type that becomes []byte and, in SQLite,
\* keys not declared NOT NULL.
GeneratorAcceptsInit ==
    \A f \in FileName : \A s \in files[f].struct :
        \/ s.table \in altered
        \/ s.pk \in Bytes
        \/ dialect = "sqlite3" /\ s.pk \in schema[s.table].null
        \/ Accepts(s)

\* Every run ends: with one connection, a query sent while rows are open would
\* wait for ever.
EveryRunEnds == <>(pc = "exited")

-----------------------------------------------------------------------------
\* What the documentation says and the code does not do.

\* "getPrimaryKeyColumn returns single primary key column for given table, or
\* nil" (cmd_init.go:81), and skips composite keys with a message.
CompositeKeysAreSkipped == dialect = "standard" /\ exit = "fatal" => failed # {}
=============================================================================
