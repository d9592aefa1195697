# A verification project for reform

reform is an ORM for Go based on interfaces and code generation: a generator reads struct
definitions and writes accessor code; a library (`Querier`, `DB`, `TX`) uses that
code to run commands, selectors and transactions through `database/sql`; a second
tool, `reform-db`, runs SQL files and makes struct definitions of an existing
schema. These modules model the parts of it where order, failure and sharing
matter, check them with TLC on small instances, and prove the central results for
every value of the constants with TLAPS.

Line numbers are those of the sources under `src/`, here written without that
prefix. `PROJECT.json` maps every definition that models code to its lines.

## Inventory

### Parts, their state and operations

| Part | Source | State it keeps | Operations |
|---|---|---|---|
| Transactions | `db.go`, `tx.go` | the open `sql.Tx`, the local `committed` | `Begin(Tx)`, `InTransaction(Context)`, `Commit`, `Rollback` |
| On-commit callbacks | `querier.go`, `db.go:99-110` | `onCommitCalls`, a slice header in every `Querier` | `AddOnCommitCall`, `WithTag`, `WithContext`, the loop after `Commit` |
| Routing | `querier.go`, `db.go:54-59,115-123` | `dbtxCtx`, `slaves`, `inTransaction` of every `Querier` | `AddSlaves`, `QuerierForRead`, `MasterQuerier`, `selectDBTXContext` in `Exec`, `Query`, `QueryRow` |
| Commands | `querier_commands.go` | none; the table and the caller's record | `Insert`, `InsertColumns`, `InsertMulti`, `Update`, `UpdateColumns`, `UpdateView`, `Save`, `SaveColumns`, `Delete`, `DeleteFrom` |
| Finders and selectors | `querier_selects.go` | the open `sql.Rows`, the structs collected | `SelectOneTo`, `SelectRows`, `NextRow`, `SelectAllFrom`, the `Find…` functions, `Reload`, `Count` |
| Struct parsers | `parse/` | none; the generated `StructInfo` | `File`, `Object`, `AssertUpToDate` |
| Connection pool | `database/sql`, through `db.go`, `querier_*.go` | free connections; what each call under way holds | every call, and calls made by `f`, callbacks and hooks |
| Generator `reform` | `reform/` | the directory of a package: sources and generated files | `main` over a directory or for `go generate`, `processFile`, `goformat`, `gofmt` |
| Base interfaces | `base.go` | none | `View`, `Table`, `Record`, hooks, `SetPK` |
| Dialects | `dialects/` | none | placeholders, quoting, key and limit methods |
| Tool `reform-db` | `reform-db/` | one connection; queries read; structs made; the directory | the Ping loop of `getDB`, `exec`, `query`, `init` |
| Logging | `logger.go`, `internal/logger.go` | none | `Before`, `After` |

### How they interact

`DB` and `TX` each embed a `*Querier`. Commands and selectors are methods of
`Querier` and send every statement through `Exec`, `Query` or `QueryRow`, which
choose a connection (routing) and log. `InTransactionContext` begins a `TX`, hands
it to the caller's function `f`, commits or rolls back, and runs the callbacks that
`AddOnCommitCall` put on `tx.Querier`. `WithTag` and `WithContext` clone a
`Querier` field by field, *including the slice headers* of `slaves` and
`onCommitCalls`. Commands and selectors call back into the caller: `BeforeInsert`,
`BeforeUpdate`, `AfterFind`. The generator embeds the `StructInfo` that
`parse.File` found in the source; the generated `init` passes it to
`AssertUpToDate`, which parses the struct again through reflection. `reform-db init`
writes struct files that the generator is to read next.

### Hard behaviours, and what makes each part correct

- **Transactions.** Nine ways out of `InTransactionContext` (begin fails, `f`
  fails or panics, `Commit` fails in three ways, a callback fails or panics, all
  well), while the context may end at any moment and `database/sql` then rolls back
  on its own, and while the caller may end the `TX` itself. Correct: nothing leaks,
  the answer matches the outcome, decisions are final, an answer always comes.
- **Callbacks.** Slices of clones share arrays; lists grow while a loop reads them.
  Correct: callbacks run after the commit only, each at most once, in their own
  transaction, in order.
- **Routing.** Replicas lag; Queriers are derived in any order around `AddSlaves`.
  Correct: pinned Queriers never go back in time; writes reach the master.
- **Commands.** `Save` is two statements with other clients in between; a broken
  connection leaves open whether a statement was executed; hooks change the record
  and refuse. Correct: nil means stored, an error of the library means unchanged.
- **Selectors.** The end of the rows, an ended context and a broken connection look
  alike to `Next`; hooks fail and panic with rows open; connections are few.
  Correct: no row is lost without an error, every connection is given back.
- **Statements.** Columns and values are two lists, cut, filtered and numbered apart
  from each other, for five dialects; generated keys come back in two ways. Correct:
  every value reaches its column, the server understands the text, the record gets
  the key of its row.
- **Nesting.** `f`, callbacks and hooks call the DB again while the call around them
  may hold a connection. Correct: none is lost, and whoever waits holds none, but
  where the code cannot help it.
- **Parsers.** Two independent parsers have to agree on every struct. Correct: an
  edited struct is noticed, an unedited one is not.
- **Generator.** It writes generated files and, with `-gofmt=false`, the programmer's
  own files in place; it is killed, writes fail, sources are edited under its hands,
  and its own half-written output is part of the package the next run reads.
  Correct: a run that ends well has generated everything, one that fails has left
  whole files, the next one repairs what a killed one left, nothing written by hand
  is lost.
- **`reform-db`.** One connection; a deadline looked at between two attempts; other
  clients alter the schema while it is read; table names that differ in case only.
  Correct: queries run once and in order, every run ends, `init` writes structs that
  are true and that the generator accepts, and touches no file too early.

`PROJECT.json` lists the hazards one by one, at the line where each bites, with
the properties that would catch it; those without a property say why.

## The modules

| Module | What it is |
|---|---|
| `CommitCalls` | the callback lists of Queriers: slice headers, backing arrays, `append` |
| `Transaction` (extends `CommitCalls`) | transactions, the wrapper, `database/sql` around them |
| `TxContract` | abstract: what `InTransaction` promises |
| `TransactionProperties` | properties, and the refinement mapping to `TxContract` |
| `TransactionInv`, `TransactionProofs` | inductive invariant and theorems |
| `Commands` | the ten commands that change a table |
| `AtomicCommands` | abstract: a command is one change of the table, made as it answers |
| `CommandsProperties`, `CommandsProofs` | properties, and the refinement mapping to `AtomicCommands`; theorems |
| `Routing`, `RoutingProofs` | routing with its properties; theorems |
| `Selects`, `SelectsProofs` | selectors with their properties; theorems |
| `Statements` | the text and arguments of every statement in every dialect, and the key read back |
| `Nesting`, `NestingProofs` | calls inside calls over the pool; theorems |
| `StructParse` | the two parsers and the start-up check |
| `StructProofs` (extends `StructParse`, `Statements`) | theorems about both, and about what the first hands to the second |
| `Generator`, `GeneratorProofs` | the `reform` command over a directory, run again and again; theorems |
| `ReformDB`, `ReformDBProofs` | the `reform-db` tool; theorems |
| `MC…` | each of the above for TLC: symmetry, and the declarations `StructParse` is tried with |

### CommitCalls and Transaction

`calls[q]` is the slice header `Querier.onCommitCalls`, `[arr, len]`; `heap` holds
the backing arrays, of which `arr` is an index; array 1 is the empty one of the nil
slice. `AddOnCommitCall` is an append: `AppendInPlace` writes a slot of an array
that other headers may share, `AppendGrow` allocates one of double the capacity
(Go's growth up to 256 elements). `WithTag` stands for both cloning functions. A
callback is named `<<q, i>>`, the i-th registered through Querier `q`; the Querier
that a `TX` embeds is named by the transaction.

`pc[t]` is the place in `InTransactionContext`: `f` (line 100), `commit` (102),
`calls` (106), `unwind` (the deferred function, 93), `returned`; `manual` is a
`TX` that came from `Begin`. `iter[t]` is the range loop: the header it read at its
start and the next index. `res[t]` is what is about to be returned. `endedBy` is
`sql.Tx.done` with a name on it; `server` is what the database made of the
transaction: after an error of the driver in `Commit` it is either outcome.
`BeginTx`, `FReturnsNil`, `FFails`, `CommitSucceeds`, `CommitFails`, `RunCall`,
`CallsDone` and `Unwind` are the steps of the goroutine; `Commit` and `Rollback`
are calls of the caller, at any time, also from another goroutine; `AwaitDone` and
`ContextEnds` belong to `database/sql` and the context. `AddOnCommitCall` and
`WithTag` go on during the loop and after it.

`database/sql` is not under `src/`. The four definitions that stand for it say what
`db.go` and `tx.go` rely on: a `sql.Tx` is ended once, a second attempt returns
`ErrTxDone`, and `Commit` under an ended context returns its error and leaves the
`sql.Tx` open.

### Commands

One goroutine calls commands one after another with any record; `Others` is every
other client and changes any row between two statements. `rec` is the caller's
record in memory, `err` the answer; `refused` (the first error of a hook in this
call) and `wrote` (the rows this call changed) are history. A hook may stamp column
`b`, set an unset key before an INSERT, and return nil, an error, or `ErrNoRows`.
`Save` and `SaveColumns` are two steps, `SaveUpdate` and `SaveInsert`; all other
commands send one statement and are one step, since hooks and checks before it
read nothing of the table. `Breaks` is an error of the driver: executed or not.
`Filled` is the key read back, which depends on the dialect's method.

`AtomicCommands` is what the caller may think of them: a command is under way
(`busy`), hooks stamp its record, other clients change rows, and at one point it acts
on the table and answers. `Meaning` says what an answer tells of the table at that
point: nil of `Insert` that the key was free and is now the whole record, nil of
`Update` and `Delete` that it was taken, nil of `Save` that the record is there now; a
duplicate is a key that is taken, `ErrNoRows` of `Delete` one that is free, and after an
error of the driver the whole record is there or nothing was changed. In the mapping `busy` is `op`
until `pc` is `idle` again, `acted` is `wrote # {}`, and the rest has its own name. The
UPDATE of `Save` that finds no row maps to `Stamp`. `acted` tells what the command
changed from what others change, so that a command cannot hide behind them.

### Routing

`querier[q]` holds the three fields that matter. `applied[s]` counts the writes a
server has applied; a read sees the count of the server it reaches. `origin` names
what a Querier, or the first of the chain it was copied from, was made as.

### Selects

`size` and `read` count rows matched and scanned, `got` those handed on: appended by
`SelectAllFrom`, or returned by `NextRow`. Of a single row `got` is 1 once the caller's
struct has been written to, which `Scan` does before `AfterFind` is asked, so that a
refusal of the hook leaves the refused row in the struct (`OneRowOrError` says so; the
`From` functions do not return that struct). `open` is an `sql.Rows` that holds a
connection, `rowsErr` what `rows.Err()` will say. The steps follow `NextRow`:
`NextEnds`, `NextScans`, `AfterFind`/`AfterFindFails`, with the `Scan` of a `sql.Row`,
which closes its rows, for single rows. `Returns` is the deferred `Close` and the rule
that `ErrNoRows` becomes nil.

### StructParse

A struct is a table name and a sequence of declarations. A type is a sequence of
pointers, slices and arrays before a name. Both carry their spellings: an array's length
is an expression in the source and a number to reflection, a name is that in the source,
that qualified by reflection, and the bare one. Types of other shapes (maps, functions,
lengths computed by an operator), on which `fileGoType` panics, are left out. `File` and `Object` are the two parsers as folds over the
declarations with one operator per check; `processFile` generates, `AssertUpToDate`
starts the program, `Edit` changes the source in between. A program whose generated
code names a field that is gone does not compile, and so does not start.

### Statements

A statement is a verb, a sequence of slots and a list of arguments. A slot says what
it is for (`to`: a column of a struct, or an argument of the caller's tail) and how
the text marks it (`mark`: a number for `$1` and `@P1`, 0 for `?`). `Send` is the
end of each function of `querier_commands.go` and `querier_selects.go` that builds a
text, with the same cuts, filters and numbers as there (`filteredColumnsAndValues` is
the loop of that name, which appends columns and values together); `Understands` and `Binds`
are the server: the grammar of its dialect, and how it puts arguments into slots.
`InsertSucceeds` makes the row and reads its key back (`ReadLastInsertId` through
`SetPK`, `ReadReturned` through `Scan`), for keys that are wide or narrow integers or
strings. Slots that stand in a tail are numbered by the caller, with `Placeholder` or
`Placeholders` (`TailMarks`). What hooks, errors and other clients do is the matter of
`Commands`; quoting and tags are left out.

### Nesting

A goroutine is a stack of calls, each with the place it is at, whether it holds a
connection, and how many rows it has left. `CallInside` is the caller's code at one of
the places where reform calls it: `f` (`db.go:100`), the callbacks (`:106`),
`AfterFind` with the rows of `SelectAllFrom` open, `AfterFind` of a single row, and
`BeforeInsert`. `Acquire` waits for a connection; `Release` is where `database/sql`
gets it back: `Commit`, the deferred `Rollback` and `Close`, `Scan` of a `sql.Row`, or
the end of a context at any time. What the calls answer is left to the other modules.

### Generator

`source` and `generated` are the files of one package: a source declares a set of
structs, or is refused by the parser, broken, truncated ("lost") or gone; a generated
file is absent or has the parts that were written (`part`). The steps follow `main`:
`Start` (flags, arguments, `build.ImportDir`), `NextFile` in the order of file names,
`ParseFile`/`ParseFails`, then `processFile` write by write (`Create`, `WriteProlog`,
`WriteStruct`, `WriteInit`, `Close`, `WriteFails`), `goformat` call by call
(`GoformatRead`, `GoformatSame`, `GoformatTruncate`, `GoformatWrite`, `GoformatFails`;
`buffer` is what it has read), and `gofmt`. `Edit` is the programmer, at any point: also
after `goformat` has read the file and before it writes it, when the save is lost, which
`harmed` records. The `gofmt` command is another process, and one step; only a save of a
file that it is formatting is a step of its own, `SaveDuringGofmt`. `Kill` and `WriteFails` leave a file as it was, or torn in the middle of a
struct. `unparsed`, `found`, `made`, `text`, `harmed`, `sound` are history.

### ReformDB

`pc` runs through `getDB` ("ping", "sleep"), then "read", "exec", "rows" for `exec` and
`query`, or "tables", "key", "keyRows"/"infoRows", "columns", "create", "write" for
`init`. `busy` says that open rows keep the one connection. `clock` drops fractions of
a second, so that at equality the deadline may or may not have passed. A table is its
columns, those that may be NULL, and its key; a generated struct is the types of its
fields and the one labelled "pk". A file is absent, older ("old", or "broken" if it is
no Go), half written or whole, and may be `tidy`: `Gofmt` lays out every file of the
directory, older ones too, and `GofmtFails` may have got to some of them; `before` is
the directory at the start. `Alter` is another client; `Drop` the server that
closes an idle connection; `Kill` may come at any time.

## Runs

`cd tla; tlc -workers 2 -config X.cfg M` for each line; `PROJECT.json` lists the
properties, and for each of them a mutant of the code that violates it.

| Run | Module, config | What it shows | Distinct states |
|---|---|---|---|
| `transaction` | `MCTransaction`, `MCTransaction.cfg` | two transactions with a copy, a callback each: types, no leak, answer matches outcome, own callbacks, final decisions, `TxContract` implemented | 492 000 (symmetry) |
| `commit_calls` | `MCTransaction`, `MCCommitCalls.cfg` | one transaction with four callbacks, and four of a copy: callbacks after commit, at most once, in order; the inductive invariant; `InTransaction` answers once `f` has returned | 223 000 |
| `commands` | `MCCommands`, `MCCommands.cfg` | all commands, for a dialect that asks for the last insert id; `AtomicCommands` implemented | 39 000 |
| `routing` | `MCRouting`, `MCRouting.cfg` | three Queriers, two replicas, two writes | 31 000 (symmetry) |
| `selects` | `MCSelects`, `MCSelects.cfg` | two goroutines, one connection, two rows; every call returns and closes | 114 000 |
| `struct_parse` | `MCStructParse`, `MCStructParse.cfg` | all structs of up to two out of 31 declarations, generated and edited in any order | 52 000 |
| `statements` | `MCStatements`, `MCStatements.cfg` | every statement, five dialects, three tables and a view, three kinds of keys | 237 000 |
| `nesting` | `MCNesting`, `MCNesting.cfg` | two goroutines, two calls deep, one connection; everyone returns | 19 000 |
| `generator` | `MCGenerator`, `MCGenerator.cfg` | two sources, two structs, two runs and an edit, killed or failing anywhere | 1 458 000 (symmetry) |
| `reform_db` | `MCReformDB`, `MCReformDB.cfg` | up to two files to execute, three tables (two share a file), older files, Go or not, and `-gofmt` either way, one change of the schema, one lost connection; every run ends | 1 595 000 |
| `copy_callbacks`, `stale_table` | `MCTransaction`, `MCStructParse`, a config each | one documented promise each that the code does not keep, see below | |

No run checks a type invariant or an inductive invariant that is a theorem, except
`nesting` and `reform_db`, whose `TypeOK` also says where connections are.

### Bounds, and why they are enough

- *Transactions*: interference between two of them can only come from shared
  arrays, so two with one callback per Querier show it; a single one with a list of
  four is the smallest where a clone and its origin find free capacity (three
  callbacks in an array of four) and where the list moves to a new array during the
  loop. The theorems cover all sizes.
- *Commands*: a single record is touched by a call (two in `InsertMulti`), so two
  keys give "same key", "other key" and "no key left". Two values tell "mine" from
  "another's". The two other methods of reading a key differ only in `Filled`; the
  theorems cover all three. `InsertMulti` always takes two records: the hooks' first error and
  mixed keys need no third.
- *Routing*: one Querier derived from a derived one needs three; a choice needs two
  replicas; going back in time needs a server that is one write behind, and two
  writes give replicas that differ from the master and from each other.
- *Selects*: two goroutines compete for one connection; two rows have a first, a
  last and a middle between them.
- *StructParse*: duplicate columns, duplicate keys and reordered fields need two
  declarations. A third adds no check that looks at three fields.
- *Statements*: a key first, in the middle and alone, and no key, are the cases of a
  cut; two further columns show a value in the wrong one. Tails with up to two
  arguments (`MaxArgs`) have a first and a next number. `Half = 2` makes keys narrow, and five
  generated keys pass its boundary twice.
- *Nesting*: one connection is the pool in which any call that holds one and waits for
  another shows; two goroutines can wait for each other; two levels are a call and
  the one inside it. The theorems cover all sizes.
- *Generator*: two sources have an order, and a struct that moves from one to the
  other; the second run finds what the first has left, and one edit falls before,
  between or into them. The theorems cover any package, and any number of either.
- *ReformDB*: two files with up to two statements are unread, blank, single or split;
  `-db-wait` of up to one second and Pings of up to one pass the deadline before, at and
  after it; two tables of one file and one of another. The theorems cover all of these.

`MaxCalls`, `MaxWrites`, `MaxRows`, `MaxFields`, `MaxArgs`, `MaxId`, `MaxDepth`, `MaxEdits`,
`MaxRuns`, `MaxWait`, `PingTime`, `MaxAlter` and `MaxDrops` are bounds of the model, not
of the program; guards name them where they cut.

Symmetry is used where the elements are interchangeable: transactions and copies,
replicas and derived Queriers, source files and structs. The runs with a liveness
property use none.
`TxContract` is symmetric in the same sets, so that checking it, an action property
without fairness, under symmetry is sound.

Deadlock is checked in `Commands`, `Routing`, `StructParse`, `Statements` and `Nesting`.
The others do stop: every transaction has returned and every callback is registered,
every selector has returned, the generator has run `MaxRuns` times, `reform-db` has
exited.

### Fairness

`Transaction!FairSpec` assumes weak fairness of `Finish(t)` only: the goroutine of
`InTransactionContext` runs on once `f` has returned, its calls of `database/sql`
and the callbacks return or panic. `f` may never return; the context need not end
and the goroutine that watches it need not run.

`Selects!FairSpec` assumes weak fairness of a goroutine's own steps and *strong*
fairness of getting a connection: `database/sql` hands a connection that is given back
to one of the requests that wait (the oldest or one picked at random, depending on the
version of Go), so whoever waits while one is free again and again is passed over for
ever with probability zero at most. A query is not assumed to fail, hooks are assumed to
return, and a caller of `SelectRows` to close its rows, as the documentation of
`SelectRows` demands.

`Nesting!FairSpec` has the same two, and weak fairness of `WaitEnds` *inside `f` and
inside an `AfterFind` of `SelectAllFrom`* only: a call made there holds a connection
further out, and returns for certain only if its context has a deadline. Nothing is
assumed of the contexts of other calls: they return by themselves. Without this
condition one goroutine over one connection, using the DB in place of its TX, waits for
itself; `WaitsHoldingNothing` says that these two places are the only ones.

`ReformDB!FairSpec` is weak fairness of the program's own steps: Pings, queries and
writes return, time passes. That rows are closed before the next query is what
`EveryRunEnds` then shows.

## Theorems

`tlapm M.tla` checks each; no step is left without a proof. The theorems rest on
the named assumptions on the constants (names are distinct, bounds are naturals,
`Proc` and `Column` are finite, `Default` is a value, `Method` is one of the three,
`Lower` maps tables to files, declarations are made of names, a tag and a type, tables
are `IsView`), which TLC evaluates in the runs.

**Transactions** (`TransactionProofs`). The inductive invariant `IInv` of
`TransactionInv` has four parts:

- `TypeInv`: types, and every header within its array. Proved first, by itself.
- `ControlInv`: place, result, `sql.Tx` and server go together; for instance
  `committed` implies that the server has committed and that the wrapper did it. It
  needs no callback list: `NoLeak`, `OutcomeMatchesResult`,
  `CallbacksOnlyAfterCommit` and `DecisionIsFinal` follow from `TypeInv` and it.
- `ListInv`: a written slot holds a callback registered already (`SlotOK`), all in
  an array belong to one transaction, none is in it twice (`HeldBy`), and the
  Querier of the `TX` keeps its i-th callback in slot i.
- `RanInv`: what has run is in place, and is in no other slot of the array that the
  loop reads.

The last two are why callbacks run at most once: a new callback differs from all
that were ever written, because its number is larger than any before it. Without
them the properties are not inductive: a list could hold a callback twice. From
`IInv` follow `CallbacksOfOwnTx`, `AtMostOnce`, `OwnCallbacksRunInOrder`, and
`Refinement`: initial states map to initial states of `TxContract`, every step maps
to one of its four actions or to a stutter. `IInv` can be
checked by TLC too, as an invariant of `MCCommitCalls.cfg`.

**Commands** (`CommandsProofs`): `CommandsInv` adds to the types and properties
that a command under way has changed nothing yet (`Control`); the two outcomes of a
statement (`InsertOutcome`, `UpdateOutcome`) are stated once and used for every
command. The invariants of the run are theorems, for every set of keys and values and
each of the three methods, and so is `ErrorsChangeNothing`: an error that is not the
driver's means that nothing was changed. `AtomicRefinement` says that `Commands` implements
`AtomicCommands`. It needs `CommandsInv`, since a step that answers is one step of the
abstract specification only if no earlier step has changed a row. `AnswerStep` says
once what an answer has to show; the lemmas `...Step` show it for each statement, then
for each command, from what the statement does to `rows` (`OneStored`, `ManyStored`).
That errors change nothing follows from it, for which reason no run checks it.

**Routing** (`RoutingProofs`): `RoutingInv` says that a Querier has seen no more
than its *own connection* has applied, and that all but the DB's own family have no
replicas to choose from; replicas are behind the master. All four invariants are
theorems for any number of Queriers, replicas and writes.

**Selectors** (`SelectsProofs`): `SelectsInv` relates open rows, their error and
the counters (`Rows`, `Progress`, `Answer`) for each goroutine; the size of the
pool is shown from it with facts on finite sets. All four invariants are theorems
for any number of goroutines, connections and rows.

**Nesting** (`NestingProofs`): the invariant says which call may hold a connection at
which place, that only the innermost call waits, and that all others stand where
reform calls the caller's code. `NothingLost` counts: the sum of what is free and what
the calls of all stacks hold is the pool, shown with facts on the cardinality of the
set of holders when a call is pushed, popped, or changes. Both invariants are theorems
for any number of goroutines, connections, and calls inside calls.

**reform-db** (`ReformDBProofs`): the invariant has five parts, each shown to be kept
by every step with the parts before it.

- `TypeInv`: types, and a struct is left while a file is being written.
- `PingInv`: at "ping" no more Pings than seconds, at "sleep" one more at most.
- `ExecInv`: what is executed is a prefix of what was read (`Prefix`), and each file up
  to `next` could be read and has given its queries (`ReadUpTo`).
- `SchemaInv`: the tables of the structs made are those listed and no longer to do, and
  each struct is that of its table unless the table was altered (`TrueStruct`).
- `FilesInv`: no file is touched before the schema has been read; then each file of a
  struct up to `next` is whole (`Written`), or is the one being written. Two tables with
  one file are why `Written` names another struct than the i-th. A file of no struct is
  as it was, or `LaidOut` by gofmt once all structs are written.

`InitFrame` and `ExecFrame` say once what the steps of one command leave to the other.
All five invariants of the run are theorems, for any schema, any files and flags, and
whatever other clients alter.

**Generator** (`GeneratorProofs`): six parts, each kept by every step with the types
and `RunInv`.

- `TypeInv`: types, and what `goformat` holds is of the kind of the file it formats.
- `RunInv`: what is known at each place: the file under way is not among those still to
  do; `gofmt` comes when none is left; a file being written belongs to a source that
  was found to have structs, and is whole only with all of them.
- `HandInv`: a source is what the programmer wrote, unless it is truncated just now, and
  so is what `goformat` has read of it and will write; but for the files harmed in the
  window between reading and writing.
- `UnparsedInv`: a source still to be parsed is in the list, or is the file of
  `go generate`, whose turn is still to come. Hence none is left at the end.
- `MadeInv`: a file created anew is complete, or is being written, or is held by
  `goformat` (`Held`). `OkMeansGenerated` and `WholeOrUntouched` follow.
- `SoundInv`: in a run over a sound directory, a generated file that does not parse
  will be written anew before it is read (`Repaired`): it is under way, or its source
  is good, has structs, and is still in the list. The order of names enters here:
  when the loop takes `x_reform.go`, `x.go` is no longer in the list. `RerunRepairs`
  follows.

All five invariants of the run are theorems, for any package and any interleaving of
runs, failures, edits and kills.

**Structs and statements** (`StructProofs`). What both modules compute, they compute by
folds over fields, so the module begins with induction. The induction theorems of the
library take a predicate, which the provers cannot instantiate; `Induction` takes a set of
numbers instead, and follows from the well-founded order of finite sets
(`LeastNumber`). `FoldExists` shows that the recursive function inside a fold exists,
`FoldSteps` reads the results position by position out of it; `FileSteps`,
`ObjectSteps`, `AddSteps` and `FilterSteps` apply them to the four folds of the models.

- *Parsers.* `RunGrows`: an error stays, and fields are only added behind the others.
  Hence a declaration of two names, which is a panic for the source, ends as a duplicate
  column for the runtime (`ObjectFieldGrows`), and `ParsersAgree`: if one of the two
  accepts a struct of plain types, both find the same in it. `Plain` says which types are
  meant (the length of an array, for one, has to be a decimal number: reflection prints
  its value, the source parser the expression); `MCStructParse` assumes it of the
  declarations of the run, and
  `StaleFieldsPanic` and `FreshStarts` are theorems under that hypothesis only, as they
  fail without it. `StructInv` says that a generated file holds what `File`
  found in some struct, in the struct as it is while fresh, and that a program that is
  up has compared it with what `Object` finds.
- *Statements.* `Sends`: each command and finder sends a statement whose slots are
  numbered in the order of its arguments (`Numbered`), that the server can parse
  (`Parsed`), and that lists the key of a record if and only if it has one
  (`KeyListed`); one lemma for each function. `FilteredFacts` says what the filter
  returns: values with their columns, each column listed once, and so as many as the
  caller has counted when it numbers its tail. `StatementInv` keeps this while the
  statement is under way; the three invariants of the run follow, for any columns, any
  number of arguments and any keys.
- `GeneratedIsView` joins the two: whatever `File` accepts is a table as the commands
  need it (`IsView`).

**Only model-checked**: the liveness properties `AnswersOnceFReturns`,
`EveryCallReturns`, `EveryoneReturns` and `EveryRunEnds`, which depend on fairness and on
which actions are enabled.

## Where the code and its documentation part

Two have a run that ends in a counterexample, and an entry under "findings":

1. `copy_callbacks`: a callback registered through `tx.WithTag(…)` or
   `tx.WithContext(…)` is silently never run (`querier.go:46`, `db.go:106`).
2. `stale_table`: `AssertUpToDate` does not notice a new table name in the magic
   comment (`parse/base.go:138`).

The others have a definition at the end of the module concerned; named as the
`INVARIANT` of the config of its module, it gives the counterexample.

3. `CopiesDoNotInterfere` (`MCCommitCalls.cfg`): a callback registered through a copy
   may replace one registered through the `TX`, in the array that both lists share
   (`querier.go:181`).
4. `HookAbortsSave` (`MCCommands.cfg`): `Save` inserts a record whose `BeforeUpdate`
   hook refused it with `ErrNoRows` (`querier_commands.go:398`, against `base.go:99`).
5. `PartialMeansError` (`MCSelects.cfg`): `SelectAllFrom` returns part of the rows and
   nil when `AfterFind` returns `ErrNoRows` (`querier_selects.go:116`).
6. `FreshStarts` with `Decl <- OtherDecl` (`MCStructParse.cfg`): a freshly generated
   program panics when a field's type is `rune`, a slice of a type of the same package,
   of a renamed import, or an array whose length is not written as a decimal number
   (`[sha256.Size]byte`; `parse/runtime.go:14,17`, `parse/file.go:27-30`).
7. `GeneratedIsFormatted` (`MCGenerator.cfg`): with `-gofmt=false` the file formatted is
   the source, not the generated one (`reform/main.go:180,197`, against
   `CHANGELOG.md:50`).
8. `CompositeKeysAreSkipped` (`MCReformDB.cfg`): `init` ends at the first table with a
   key of two columns (`reform-db/cmd_init.go:134-136`), which its comment (`:81`) and
   the message at `:126-131` would have it skip.

The invariants next to these properties exclude exactly those cases, and say so. Four
smaller ones are visible in a single definition:

- `Statements!Placeholders`: that of `sqlserver` ignores its argument `start`
  (`dialects/sqlserver/sqlserver.go:23`, against `base.go:192`). No code of the library
  passes another one than 1.
- `Commands!Filled`: under a dialect that asks for the last insert id, `InsertColumns`
  leaves a key alone that is set and not listed, although it is documented to fill it
  (`querier_commands.go:92,160`); `NilMeansStored` therefore speaks of `Insert` only.
- `Statements!SetPK`: a string key is not set and a narrow one wraps around
  (`base.go:216-217`); `KeyIsFilled` names both.
- `Generator!ImportDir`: a generated file without a complete package clause, which a
  killed run may leave, makes every later run over the directory fail until it is
  removed (`reform/main.go:160`); `RerunRepairs` excludes it.

## What is not modelled

- Data races of the caller: `AddOnCommitCall` and `AddSlaves` from several
  goroutines without synchronisation are single steps here. Nor is the assignment
  of another Querier to the exported field `TX.Querier`.
- A capacity larger than what growth gives (`slices` of other origin), and the
  growth beyond 256 elements, which is by less than double.
- The wording of statements: quoting, tags, the SQL of a tail. In `Commands`, structs of
  a view without a primary key and `InsertColumns` that lists the key of a record
  without one; the first are in `Statements`.
- Commands and selectors inside a transaction: they run over a connection of their
  own in `Commands` and `Selects`. Their steps there are the same, without `Others` as
  far as isolation goes.
- `File`'s search for structs and magic comments, several structs in one file for the
  parsers (`Generator` has several).
- The text of the generator's templates beyond its parts; several directories on its
  command line, which are so many runs.
- Names of types, comments and imports in the files of `init`, and edits of the directory
  while it runs.
- The `gofmt` command at work: it is one step, so that a file it is killed in writing, or
  goes on to write after `reform` itself was killed, is not there.
- Loggers: they write text and no state depends on them.
- Generated code, test support and tools: output of the templates, and scaffolding.

## Plan

In the order in which the modules were and will be written:

1. *Done*: `CommitCalls`, `Transaction` with `TxContract`; `Commands` with
   `AtomicCommands`; `Routing`;
   `Selects`; `StructParse`; `Nesting`; `Statements`; `Generator`; `ReformDB`; theorems
   about all of them.
2. `TxCommands`: commands inside a transaction whose outcome decides what the
   table keeps. Composes `Transaction` and `Commands`; `Save` retried after an
   error of the driver.
3. `File`'s search for structs and their comments.
