------------------------------- MODULE Selects -------------------------------
(***************************************************************************)
(* The finders and selectors of a Querier (querier_selects.go): rows are   *)
(* fetched one by one over a connection of the pool, scanned into structs  *)
(* and handed to the caller's AfterFind hook, while the context may end,   *)
(* the connection may break and the hook may fail or panic.                *)
(*                                                                         *)
(* Goroutines call selectors outside a transaction and share the pool of   *)
(* sql.DB.  Of database/sql this much is modelled: a query waits for a     *)
(* free connection; sql.Rows holds the connection until it is closed, by   *)
(* Close, by Next at the end of the rows or at an error, or by the context;*)
(* sql.Row.Scan closes its rows.                                           *)
(***************************************************************************)
EXTENDS Naturals, FiniteSets

CONSTANTS
    Proc,       \* goroutines
    PoolSize,   \* connections of the pool (SetMaxOpenConns)
    MaxRows     \* bound: rows a query matches

ASSUME ProcAssumption == IsFiniteSet(Proc)
ASSUME PoolAssumption == PoolSize \in Nat \ {0}
ASSUME RowsAssumption == MaxRows \in Nat \ {0}

VARIABLES
    pc,       \* where a goroutine is
    op,       \* the selector it called
    size,     \* how many rows its query matches
    read,     \* how many of them it has scanned
    got,      \* how many structs it has handed on; of a single row: 1 once
              \* the caller's struct has been written to
    open,     \* its sql.Rows is open and holds a connection
    rowsErr,  \* what rows.Err() says once the rows are closed
    err,      \* what the selector returned, or "panic"
    hook      \* history: the error its AfterFind returned last

vars == <<pc, op, size, read, got, open, rowsErr, err, hook>>

Ops  == {"SelectAllFrom", "SelectOneTo", "SelectRows", "Count"}
Single == {"SelectOneTo", "Count"}    \* those that use QueryRow
Errs == {"nil", "noRows", "ctxErr", "driverErr", "scanErr", "hookErr", "panic"}
PCs  == {"idle", "query", "next", "hook", "close", "returned"}

Busy == {p \in Proc : open[p]}

Init ==
    /\ pc = [p \in Proc |-> "idle"] /\ op = [p \in Proc |-> "Count"]
    /\ size = [p \in Proc |-> 0] /\ read = [p \in Proc |-> 0] /\ got = [p \in Proc |-> 0]
    /\ open = [p \in Proc |-> FALSE] /\ rowsErr = [p \in Proc |-> "nil"]
    /\ err = [p \in Proc |-> "nil"] /\ hook = [p \in Proc |-> "nil"]

\* A finder translates its column and arguments to a tail and calls one of
\* these: FindOneTo and FindOneFrom, FindByPrimaryKeyTo and -From and Reload
\* call SelectOneTo; FindRows calls SelectRows; FindAllFrom, SelectAllFrom.
Call(p, o) ==
    /\ pc[p] = "idle"
    /\ pc' = [pc EXCEPT ![p] = "query"]
    /\ op' = [op EXCEPT ![p] = o]
    /\ UNCHANGED <<size, read, got, open, rowsErr, err, hook>>

Go(p, where)  == pc' = [pc EXCEPT ![p] = where]
Ends(p, e)    == err' = [err EXCEPT ![p] = e]

\* The rows are closed with error e; the first one stays.
CloseRows(p, e) ==
    /\ open' = [open EXCEPT ![p] = FALSE]
    /\ rowsErr' = IF open[p] THEN [rowsErr EXCEPT ![p] = e] ELSE rowsErr

-----------------------------------------------------------------------------
\* Query and QueryRow

QuerySucceeds(p) ==
    /\ pc[p] = "query" /\ Cardinality(Busy) < PoolSize
    /\ open' = [open EXCEPT ![p] = TRUE]
    /\ \E n \in 0 .. MaxRows :
          /\ op[p] = "Count" => n = 1
          /\ size' = [size EXCEPT ![p] = n]
    /\ Go(p, "next")
    /\ UNCHANGED <<op, read, got, rowsErr, err, hook>>

\* The context ends while the query waits, or the server refuses it.
QueryFails(p) ==
    /\ pc[p] = "query"
    /\ \E e \in {"ctxErr", "driverErr"} : Ends(p, e)
    /\ Go(p, "returned")
    /\ UNCHANGED <<op, size, read, got, open, rowsErr, hook>>

\* The goroutine of database/sql that watches the context closes the rows.
ContextEnds(p) ==
    /\ open[p] /\ CloseRows(p, "ctxErr")
    /\ UNCHANGED <<pc, op, size, read, got, err, hook>>

-----------------------------------------------------------------------------
\* NextRow, and the Scan of a sql.Row, which also advances to the first row

\* Mutant: rows.Err() is not consulted when Next finds no further row.
NextEndsUnchecked(p) ==
    /\ pc[p] = "next"
    /\ \/ ~open[p] /\ UNCHANGED <<open, rowsErr>>
       \/ open[p] /\ read[p] = size[p] /\ CloseRows(p, "nil")
       \/ open[p] /\ CloseRows(p, "driverErr")
    /\ Ends(p, "noRows") /\ Go(p, "close")
    /\ UNCHANGED <<op, size, read, got, hook>>

\* Next finds no further row: the end, an error of the connection, or rows
\* that were closed before.
NextEnds(p) ==
    /\ pc[p] = "next"
    /\ \/ ~open[p] /\ UNCHANGED <<open, rowsErr>>
       \/ open[p] /\ read[p] = size[p] /\ CloseRows(p, "nil")
       \/ open[p] /\ CloseRows(p, "driverErr")
    /\ Ends(p, IF rowsErr'[p] = "nil" THEN "noRows" ELSE rowsErr'[p])
    /\ Go(p, "close")
    /\ UNCHANGED <<op, size, read, got, hook>>

\* Scan of a sql.Row writes to the caller's struct itself.
Fill(p) == got' = [got EXCEPT ![p] = 1]

\* A row is scanned: for a single one into the caller's struct, before
\* AfterFind is asked, and a Scan that fails may have come half way.  QueryRow
\* and Count are done with the rows then: Scan of a sql.Row closes them.
NextScans(p) ==
    /\ pc[p] = "next" /\ open[p] /\ read[p] < size[p]
    /\ read' = [read EXCEPT ![p] = read[p] + 1]
    /\ \/ /\ Ends(p, "scanErr") /\ Go(p, "close") /\ UNCHANGED <<open, rowsErr>>
          /\ UNCHANGED got \/ (op[p] \in Single /\ Fill(p))
       \/ /\ Go(p, "hook") /\ UNCHANGED err
          /\ IF op[p] \in Single THEN Fill(p) /\ CloseRows(p, "nil")
                                 ELSE UNCHANGED <<got, open, rowsErr>>
    /\ UNCHANGED <<op, size, hook>>

\* sql.Row.Scan has filled the struct and returns the error of closing the
\* rows, before AfterFind.
ScanFailsToClose(p) ==
    /\ pc[p] = "next" /\ open[p] /\ read[p] < size[p] /\ op[p] \in Single
    /\ read' = [read EXCEPT ![p] = read[p] + 1] /\ Fill(p)
    /\ CloseRows(p, "driverErr") /\ Ends(p, "driverErr") /\ Go(p, "close")
    /\ UNCHANGED <<op, size, hook>>

\* A struct is appended to the result, or the caller of NextRow has the next.
Collect(p) == got' = [got EXCEPT ![p] = got[p] + 1]

\* AfterFind succeeds, or there is none.  SelectAllFrom and a caller with rows
\* go on to the next row.
AfterFind(p) ==
    /\ pc[p] = "hook"
    /\ hook' = [hook EXCEPT ![p] = "nil"]
    /\ IF op[p] \in Single
       THEN Ends(p, "nil") /\ Go(p, "close") /\ UNCHANGED got
       ELSE Collect(p) /\ Go(p, "next") /\ UNCHANGED err
    /\ UNCHANGED <<op, size, read, open, rowsErr>>

\* Mutant: the error of AfterFind is dropped.
AfterFindDropped(p) ==
    /\ pc[p] = "hook" /\ op[p] # "Count"
    /\ \E e \in {"noRows", "hookErr"} : hook' = [hook EXCEPT ![p] = e]
    /\ Ends(p, "nil") /\ Go(p, "close")
    /\ UNCHANGED <<op, size, read, got, open, rowsErr>>

\* AfterFind fails, perhaps with ErrNoRows (from a query of its own), or panics.
AfterFindFails(p) ==
    /\ pc[p] = "hook" /\ op[p] # "Count"
    /\ \E e \in {"noRows", "hookErr", "panic"} :
          Ends(p, e) /\ hook' = [hook EXCEPT ![p] = e]
    /\ Go(p, "close")
    /\ UNCHANGED <<op, size, read, got, open, rowsErr>>

\* The caller of SelectRows and NextRow need not read to the end.
CallerStops(p) ==
    /\ pc[p] = "next" /\ op[p] = "SelectRows"
    /\ Ends(p, "nil") /\ Go(p, "close")
    /\ UNCHANGED <<op, size, read, got, open, rowsErr, hook>>

-----------------------------------------------------------------------------
\* Mutant: Close is a plain statement after the loop, which a panic skips.
ReturnsUnlessPanic(p) ==
    /\ pc[p] = "close" /\ Go(p, "returned")
    /\ IF err[p] = "panic" THEN UNCHANGED <<open, rowsErr>> ELSE CloseRows(p, "nil")
    /\ Ends(p, IF op[p] = "SelectAllFrom" /\ err[p] = "noRows" THEN "nil" ELSE err[p])
    /\ UNCHANGED <<op, size, read, got, hook>>

\* The selector returns, and its deferred Close (the caller's, for SelectRows)
\* closes the rows.  SelectAllFrom turns ErrNoRows, whatever it came from, into
\* nil, and an error of Close counts if there is no other.
Returns(p) ==
    LET e == IF op[p] = "SelectAllFrom" /\ err[p] = "noRows" THEN "nil" ELSE err[p] IN
    /\ pc[p] = "close" /\ Go(p, "returned")
    /\ \/ CloseRows(p, "nil") /\ Ends(p, e)
       \/ /\ open[p] /\ CloseRows(p, "driverErr")
          /\ Ends(p, IF op[p] = "SelectAllFrom" /\ e = "nil" THEN "driverErr" ELSE e)
    /\ UNCHANGED <<op, size, read, got, hook>>

\* What a goroutine does by itself once it has called a selector.
Step(p) ==
    \/ QuerySucceeds(p) \/ QueryFails(p)
    \/ NextEnds(p) \/ NextScans(p) \/ ScanFailsToClose(p)
    \/ AfterFind(p) \/ AfterFindFails(p) \/ CallerStops(p)
    \/ Returns(p)

Next == \E p \in Proc : (\E o \in Ops : Call(p, o)) \/ ContextEnds(p) \/ Step(p)

Spec == Init /\ [][Next]_vars

\* Goroutines run.  A connection that is given back goes to some request that
\* waits (in which order, depends on the version of Go), and none is passed
\* over for ever.  Hooks and drivers are
\* assumed to return, and a caller of SelectRows to close its rows.  No query
\* is assumed to fail.
Fairness ==
    \A p \in Proc :
        /\ SF_vars(QuerySucceeds(p))
        /\ WF_vars(NextEnds(p) \/ NextScans(p) \/ ScanFailsToClose(p))
        /\ WF_vars(AfterFind(p) \/ AfterFindFails(p))
        /\ WF_vars(Returns(p))

FairSpec == Spec /\ Fairness

-----------------------------------------------------------------------------
\* Every variable has its type, and the pool is never exceeded.
TypeOK ==
    /\ pc \in [Proc -> PCs] /\ op \in [Proc -> Ops]
    /\ size \in [Proc -> 0 .. MaxRows]
    /\ read \in [Proc -> 0 .. MaxRows] /\ got \in [Proc -> 0 .. MaxRows]
    /\ open \in [Proc -> BOOLEAN]
    /\ rowsErr \in [Proc -> Errs] /\ err \in [Proc -> Errs] /\ hook \in [Proc -> Errs]
    /\ Cardinality(Busy) <= PoolSize

Returned(p) == pc[p] = "returned"

\* A selector gives its connection back on every path, those where it panics
\* included.
RowsClosed == \A p \in Proc : Returned(p) => ~open[p]

\* "Error is never ErrNoRows" (querier_selects.go:94); nil means that every row
\* the query matched was collected, unless the caller stopped or AfterFind
\* returned ErrNoRows (see PartialMeansError).
NilMeansAll ==
    \A p \in Proc : Returned(p) /\ op[p] = "SelectAllFrom" =>
        /\ err[p] # "noRows"
        /\ err[p] = "nil" /\ hook[p] # "noRows" => got[p] = size[p]

\* "If there are no rows in result, it returns ErrNoRows"
\* (querier_selects.go:52).  With nil the struct holds a row that was there and
\* AfterFind has agreed.  ErrNoRows means that there was none and the struct
\* is as the caller gave it, unless AfterFind says ErrNoRows.  Whatever
\* AfterFind refuses with is what the caller gets, and the refused row is in
\* its struct all the same.
OneRowOrError ==
    \A p \in Proc : Returned(p) /\ op[p] = "SelectOneTo" =>
        /\ err[p] = "nil" => got[p] = 1 /\ hook[p] = "nil"
        /\ got[p] = 1 => size[p] > 0
        /\ err[p] = "noRows" /\ hook[p] # "noRows" => size[p] = 0 /\ got[p] = 0
        /\ hook[p] # "nil" => err[p] = hook[p] /\ got[p] = 1

\* Whoever calls a selector gets an answer and lets go of the connection, when
\* more goroutines than connections compete and contexts end at any moment.
EveryCallReturns == \A p \in Proc : pc[p] = "query" ~> (Returned(p) /\ ~open[p])

-----------------------------------------------------------------------------
\* What the documentation says and the code does not do.

\* "If error is encountered during iteration, partial result and error will be
\* returned." (querier_selects.go:93)
PartialMeansError ==
    \A p \in Proc : Returned(p) /\ op[p] = "SelectAllFrom" /\ got[p] < size[p] =>
        err[p] # "nil"
=============================================================================
