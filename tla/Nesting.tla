------------------------------- MODULE Nesting -------------------------------
(***************************************************************************)
(* Calls of a DB inside calls of a DB (db.go, querier_selects.go,          *)
(* querier_commands.go).  reform calls back into the caller: the function  *)
(* f of InTransaction, on-commit callbacks, AfterFind, BeforeInsert.  When *)
(* that code uses the DB itself, in place of its TX or Querier, it asks    *)
(* the pool of sql.DB for a further connection, while the call around it   *)
(* may hold one.  Here is what each call holds at which point, and who may *)
(* have to wait for whom.                                                  *)
(*                                                                         *)
(* A goroutine is a stack of calls.  What a call answers is the matter of  *)
(* Transaction, Selects and Commands.                                      *)
(***************************************************************************)
EXTENDS Naturals, Sequences, FiniteSets

CONSTANTS
    Proc,       \* goroutines
    PoolSize,   \* connections of the pool (SetMaxOpenConns)
    MaxDepth,   \* bound: calls inside calls
    MaxRows     \* bound: rows a query matches

ASSUME NestingAssumption ==
    /\ IsFiniteSet(Proc) /\ PoolSize \in Nat \ {0}
    /\ MaxDepth \in Nat \ {0} /\ MaxRows \in Nat \ {0}

VARIABLES
    stack,      \* the calls a goroutine is in, the innermost last
    free        \* connections in the pool that nobody holds

vars == <<stack, free>>

Ops    == {"InTransaction", "SelectAllFrom", "SelectOneTo", "Insert"}
Places == {"wait", "f", "commit", "calls", "next", "hook", "exec", "unwind"}

\* A call: where it is, whether it holds a connection, how many rows are left,
\* and whether the caller's code at this place has called the DB already.
Frames == [op : Ops, at : Places, conn : BOOLEAN, rows : 0 .. MaxRows, called : BOOLEAN]

Init ==
    /\ stack = [p \in Proc |-> << >>]
    /\ free = PoolSize

Top(p)   == stack[p][Len(stack[p])]
At(p, o, place) == stack[p] # << >> /\ Top(p).op = o /\ Top(p).at = place

\* The innermost call of p goes to another place.
Goto(p, frame) == stack' = [stack EXCEPT ![p] = [@ EXCEPT ![Len(@)] = frame]]
Moved(p, place) == [Top(p) EXCEPT !.at = place, !.called = FALSE]

Pop(p) == stack' = [stack EXCEPT ![p] = SubSeq(@, 1, Len(@) - 1)]

\* The connection of this call goes back to the pool, if it has one.
Release(frame) == free' = IF frame.conn THEN free + 1 ELSE free

-----------------------------------------------------------------------------
\* Calls, and the wait for a connection

\* BeforeInsert comes first, before anything else has been done.
New(o) ==
    [op |-> o, at |-> IF o = "Insert" THEN "hook" ELSE "wait", conn |-> FALSE,
     rows |-> IF o = "SelectAllFrom" THEN MaxRows ELSE 0, called |-> FALSE]

Call(p, o) ==
    /\ stack[p] = << >>
    /\ stack' = [stack EXCEPT ![p] = <<New(o)>>]
    /\ UNCHANGED free

\* f, a callback or a hook calls the DB.
CallInside(p, o) ==
    /\ stack[p] # << >> /\ Len(stack[p]) < MaxDepth
    /\ Top(p).at \in {"f", "calls", "hook"} /\ ~Top(p).called
    /\ stack' = [stack EXCEPT ![p] =
                    Append([@ EXCEPT ![Len(@)].called = TRUE], New(o))]
    /\ UNCHANGED free

\* sql.DB hands out a connection; a statement is sent, or a transaction begun.
Acquire(p) ==
    /\ stack[p] # << >> /\ Top(p).at = "wait" /\ free > 0
    /\ free' = free - 1
    /\ Goto(p, [Moved(p, CASE Top(p).op = "InTransaction" -> "f"
                           [] Top(p).op = "Insert" -> "exec"
                           [] OTHER -> "next") EXCEPT !.conn = TRUE])

\* The context ends while the call waits: it returns its error.
WaitEnds(p) ==
    /\ stack[p] # << >> /\ Top(p).at = "wait"
    /\ Pop(p) /\ UNCHANGED free

\* The context of a call ends: sql.Tx and sql.Rows let go of the connection.
ContextEnds(p, i) ==
    /\ i \in DOMAIN stack[p] /\ stack[p][i].conn
    /\ stack[p][i].op \in {"InTransaction", "SelectAllFrom", "SelectOneTo"}
    /\ stack' = [stack EXCEPT ![p][i].conn = FALSE]
    /\ free' = free + 1

-----------------------------------------------------------------------------
\* InTransactionContext

FReturns(p) ==
    /\ At(p, "InTransaction", "f")
    /\ \/ Goto(p, Moved(p, "commit"))
       \/ Goto(p, Moved(p, "unwind"))     \* an error, or a panic
    /\ UNCHANGED free

\* Mutant: the connection is given back by the deferred function only.
CommitKeeping(p) ==
    /\ At(p, "InTransaction", "commit")
    /\ \/ Goto(p, Moved(p, "calls"))
       \/ Goto(p, Moved(p, "unwind"))
    /\ UNCHANGED free

\* Commit gives the connection back, before the callbacks run; under an ended
\* context it fails, and leaves that to the deferred function.
Commit(p) ==
    /\ At(p, "InTransaction", "commit")
    /\ \/ Goto(p, [Moved(p, "calls") EXCEPT !.conn = FALSE]) /\ Release(Top(p))
       \/ Goto(p, [Moved(p, "unwind") EXCEPT !.conn = FALSE]) /\ Release(Top(p))
       \/ Goto(p, Moved(p, "unwind")) /\ UNCHANGED free

\* The callbacks are done, or one of them has failed.
CallsDone(p) ==
    /\ At(p, "InTransaction", "calls")
    /\ Goto(p, Moved(p, "unwind"))
    /\ UNCHANGED free

\* The deferred function rolls back what is not committed.
Unwind(p) ==
    /\ At(p, "InTransaction", "unwind")
    /\ Release(Top(p)) /\ Pop(p)

-----------------------------------------------------------------------------
\* SelectAllFrom: its rows stay open while AfterFind runs

NextRow(p) ==
    /\ At(p, "SelectAllFrom", "next") /\ Top(p).conn /\ Top(p).rows > 0
    /\ Goto(p, Moved(p, "hook"))
    /\ UNCHANGED free

AfterFind(p) ==
    /\ At(p, "SelectAllFrom", "hook")
    /\ Goto(p, [Moved(p, "next") EXCEPT !.rows = @ - 1])
    /\ UNCHANGED free

\* Mutant: Close is a plain statement after the loop, which an error skips.
CloseRowsAtEnd(p) ==
    /\ stack[p] # << >> /\ Top(p).op = "SelectAllFrom" /\ Top(p).at \in {"next", "hook"}
    /\ IF Top(p).at = "next" THEN Release(Top(p)) ELSE UNCHANGED free
    /\ Pop(p)

\* No more rows, an error of the connection, of Scan or of AfterFind, or its
\* panic: the deferred Close.
CloseRows(p) ==
    /\ stack[p] # << >> /\ Top(p).op = "SelectAllFrom" /\ Top(p).at \in {"next", "hook"}
    /\ Release(Top(p)) /\ Pop(p)

-----------------------------------------------------------------------------
\* SelectOneTo: Scan of the sql.Row closes it, AfterFind comes after that

\* Mutant: the row is closed by the function that returns.
ScanOpen(p) ==
    /\ At(p, "SelectOneTo", "next")
    /\ \/ Goto(p, Moved(p, "hook")) /\ UNCHANGED free
       \/ Release(Top(p)) /\ Pop(p)

\* A row, or none, or an error.
Scan(p) ==
    /\ At(p, "SelectOneTo", "next")
    /\ Release(Top(p))
    /\ \/ Goto(p, [Moved(p, "hook") EXCEPT !.conn = FALSE])
       \/ Pop(p)

OneReturns(p) ==
    /\ At(p, "SelectOneTo", "hook")
    /\ Release(Top(p)) /\ Pop(p)

-----------------------------------------------------------------------------
\* Insert: BeforeInsert comes before the statement

BeforeInsert(p) ==
    /\ At(p, "Insert", "hook")
    /\ \/ Goto(p, Moved(p, "wait"))
       \/ Pop(p)                        \* the hook refuses
    /\ UNCHANGED free

Exec(p) ==
    /\ At(p, "Insert", "exec")
    /\ Release(Top(p)) /\ Pop(p)

-----------------------------------------------------------------------------
\* What a goroutine does by itself, but for waiting.
Run(p) ==
    \/ FReturns(p) \/ Commit(p) \/ CallsDone(p) \/ Unwind(p)
    \/ NextRow(p) \/ AfterFind(p) \/ CloseRows(p)
    \/ Scan(p) \/ OneReturns(p) \/ BeforeInsert(p) \/ Exec(p)

Next == \E p \in Proc :
    \/ \E o \in Ops : Call(p, o) \/ CallInside(p, o)
    \/ \E i \in 1 .. MaxDepth : ContextEnds(p, i)
    \/ Acquire(p) \/ WaitEnds(p) \/ Run(p)

Spec == Init /\ [][Next]_vars

\* Inside f, and in an AfterFind of SelectAllFrom: at any depth.
InsideOpen(p) ==
    \E i \in 1 .. Len(stack[p]) - 1 :
        \/ stack[p][i].op = "InTransaction" /\ stack[p][i].at = "f"
        \/ stack[p][i].op = "SelectAllFrom" /\ stack[p][i].at = "hook"

\* Goroutines run, and the pool serves everyone who waits, in whatever order.  Calls of the DB
\* from inside f and from an AfterFind of SelectAllFrom are made with a context
\* that has a deadline: nothing is assumed of the contexts of all others.
Fairness == \A p \in Proc :
    /\ WF_vars(Run(p))
    /\ SF_vars(Acquire(p))
    /\ WF_vars(InsideOpen(p) /\ WaitEnds(p))

FairSpec == Spec /\ Fairness

-----------------------------------------------------------------------------
Held == {c \in Proc \X (1 .. MaxDepth) :
            c[2] <= Len(stack[c[1]]) /\ stack[c[1]][c[2]].conn}

\* Types; and connections are neither lost nor given back twice, whichever way
\* a call returns and whenever its context ends.
TypeOK ==
    /\ stack \in [Proc -> Seq(Frames)] /\ \A p \in Proc : Len(stack[p]) <= MaxDepth
    /\ free \in Nat
    /\ free + Cardinality(Held) = PoolSize

\* A call that waits for a connection holds none, except inside f (db.go:100)
\* and inside an AfterFind whose rows are open (querier_selects.go:110): on-commit
\* callbacks run after Commit (db.go:102-110), AfterFind of a single row after
\* Scan (querier_selects.go:54-59), BeforeInsert before the statement.
WaitsHoldingNothing ==
    \A p \in Proc : stack[p] # << >> /\ Top(p).at = "wait" /\ ~InsideOpen(p) =>
        \A i \in DOMAIN stack[p] : ~stack[p][i].conn

\* Whatever is nested in whatever, over a single connection: every call returns.
EveryoneReturns == \A p \in Proc : stack[p] # << >> ~> stack[p] = << >>
=============================================================================
