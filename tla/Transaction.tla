---------------------------- MODULE Transaction ----------------------------
(***************************************************************************)
(* Transactions of reform (db.go, tx.go, querier.go): InTransactionContext,*)
(* which wraps a function f of the caller in a transaction and runs the    *)
(* on-commit callbacks, and Begin/Commit/Rollback, which the caller may    *)
(* also use by hand, inside f or instead of it.                            *)
(*                                                                         *)
(* Every transaction is a goroutine inside InTransactionContext, or a TX   *)
(* the caller holds.  Around it move the caller's other goroutines (they   *)
(* register callbacks, derive Queriers, commit or roll back a TX they were *)
(* given), the context of the transaction, and the goroutine of            *)
(* database/sql that rolls a transaction back when its context ends.       *)
(*                                                                         *)
(* The part of database/sql that matters here is modelled with it: a       *)
(* sql.Tx can be ended once, by the first Commit or Rollback; later ones   *)
(* return ErrTxDone; Commit under an ended context leaves the sql.Tx open. *)
(***************************************************************************)
EXTENDS CommitCalls

VARIABLES
    pc,         \* where the caller of BeginTx or InTransactionContext is
    res,        \* what InTransactionContext returns, or how it panics
    committed,  \* the local variable its deferred function looks at
    iter,       \* the range loop over the callbacks: header and next index
    endedBy,    \* who ended the sql.Tx first
    server,     \* the transaction as the database server knows it
    cancelled,  \* the transaction's context has ended
    ran,        \* history: the callbacks run, in order
    due         \* history: added[q] when the f of q's transaction returned

txVars == <<pc, res, committed, iter, endedBy, server, cancelled, ran, due>>
vars   == <<callVars, txVars>>

PCs     == {"idle", "f", "manual", "commit", "calls", "unwind", "returned"}
Results == {"none", "nil", "beginErr", "fErr", "fPanic", "txDone", "ctxErr",
            "driverErr", "callErr", "callPanic"}
Enders  == {"nobody", "wrapper", "user", "context"}
Servers == {"none", "open", "committed", "rolledback"}

Init ==
    /\ CallsInit
    /\ pc        = [t \in Tx |-> "idle"]
    /\ res       = [t \in Tx |-> "none"]
    /\ committed = [t \in Tx |-> FALSE]
    /\ iter      = [t \in Tx |-> [hdr |-> Nil, next |-> 1]]
    /\ endedBy   = [t \in Tx |-> "nobody"]
    /\ server    = [t \in Tx |-> "none"]
    /\ cancelled = [t \in Tx |-> FALSE]
    /\ ran       = [t \in Tx |-> << >>]
    /\ due       = [q \in Querier |-> 0]

-----------------------------------------------------------------------------
\* database/sql

Done(t) == endedBy[t] # "nobody"

SqlEnd(t, who, outcome) ==
    /\ endedBy' = [endedBy EXCEPT ![t] = who]
    /\ server'  = [server EXCEPT ![t] = outcome]

\* Rollback; its error, if any, tells nothing the caller of reform gets.
SqlRollback(t, who) ==
    IF Done(t) THEN UNCHANGED <<endedBy, server>>
               ELSE SqlEnd(t, who, "rolledback")

\* Commit.  An error of the driver leaves the outcome open: the server may
\* have committed before the connection broke.
SqlCommit(t, who, err) ==
    \/ /\ Done(t) /\ err = "txDone"
       /\ UNCHANGED <<endedBy, server>>
    \/ /\ ~Done(t) /\ cancelled[t] /\ err = "ctxErr"
       /\ UNCHANGED <<endedBy, server>>
    \/ /\ ~Done(t) /\ ~cancelled[t] /\ err = "nil"
       /\ SqlEnd(t, who, "committed")
    \/ /\ ~Done(t) /\ ~cancelled[t] /\ err = "driverErr"
       /\ \E outcome \in {"committed", "rolledback"} : SqlEnd(t, who, outcome)

ContextEnds(t) ==
    /\ ~cancelled[t] /\ pc[t] # "returned"
    /\ cancelled' = [cancelled EXCEPT ![t] = TRUE]
    /\ UNCHANGED <<callVars, pc, res, committed, iter, endedBy, server, ran, due>>

\* Tx.awaitDone
AwaitDone(t) ==
    /\ cancelled[t] /\ InTransaction(t) /\ ~Done(t)
    /\ SqlRollback(t, "context")
    /\ UNCHANGED <<callVars, pc, res, committed, iter, cancelled, ran, due>>

-----------------------------------------------------------------------------
\* DB.BeginTx, TX.Commit, TX.Rollback

BeginTx(t, next) ==
    /\ pc[t] = "idle" /\ ~cancelled[t]
    /\ NewTX(t)
    /\ pc' = [pc EXCEPT ![t] = next]
    /\ server' = [server EXCEPT ![t] = "open"]
    /\ UNCHANGED <<res, committed, iter, endedBy, cancelled, ran, due>>

BeginFails(t) ==
    /\ pc[t] = "idle"
    /\ pc'  = [pc EXCEPT ![t] = "returned"]
    /\ res' = [res EXCEPT ![t] = "beginErr"]
    /\ UNCHANGED <<callVars, committed, iter, endedBy, server, cancelled, ran, due>>

\* The caller ends the TX itself: by hand after Begin, or inside f.  No
\* callback runs, whoever registered it.
Commit(t) ==
    /\ InTransaction(t)
    /\ \E err \in Results : SqlCommit(t, "user", err)
    /\ UNCHANGED <<callVars, pc, res, committed, iter, cancelled, ran, due>>

Rollback(t) ==
    /\ InTransaction(t)
    /\ SqlRollback(t, "user")
    /\ UNCHANGED <<callVars, pc, res, committed, iter, cancelled, ran, due>>

-----------------------------------------------------------------------------
\* DB.InTransactionContext after BeginTx

ReturnWith(t, r) ==
    /\ res' = [res EXCEPT ![t] = r]
    /\ pc'  = [pc EXCEPT ![t] = "unwind"]

FReturnsNil(t) ==
    /\ pc[t] = "f"
    /\ pc'  = [pc EXCEPT ![t] = "commit"]
    /\ due' = [q \in Querier |-> IF tied[q] = t THEN added[q] ELSE due[q]]
    /\ UNCHANGED <<callVars, res, committed, iter, endedBy, server, cancelled, ran>>

\* Mutant: the deferred function is not reached when f panics.
FFailsUnguarded(t) ==
    /\ pc[t] = "f"
    /\ \/ ReturnWith(t, "fErr")
       \/ pc' = [pc EXCEPT ![t] = "returned"] /\ res' = [res EXCEPT ![t] = "fPanic"]
    /\ UNCHANGED <<callVars, committed, iter, endedBy, server, cancelled, ran, due>>

FFails(t) ==
    /\ pc[t] = "f"
    /\ \E r \in {"fErr", "fPanic"} : ReturnWith(t, r)
    /\ UNCHANGED <<callVars, committed, iter, endedBy, server, cancelled, ran, due>>

CommitSucceeds(t) ==
    /\ pc[t] = "commit"
    /\ SqlCommit(t, "wrapper", "nil")
    /\ committed' = [committed EXCEPT ![t] = TRUE]
    /\ iter' = [iter EXCEPT ![t] = [hdr |-> calls[t], next |-> 1]]
    /\ pc' = [pc EXCEPT ![t] = "calls"]
    /\ UNCHANGED <<callVars, res, cancelled, ran, due>>

\* Mutant: the error of Commit is shadowed, and nil is returned.
CommitFailsShadowed(t) ==
    /\ pc[t] = "commit"
    /\ \E err \in Results \ {"nil"} :
          SqlCommit(t, "wrapper", err) /\ ReturnWith(t, "nil")
    /\ UNCHANGED <<callVars, committed, iter, cancelled, ran, due>>

\* Mutant: the callbacks run although Commit failed.
CommitFailsRunsCalls(t) ==
    /\ pc[t] = "commit"
    /\ \E err \in Results \ {"nil"} : SqlCommit(t, "wrapper", err)
    /\ iter' = [iter EXCEPT ![t] = [hdr |-> calls[t], next |-> 1]]
    /\ pc' = [pc EXCEPT ![t] = "calls"]
    /\ UNCHANGED <<callVars, res, committed, cancelled, ran, due>>

CommitFails(t) ==
    /\ pc[t] = "commit"
    /\ \E err \in Results \ {"nil"} :
          SqlCommit(t, "wrapper", err) /\ ReturnWith(t, err)
    /\ UNCHANGED <<callVars, committed, iter, cancelled, ran, due>>

\* Mutant: the loop goes on after a callback has failed.
RunCallOnAndOn(t) ==
    /\ pc[t] = "calls" /\ iter[t].next <= iter[t].hdr.len
    /\ ran' = [ran EXCEPT ![t] = Append(@, Slot(iter[t].hdr, iter[t].next))]
    /\ iter' = [iter EXCEPT ![t] = [hdr |-> @.hdr, next |-> @.next + 1]]
    /\ \E r \in {"none", "callErr"} : res' = [res EXCEPT ![t] = r]
    /\ UNCHANGED <<callVars, pc, committed, endedBy, server, cancelled, due>>

\* Mutant: a callback that fails is retried.
RunCallRetrying(t) ==
    /\ pc[t] = "calls" /\ iter[t].next <= iter[t].hdr.len
    /\ ran' = [ran EXCEPT ![t] = Append(@, Slot(iter[t].hdr, iter[t].next))]
    /\ iter' = iter \/ iter' = [iter EXCEPT ![t] = [hdr |-> @.hdr, next |-> @.next + 1]]
    /\ UNCHANGED <<callVars, pc, res, committed, endedBy, server, cancelled, due>>

\* One iteration of the loop over the callbacks.  The header was read when
\* the loop began, the element is read now.
RunCall(t) ==
    /\ pc[t] = "calls" /\ iter[t].next <= iter[t].hdr.len
    /\ ran' = [ran EXCEPT ![t] = Append(@, Slot(iter[t].hdr, iter[t].next))]
    /\ \/ iter' = [iter EXCEPT ![t] = [hdr |-> @.hdr, next |-> @.next + 1]] /\ UNCHANGED <<pc, res>>
       \/ \E r \in {"callErr", "callPanic"} : ReturnWith(t, r) /\ UNCHANGED iter
    /\ UNCHANGED <<callVars, committed, endedBy, server, cancelled, due>>

CallsDone(t) ==
    /\ pc[t] = "calls" /\ iter[t].next > iter[t].hdr.len
    /\ ReturnWith(t, "nil")
    /\ UNCHANGED <<callVars, committed, iter, endedBy, server, cancelled, ran, due>>

\* Mutant: Commit is trusted to have ended the sql.Tx whatever it returned.
UnwindAfterFOnly(t) ==
    /\ pc[t] = "unwind"
    /\ pc' = [pc EXCEPT ![t] = "returned"]
    /\ IF res[t] \in {"fErr", "fPanic"} THEN SqlRollback(t, "wrapper")
                                        ELSE UNCHANGED <<endedBy, server>>
    /\ UNCHANGED <<callVars, res, committed, iter, cancelled, ran, due>>

\* Mutant: the rollback is a plain statement after f, which a panic skips.
UnwindUnlessPanic(t) ==
    /\ pc[t] = "unwind"
    /\ pc' = [pc EXCEPT ![t] = "returned"]
    /\ IF committed[t] \/ res[t] = "fPanic" THEN UNCHANGED <<endedBy, server>>
                                            ELSE SqlRollback(t, "wrapper")
    /\ UNCHANGED <<callVars, res, committed, iter, cancelled, ran, due>>

\* The deferred function, on every way out.
Unwind(t) ==
    /\ pc[t] = "unwind"
    /\ pc' = [pc EXCEPT ![t] = "returned"]
    /\ IF committed[t] THEN UNCHANGED <<endedBy, server>>
                       ELSE SqlRollback(t, "wrapper")
    /\ UNCHANGED <<callVars, res, committed, iter, cancelled, ran, due>>

\* What InTransactionContext does by itself once f has returned.
Finish(t) == CommitSucceeds(t) \/ CommitFails(t) \/ RunCall(t) \/ CallsDone(t) \/ Unwind(t)

-----------------------------------------------------------------------------

TxNext(t) ==
    \/ ContextEnds(t) \/ AwaitDone(t)
    \/ BeginTx(t, "f") \/ BeginTx(t, "manual") \/ BeginFails(t)
    \/ Commit(t) \/ Rollback(t)
    \/ FReturnsNil(t) \/ FFails(t)
    \/ Finish(t)

Next ==
    \/ \E t \in Tx : TxNext(t)
    \/ CallsNext /\ UNCHANGED txVars

Spec == Init /\ [][Next]_vars

\* InTransactionContext goes on once f has returned: it is never blocked, and
\* callbacks are assumed to return or panic.  Nothing is assumed of the caller
\* (f need not return) nor of the goroutine that watches the context.
Fairness == \A t \in Tx : WF_vars(Finish(t))

FairSpec == Spec /\ Fairness
=============================================================================
