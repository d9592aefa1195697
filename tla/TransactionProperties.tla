------------------------ MODULE TransactionProperties ------------------------
(***************************************************************************)
(* What must hold of Transaction, and of the callback lists it uses.       *)
(***************************************************************************)
EXTENDS Transaction

Returned(t) == pc[t] = "returned"
RanSet(t)   == {ran[t][i] : i \in DOMAIN ran[t]}

CallsTypeOK ==
    /\ tied  \in [Querier -> Tx \cup {NoTx}]
    /\ added \in [Querier -> 0 .. MaxCalls]
    /\ calls \in [Querier -> Header]
    /\ heap  \in Seq(Seq(Call \cup {NoCall}))

TxTypeOK ==
    /\ pc        \in [Tx -> PCs]
    /\ res       \in [Tx -> Results]
    /\ committed \in [Tx -> BOOLEAN]
    /\ iter      \in [Tx -> [hdr : Header, next : Nat \ {0}]]
    /\ endedBy   \in [Tx -> Enders]
    /\ server    \in [Tx -> Servers]
    /\ cancelled \in [Tx -> BOOLEAN]
    /\ ran       \in [Tx -> Seq(Call \cup {NoCall})]
    /\ due       \in [Querier -> Nat]

\* Every variable of the callback lists and of the transactions has its type.
TypeOK == CallsTypeOK /\ TxTypeOK

\* InTransaction never returns, or panics, leaving its sql.Tx open: the
\* connection goes back to the pool on every path, Commit under an ended
\* context (which does not end the sql.Tx) and a panic of f included.
NoLeak == \A t \in Tx : Returned(t) /\ InTransaction(t) => Done(t)

\* "rolling back it in case of error or panic, committing otherwise"
\* (db.go:84-85): nil is returned only for a committed transaction.  An error
\* or a panic means that nothing was committed, with three exceptions: a
\* callback failed, the driver failed in Commit, or the caller itself ended
\* the TX.
OutcomeMatchesResult ==
    \A t \in Tx : Returned(t) =>
        /\ res[t] = "nil" => server[t] = "committed"
        /\ server[t] = "committed" /\ res[t] # "nil" =>
              endedBy[t] = "user" \/ res[t] \in {"driverErr", "callErr", "callPanic"}

\* On-commit callbacks run only after the server has acknowledged the commit
\* that InTransaction itself made: never after a rollback, an ambiguous
\* Commit error or a Commit of the caller.
CallbacksOnlyAfterCommit ==
    \A t \in Tx : ran[t] # << >> => server[t] = "committed" /\ endedBy[t] = "wrapper"

\* A transaction runs only callbacks that were registered through a Querier
\* of its own, whatever arrays the Queriers share, and never an unwritten
\* slot (a nil function).
CallbacksOfOwnTx ==
    \A t \in Tx : \A c \in RanSet(t) : c \in Call /\ tied[c[1]] = t

\* No callback runs twice: not in one transaction, though slots of a shared
\* array are overwritten and lists are moved to larger arrays while the loop
\* reads them, and not in two.
AtMostOnce ==
    /\ \A t \in Tx : \A i, j \in DOMAIN ran[t] : ran[t][i] = ran[t][j] => i = j
    /\ \A t, u \in Tx : t # u => RanSet(t) \cap RanSet(u) = {}

\* The callbacks registered through the TX itself run in the order in which
\* they were registered, the i-th in the i-th place, unless a copy has
\* overwritten its slot with a callback of its own; and when nil is returned,
\* every place that was filled before f returned has been visited.
OwnCallbacksRunInOrder ==
    \A t \in Tx :
        /\ \A i \in DOMAIN ran[t] : ran[t][i] = <<t, i>> \/ ran[t][i][1] \in Copy
        /\ Returned(t) /\ res[t] = "nil" => Len(ran[t]) >= due[t]

StaysDecided(t) ==
    /\ server[t] \in {"committed", "rolledback"} => server'[t] = server[t]
    /\ res[t] # "none" => res'[t] = res[t] /\ ran'[t] = ran[t]

\* Nothing is decided twice.  Once the server has committed or rolled back, no
\* late Rollback (of the deferred function, the context or the caller) and no
\* second Commit changes it.  Once there is something to return, the first
\* failure stands and no further callback runs.
DecisionIsFinal == [][\A t \in Tx : StaysDecided(t)]_vars

\* InTransaction answers once f has returned, whatever the context, the
\* driver, the callbacks and the other goroutines do, and the sql.Tx is closed.
AnswersOnceFReturns ==
    \A t \in Tx : pc[t] \in {"commit", "calls", "unwind"} ~> (Returned(t) /\ Done(t))

\* The detailed specification implements TxContract.
Outcome(t) ==
    CASE server[t] = "committed" -> "committed"
      [] server[t] = "rolledback" \/ (Returned(t) /\ ~InTransaction(t)) -> "aborted"
      [] OTHER -> "open"

Answer(t) ==
    CASE ~Returned(t) -> "none"
      [] Returned(t) /\ res[t] = "nil" -> "nil"
      [] OTHER -> "error"

C == INSTANCE TxContract WITH
        outcome <- [t \in Tx |-> Outcome(t)],
        answer  <- [t \in Tx |-> Answer(t)],
        run     <- [t \in Tx |-> RanSet(t)]

ImplementsContract == C!Contract

-----------------------------------------------------------------------------
\* What the documentation says and the code does not do.

\* "Returned Querier is tied to the same DB or TX" (querier.go:74): a callback
\* registered through a copy before f returned has run when nil is returned.
CopyCallbacksRun ==
    \A t \in Tx, c \in Copy :
        Returned(t) /\ res[t] = "nil" /\ tied[c] = t =>
            \A i \in 1 .. due[c] : <<c, i>> \in RanSet(t)

\* "WithTag returns a copy of Querier" (querier.go:74): what is done with the
\* copy does not touch its origin, so every callback registered through the
\* TX itself before f returned has run when nil is returned.
CopiesDoNotInterfere ==
    \A t \in Tx : Returned(t) /\ res[t] = "nil" =>
        \A i \in 1 .. due[t] : <<t, i>> \in RanSet(t)
=============================================================================
