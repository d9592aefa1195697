----------------------------- MODULE TxContract -----------------------------
(***************************************************************************)
(* What InTransaction promises its caller (db.go:80-85), without how:      *)
(* the transaction is decided once; an answer is given only when it is     *)
(* decided, and nil only when it was committed; callbacks run only after   *)
(* the commit and before the answer, no callback twice, whatever the       *)
(* transaction.                                                            *)
(***************************************************************************)
CONSTANTS Tx, Call

VARIABLES outcome, answer, run

contract == <<outcome, answer, run>>

ContractInit ==
    /\ outcome = [t \in Tx |-> "open"]
    /\ answer  = [t \in Tx |-> "none"]
    /\ run     = [t \in Tx |-> {}]

Decide(t) ==
    /\ outcome[t] = "open" /\ answer[t] = "none"
    /\ \E o \in {"committed", "aborted"} : outcome' = [outcome EXCEPT ![t] = o]
    /\ UNCHANGED <<answer, run>>

RunCallback(t) ==
    /\ outcome[t] = "committed" /\ answer[t] = "none"
    /\ \E c \in Call :
          /\ \A u \in Tx : c \notin run[u]
          /\ run' = [run EXCEPT ![t] = @ \cup {c}]
    /\ UNCHANGED <<outcome, answer>>

AnswerNil(t) ==
    /\ outcome[t] = "committed" /\ answer[t] = "none"
    /\ answer' = [answer EXCEPT ![t] = "nil"]
    /\ UNCHANGED <<outcome, run>>

\* An error does not say that nothing was committed (a callback may have
\* failed), but whatever is still open is aborted with it.
AnswerError(t) ==
    /\ answer[t] = "none"
    /\ answer'  = [answer EXCEPT ![t] = "error"]
    /\ outcome' = [outcome EXCEPT ![t] = IF @ = "open" THEN "aborted" ELSE @]
    /\ UNCHANGED run

ContractNext ==
    \E t \in Tx : Decide(t) \/ RunCallback(t) \/ AnswerNil(t) \/ AnswerError(t)

Contract == ContractInit /\ [][ContractNext]_contract
=============================================================================
