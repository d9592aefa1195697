---------------------------- MODULE CommitCalls ----------------------------
(***************************************************************************)
(* The lists of on-commit callbacks that Queriers carry (querier.go).      *)
(*                                                                         *)
(* A Querier holds its callbacks in the Go slice onCommitCalls.  WithTag   *)
(* and WithContext clone a Querier with its slice HEADER, so a clone and   *)
(* its origin share the backing array, while each of them appends to its   *)
(* own header.  AddOnCommitCall is an append: it writes the next slot of   *)
(* the shared array when the capacity allows it, and moves the list to a   *)
(* new array of twice the capacity otherwise.                              *)
(*                                                                         *)
(* A callback is named by the Querier it was registered through and by its *)
(* number among the registrations of that Querier.  A TX embeds one        *)
(* Querier; it is named by the transaction itself, all others are copies.  *)
(***************************************************************************)
EXTENDS Naturals, Sequences

CONSTANTS
    Tx,        \* transactions, each standing for the Querier its TX embeds
    Copy,      \* the Queriers WithTag and WithContext may return
    NoTx,      \* the transaction of a Querier that does not exist yet
    MaxCalls   \* bound: how many callbacks one Querier registers

ASSUME NamesAssumption == Tx \cap Copy = {} /\ NoTx \notin Tx \cup Copy
ASSUME MaxCallsAssumption == MaxCalls \in Nat

VARIABLES
    tied,      \* the transaction a Querier belongs to, NoTx before it exists
    added,     \* how many callbacks were registered through a Querier
    calls,     \* Querier.onCommitCalls: the slice header [arr, len]
    heap       \* the backing arrays allocated so far; a header's arr is an index

callVars == <<tied, added, calls, heap>>

Querier == Tx \cup Copy
Call    == Querier \X (1 .. MaxCalls)
NoCall  == <<NoTx, 0>>                 \* a slot of an array not written yet
Header  == [arr : Nat \ {0}, len : Nat]
Nil     == [arr |-> 1, len |-> 0]      \* the nil slice: the empty array

Cap(h)     == Len(heap[h.arr])
Slot(h, i) == heap[h.arr][i]
InTransaction(q) == tied[q] # NoTx

-----------------------------------------------------------------------------

CallsInit ==
    /\ tied  = [q \in Querier |-> NoTx]
    /\ added = [q \in Querier |-> 0]
    /\ calls = [q \in Querier |-> Nil]
    /\ heap  = << << >> >>

\* newTX: the Querier of a new TX has no callbacks.  The [:0] with which
\* InTransactionContext resets the list leaves the nil slice as it is.
NewTX(t) ==
    /\ tied[t] = NoTx
    /\ tied'  = [tied EXCEPT ![t] = t]
    /\ calls' = [calls EXCEPT ![t] = Nil]
    /\ UNCHANGED <<added, heap>>

\* WithTag and WithContext: the copy takes the header, the array is shared.
WithTag(q, c) ==
    /\ InTransaction(q) /\ tied[c] = NoTx
    /\ tied'  = [tied EXCEPT ![c] = tied[q]]
    /\ calls' = [calls EXCEPT ![c] = calls[q]]
    /\ UNCHANGED <<added, heap>>

\* append grows the array to its next capacity: 0, 1, 2, 4, 8...
NewCap(c) == IF c = 0 THEN 1 ELSE 2 * c

Grown(h, call) ==
    [i \in 1 .. NewCap(Cap(h)) |->
        IF i <= h.len THEN Slot(h, i) ELSE IF i = h.len + 1 THEN call ELSE NoCall]

AppendInPlace(q, call) ==
    LET h == calls[q] IN
    /\ h.len < Cap(h)
    /\ heap'  = [heap EXCEPT ![h.arr] = [@ EXCEPT ![h.len + 1] = call]]
    /\ calls' = [calls EXCEPT ![q] = [arr |-> h.arr, len |-> h.len + 1]]

\* Mutant: growing reuses the newest array in place of allocating one.
AppendGrowReusing(q, call) ==
    LET h == calls[q] IN
    /\ h.len = Cap(h)
    /\ heap'  = [heap EXCEPT ![Len(heap)] = Grown(h, call)]
    /\ calls' = [calls EXCEPT ![q] = [arr |-> Len(heap), len |-> h.len + 1]]

AppendGrow(q, call) ==
    LET h == calls[q] IN
    /\ h.len = Cap(h)
    /\ heap'  = Append(heap, Grown(h, call))
    /\ calls' = [calls EXCEPT ![q] = [arr |-> Len(heap) + 1, len |-> h.len + 1]]

\* Mutant: the callback is put in front of the list.
AddOnCommitCallFirst(q) ==
    /\ InTransaction(q) /\ added[q] < MaxCalls
    /\ added' = [added EXCEPT ![q] = added[q] + 1]
    /\ heap'  = Append(heap, <<<<q, added[q] + 1>>>> \o SubSeq(heap[calls[q].arr], 1, calls[q].len))
    /\ calls' = [calls EXCEPT ![q] = [arr |-> Len(heap) + 1, len |-> calls[q].len + 1]]
    /\ UNCHANGED tied

\* AddOnCommitCall; outside a transaction it panics and changes nothing.
AddOnCommitCall(q) ==
    /\ InTransaction(q) /\ added[q] < MaxCalls
    /\ added' = [added EXCEPT ![q] = added[q] + 1]
    /\ \/ AppendInPlace(q, <<q, added[q] + 1>>)
       \/ AppendGrow(q, <<q, added[q] + 1>>)
    /\ UNCHANGED tied

CallsNext ==
    \/ \E q \in Querier : AddOnCommitCall(q)
    \/ \E q \in Querier, c \in Copy : WithTag(q, c)
=============================================================================
