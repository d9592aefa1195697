--------------------------- MODULE TransactionInv ---------------------------
(***************************************************************************)
(* The inductive invariant behind the theorems about Transaction.          *)
(***************************************************************************)
EXTENDS TransactionProperties

Slots == Call \cup {NoCall}

Written(c) == c # NoCall

\* A slice header lies within its array; only the nil slice has no callback.
HeaderOK(h) ==
    /\ h.arr <= Len(heap) /\ h.len <= Len(heap[h.arr])
    /\ h.arr # 1 => h.len >= 1

HeadersOK ==
    /\ \A q \in Querier : HeaderOK(calls[q])
    /\ \A t \in Tx : HeaderOK(iter[t].hdr)
    /\ heap # << >> /\ heap[1] = << >>

TypeInv == TypeOK /\ HeadersOK

\* Where the goroutine is, what the sql.Tx and the server know, and what is
\* returned go together.
ControlOK(t) ==
    /\ tied[t] \in {NoTx, t}
    /\ tied[t] = NoTx => pc[t] \in {"idle", "returned"} /\ server[t] = "none"
    /\ pc[t] = "idle" => tied[t] = NoTx
    /\ Done(t) <=> server[t] \in {"committed", "rolledback"}
    /\ res[t] = "none" <=> pc[t] \notin {"unwind", "returned"}
    /\ committed[t] => /\ server[t] = "committed" /\ endedBy[t] = "wrapper"
                       /\ pc[t] \in {"calls", "unwind", "returned"}
                       /\ res[t] \in {"none", "nil", "callErr", "callPanic"}
    /\ pc[t] = "calls" \/ ran[t] # << >> \/ res[t] = "nil" => committed[t]
    /\ server[t] = "committed" =>
          endedBy[t] = "user" \/ committed[t] \/ res[t] = "driverErr"
    /\ pc[t] = "returned" /\ tied[t] = t => Done(t)

ControlInv == \A t \in Tx : ControlOK(t)

\* A written slot holds a callback registered already; the TX's own Querier
\* puts its i-th callback into slot i.
SlotOK(c, i) ==
    Written(c) => /\ c[2] <= added[c[1]] /\ tied[c[1]] # NoTx
                  /\ c[1] \in Tx => c[2] = i

\* Below its length a header sees only written slots, and whatever is written
\* in its array belongs to transaction t.
HeldBy(h, t) ==
    /\ \A i \in 1 .. h.len : Written(heap[h.arr][i])
    /\ \A i \in 1 .. Len(heap[h.arr]) :
          Written(heap[h.arr][i]) => tied[heap[h.arr][i][1]] = t

ListInv ==
    /\ \A q \in Querier : tied[q] = NoTx => calls[q] = Nil /\ added[q] = 0
    /\ \A t \in Tx : calls[t].len = added[t]
    /\ \A a \in 1 .. Len(heap) : \A i \in 1 .. Len(heap[a]) : SlotOK(heap[a][i], i)
    /\ \A a \in 1 .. Len(heap) : \A i, j \in 1 .. Len(heap[a]) :
          Written(heap[a][i]) /\ heap[a][i] = heap[a][j] => i = j
    /\ \A q \in Querier : HeldBy(calls[q], tied[q])
    /\ \A t \in Tx : HeldBy(iter[t].hdr, t)

\* The callbacks run so far are the transaction's, each in its place, and
\* none of them is to be found in another slot of the array the loop reads.
RanOK(t) ==
    /\ pc[t] = "calls" => Len(ran[t]) + 1 = iter[t].next
    /\ \A i \in 1 .. Len(ran[t]) :
          /\ ran[t][i] \in Call /\ tied[ran[t][i][1]] = t
          /\ ran[t][i][2] <= added[ran[t][i][1]]
          /\ ran[t][i] = <<t, i>> \/ ran[t][i][1] \in Copy
    /\ \A i, j \in 1 .. Len(ran[t]) : ran[t][i] = ran[t][j] => i = j
    /\ \A i \in 1 .. Len(ran[t]) : \A j \in 1 .. Len(heap[iter[t].hdr.arr]) :
          heap[iter[t].hdr.arr][j] = ran[t][i] => j = i
    /\ due[t] <= added[t]
    /\ pc[t] = "calls" => due[t] <= iter[t].hdr.len
    /\ res[t] = "nil" => due[t] <= Len(ran[t])

RanInv == \A t \in Tx : RanOK(t)

\* The inductive invariant: types, and how the goroutines, the lists and the
\* callbacks already run depend on each other.  It is what makes the others
\* provable: that a callback is fresh when it is written (SlotOK) is why none
\* runs twice, that arrays are never shared by two transactions (HeldBy) is
\* why each runs its own.
IInv == TypeInv /\ ControlInv /\ ListInv /\ RanInv
=============================================================================
