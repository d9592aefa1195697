-------------------------- MODULE TransactionProofs --------------------------
(***************************************************************************)
(* Proofs about Transaction for any sets of transactions and copies and    *)
(* any number of callbacks.                                                *)
(***************************************************************************)
EXTENDS TransactionInv, SequenceTheorems, TLAPS

\* What the two cases of append do to the heap: the arrays stay, and but for
\* one slot keep their elements; the new header lies within its array.
AppendedInPlace(q, call) ==
    LET h == calls[q] IN
    /\ calls'[q] = [arr |-> h.arr, len |-> h.len + 1]
    /\ h.arr # 1 /\ h.len + 1 <= Len(heap[h.arr])
    /\ Len(heap') = Len(heap)
    /\ \A a \in 1 .. Len(heap) : Len(heap'[a]) = Len(heap[a])
    /\ \A a \in 1 .. Len(heap) : \A i \in 1 .. Len(heap[a]) :
          heap'[a][i] = IF a = h.arr /\ i = h.len + 1 THEN call ELSE heap[a][i]

AppendedGrown(q, call) ==
    LET h == calls[q] IN
    LET n == Len(heap) + 1 IN
    /\ calls'[q] = [arr |-> n, len |-> h.len + 1]
    /\ Len(heap') = n
    /\ \A a \in 1 .. Len(heap) : heap'[a] = heap[a]
    /\ Len(heap'[n]) \in Nat /\ h.len + 1 <= Len(heap'[n])
    /\ \A i \in 1 .. Len(heap'[n]) :
          heap'[n][i] = IF i <= h.len THEN heap[h.arr][i]
                        ELSE IF i = h.len + 1 THEN call ELSE NoCall

Appended(q, call) ==
    /\ call \in Call
    /\ heap' \in Seq(Seq(Slots))
    /\ calls' = [calls EXCEPT ![q] = calls'[q]]
    /\ calls'[q] \in Header
    /\ AppendedInPlace(q, call) \/ AppendedGrown(q, call)

LEMMA GrownType ==
    ASSUME TypeInv, NEW q \in Querier, NEW call \in Call, calls[q].len = Cap(calls[q])
    PROVE  /\ Grown(calls[q], call) \in Seq(Slots)
           /\ Len(Grown(calls[q], call)) = NewCap(Cap(calls[q]))
           /\ calls[q].len + 1 <= NewCap(Cap(calls[q]))
           /\ \A i \in 1 .. NewCap(Cap(calls[q])) :
                 Grown(calls[q], call)[i] =
                    IF i <= calls[q].len THEN heap[calls[q].arr][i]
                    ELSE IF i = calls[q].len + 1 THEN call ELSE NoCall
<1> DEFINE h == calls[q]
           n == NewCap(Cap(h))
<1>1. h \in Header /\ heap \in Seq(Seq(Slots)) /\ HeaderOK(h)
  BY DEF TypeInv, TypeOK, CallsTypeOK, HeadersOK, Slots
<1>2. h.arr \in 1 .. Len(heap) /\ h.len \in Nat
  BY <1>1 DEF Header, HeaderOK
<1>3. heap[h.arr] \in Seq(Slots)
  BY <1>1, <1>2, ElementOfSeq
<1>4. Cap(h) \in Nat /\ \A i \in 1 .. Cap(h) : Slot(h, i) \in Slots
  BY <1>3, LenProperties, ElementOfSeq DEF Cap, Slot
<1>5. n \in Nat /\ h.len + 1 <= n
  BY <1>2, <1>4 DEF NewCap
<1>6. \A i \in 1 .. n : (IF i <= h.len THEN Slot(h, i)
                         ELSE IF i = h.len + 1 THEN call ELSE NoCall) \in Slots
  BY <1>2, <1>4, <1>5 DEF Slots
<1>7. Grown(h, call) \in [1 .. n -> Slots]
  BY <1>6 DEF Grown
<1>8. Grown(h, call) \in Seq(Slots) /\ Len(Grown(h, call)) = n
  BY <1>5, <1>7
<1> QED
  BY <1>5, <1>8 DEF Grown, Slot

\* AddOnCommitCall appends one callback, fresh for its Querier.
LEMMA AppendFacts ==
    ASSUME TypeInv, NEW q \in Querier, AddOnCommitCall(q)
    PROVE  Appended(q, <<q, added[q] + 1>>)
<1> DEFINE call == <<q, added[q] + 1>>
           h == calls[q]
<1>1. /\ h \in Header /\ heap \in Seq(Seq(Slots)) /\ HeaderOK(h)
      /\ heap # << >> /\ heap[1] = << >> /\ calls \in [Querier -> Header]
  BY DEF TypeInv, TypeOK, CallsTypeOK, HeadersOK, Slots
<1>2. h.arr \in 1 .. Len(heap) /\ h.len \in Nat /\ Len(heap) \in Nat
  BY <1>1, LenProperties DEF Header, HeaderOK
<1>3. heap[h.arr] \in Seq(Slots)
  BY <1>1, <1>2, ElementOfSeq
<1>4. call \in Call /\ call \in Slots
  BY MaxCallsAssumption DEF AddOnCommitCall, TypeInv, TypeOK, CallsTypeOK, Call, Slots
<1>5. CASE AppendInPlace(q, call)
  <2> DEFINE k == h.len + 1
             new == [heap[h.arr] EXCEPT ![k] = call]
  <2>1. k \in 1 .. Len(heap[h.arr])
    BY <1>2, <1>3, <1>5, LenProperties DEF AppendInPlace, Cap
  <2>2. /\ new \in Seq(Slots) /\ Len(new) = Len(heap[h.arr])
        /\ \A i \in 1 .. Len(heap[h.arr]) : new[i] = IF i = k THEN call ELSE heap[h.arr][i]
    BY <1>3, <1>4, <2>1, ExceptSeq
  <2>3. heap' = [heap EXCEPT ![h.arr] = new]
    BY <1>5 DEF AppendInPlace
  <2>4. /\ heap' \in Seq(Seq(Slots)) /\ Len(heap') = Len(heap)
        /\ \A a \in 1 .. Len(heap) : heap'[a] = IF a = h.arr THEN new ELSE heap[a]
    <3> HIDE DEF new
    <3> QED  BY <1>1, <1>2, <2>2, <2>3, ExceptSeq
  <2>5. h.arr # 1
    BY <1>1, <2>1, EmptySeq
  <2>6. /\ calls' = [calls EXCEPT ![q] = [arr |-> h.arr, len |-> k]]
        /\ [arr |-> h.arr, len |-> k] \in Header
    BY <1>1, <1>2, <1>5 DEF AppendInPlace, Header
  <2>7. calls'[q] = [arr |-> h.arr, len |-> k]
    BY <1>1, <2>6
  <2>8. AppendedInPlace(q, call)
    <3> HIDE DEF new
    <3>1. \A a \in 1 .. Len(heap) : Len(heap'[a]) = Len(heap[a])
      BY <2>2, <2>4
    <3>2. \A a \in 1 .. Len(heap) : \A i \in 1 .. Len(heap[a]) :
             heap'[a][i] = IF a = h.arr /\ i = k THEN call ELSE heap[a][i]
      BY <2>2, <2>4
    <3>3. k <= Len(heap[h.arr])
      BY <1>2, <2>1
    <3> QED  BY <2>4, <2>5, <2>7, <3>1, <3>2, <3>3 DEF AppendedInPlace
  <2> QED  BY <1>4, <2>4, <2>6, <2>7, <2>8 DEF Appended
<1>6. CASE AppendGrow(q, call)
  <2> DEFINE n == Len(heap) + 1
             new == Grown(h, call)
  <2>1. h.len = Cap(h)
    BY <1>6 DEF AppendGrow
  <2>2. /\ new \in Seq(Slots) /\ Len(new) \in Nat /\ h.len + 1 <= Len(new)
        /\ \A i \in 1 .. Len(new) :
              new[i] = IF i <= h.len THEN heap[h.arr][i]
                       ELSE IF i = h.len + 1 THEN call ELSE NoCall
    BY <1>4, <2>1, GrownType, LenProperties, ZenonT(40)
  <2>3. heap' = Append(heap, new)
    BY <1>6 DEF AppendGrow
  <2>4. /\ heap' \in Seq(Seq(Slots)) /\ Len(heap') = n /\ heap'[n] = new
        /\ \A a \in 1 .. Len(heap) : heap'[a] = heap[a]
    <3> HIDE DEF new
    <3> QED  BY <1>1, <2>2, <2>3, AppendProperties
  <2>5. /\ calls' = [calls EXCEPT ![q] = [arr |-> n, len |-> h.len + 1]]
        /\ [arr |-> n, len |-> h.len + 1] \in Header
    BY <1>2, <1>6 DEF AppendGrow, Header
  <2>6. calls'[q] = [arr |-> n, len |-> h.len + 1]
    BY <1>1, <2>5
  <2>7. AppendedGrown(q, call)
    <3> HIDE DEF new
    <3> QED  BY <2>2, <2>4, <2>6 DEF AppendedGrown
  <2> QED  BY <1>4, <2>4, <2>5, <2>6, <2>7 DEF Appended
<1> QED
  BY <1>5, <1>6 DEF AddOnCommitCall

-----------------------------------------------------------------------------
\* Types and headers.

LEMMA TypeInit == Init => TypeInv
<1> SUFFICES ASSUME Init PROVE TypeInv
  OBVIOUS
<1>1. Nil \in Header
  BY DEF Nil, Header
<1>2. << >> \in Seq(Slots) /\ << << >> >> \in Seq(Seq(Slots)) /\ Len(<< << >> >>) = 1
  OBVIOUS
<1>3. TypeOK
  BY <1>1, <1>2, MaxCallsAssumption
  DEF Init, CallsInit, TypeOK, CallsTypeOK, TxTypeOK, Slots, Results, PCs, Enders, Servers
<1>4. HeadersOK
  BY <1>2 DEF Init, CallsInit, HeadersOK, HeaderOK, Nil
<1> QED
  BY <1>3, <1>4 DEF TypeInv

\* The steps that leave the callback lists and the loops alone.
LEMMA TypeKept ==
    ASSUME TypeInv, UNCHANGED <<calls, heap, iter>>, TypeOK'
    PROVE  TypeInv'
BY DEF TypeInv, HeadersOK, HeaderOK

LEMMA TypeAppend ==
    ASSUME TypeInv, NEW q \in Querier, AddOnCommitCall(q), UNCHANGED txVars
    PROVE  TypeInv'
<1> DEFINE call == <<q, added[q] + 1>>
<1>1. Appended(q, call)
  BY AppendFacts
<1>2. CallsTypeOK'
  <2>1. added' \in [Querier -> 0 .. MaxCalls]
    BY MaxCallsAssumption DEF TypeInv, TypeOK, CallsTypeOK, AddOnCommitCall
  <2>2. tied' \in [Querier -> Tx \cup {NoTx}]
    BY DEF TypeInv, TypeOK, CallsTypeOK, AddOnCommitCall
  <2>3. heap' \in Seq(Seq(Call \cup {NoCall})) /\ calls' \in [Querier -> Header]
    BY <1>1 DEF TypeInv, TypeOK, CallsTypeOK, Appended, Slots
  <2> QED  BY <2>1, <2>2, <2>3 DEF CallsTypeOK
<1>3. /\ heap \in Seq(Seq(Slots)) /\ heap' \in Seq(Seq(Slots))
      /\ calls \in [Querier -> Header] /\ iter \in [Tx -> [hdr : Header, next : Nat \ {0}]]
  BY <1>1 DEF TypeInv, TypeOK, CallsTypeOK, TxTypeOK, Slots, Appended
<1>4. Len(heap) \in Nat /\ Len(heap) >= 1 /\ Len(heap') \in Nat
  BY <1>3, EmptySeq, LenProperties DEF TypeInv, HeadersOK
<1>5. AppendedInPlace(q, call) \/ AppendedGrown(q, call)
  BY <1>1 DEF Appended
<1>6. /\ Len(heap') >= Len(heap)
      /\ \A a \in 1 .. Len(heap) : Len(heap'[a]) = Len(heap[a])
  <2>1. CASE AppendedInPlace(q, call)
    BY <1>4, <2>1 DEF AppendedInPlace
  <2>2. CASE AppendedGrown(q, call)
    BY <1>4, <2>2 DEF AppendedGrown
  <2> QED  BY <1>5, <2>1, <2>2
<1>7. \A h \in Header : HeaderOK(h) => h.arr <= Len(heap') /\ h.len <= Len(heap'[h.arr])
  BY <1>4, <1>6 DEF HeaderOK, Header
<1>8. /\ calls'[q].arr <= Len(heap') /\ calls'[q].len <= Len(heap'[calls'[q].arr])
      /\ calls'[q].len >= 1
  <2>1. HeaderOK(calls[q]) /\ calls[q] \in Header
    BY <1>3 DEF TypeInv, HeadersOK
  <2>2. CASE AppendedInPlace(q, call)
    BY <1>4, <1>6, <2>1, <2>2 DEF AppendedInPlace, HeaderOK, Header
  <2>3. CASE AppendedGrown(q, call)
    BY <1>4, <2>1, <2>3 DEF AppendedGrown, HeaderOK, Header
  <2> QED  BY <1>5, <2>2, <2>3
<1>9. heap' # << >> /\ heap'[1] = << >>
  <2>1. heap'[1] \in Seq(Slots) /\ heap[1] = << >> /\ Len(heap'[1]) = 0
    BY <1>3, <1>4, <1>6, ElementOfSeq, EmptySeq DEF TypeInv, HeadersOK
  <2> QED  BY <1>3, <1>4, <1>6, <2>1, EmptySeq
<1>10. HeadersOK'
  <2>1. \A p \in Querier : HeaderOK(calls[p])'
    <3>1. \A p \in Querier : p # q => calls'[p] = calls[p]
      BY <1>1, <1>3 DEF Appended
    <3> QED  BY <1>3, <1>7, <1>8, <3>1 DEF HeaderOK, TypeInv, HeadersOK
  <2>2. \A t \in Tx : HeaderOK(iter[t].hdr)'
    BY <1>3, <1>7 DEF HeaderOK, TypeInv, HeadersOK, txVars
  <2> QED  BY <1>9, <2>1, <2>2 DEF HeadersOK
<1>11. TxTypeOK'
  BY DEF TypeInv, TypeOK, TxTypeOK, txVars
<1> QED
  BY <1>2, <1>10, <1>11 DEF TypeInv, TypeOK

LEMMA ReturnType ==
    ASSUME TypeOK, NEW t \in Tx, NEW r \in Results, ReturnWith(t, r)
    PROVE  pc' \in [Tx -> PCs] /\ res' \in [Tx -> Results]
BY DEF TypeOK, TxTypeOK, ReturnWith, PCs

LEMMA SqlType ==
    ASSUME TypeOK, NEW t \in Tx, NEW who \in Enders, NEW err,
           SqlCommit(t, who, err) \/ SqlRollback(t, who)
    PROVE  endedBy' \in [Tx -> Enders] /\ server' \in [Tx -> Servers]
BY ZenonT(40) DEF TypeOK, TxTypeOK, SqlCommit, SqlRollback, SqlEnd, Servers

LEMMA TypeNext == TypeInv /\ [Next]_vars => TypeInv'
<1> SUFFICES ASSUME TypeInv, [Next]_vars PROVE TypeInv'
  OBVIOUS
<1> USE DEF TypeOK, CallsTypeOK, TxTypeOK, PCs, Results, Enders, Servers
<1>1. TypeOK
  BY DEF TypeInv
<1>a. UNCHANGED callVars => CallsTypeOK'
  BY <1>1 DEF callVars
<1>2. ASSUME NEW t \in Tx, ContextEnds(t) PROVE TypeInv'
  BY <1>1, <1>2, TypeKept DEF ContextEnds, TypeOK, callVars
<1>3. ASSUME NEW t \in Tx, AwaitDone(t) PROVE TypeInv'
  BY <1>1, <1>3, TypeKept DEF AwaitDone, SqlRollback, SqlEnd, TypeOK, callVars
<1>4. ASSUME NEW t \in Tx, NEW next \in {"f", "manual"}, BeginTx(t, next) PROVE TypeInv'
  <2>1. TypeOK'
    <3>1. tied' \in [Querier -> Tx \cup {NoTx}] /\ calls' \in [Querier -> Header]
      BY <1>1, <1>4 DEF BeginTx, NewTX, Nil, Header, Querier
    <3>2. pc' \in [Tx -> PCs] /\ server' \in [Tx -> Servers]
      BY <1>1, <1>4 DEF BeginTx
    <3> HIDE DEF PCs, Results, Enders, Servers
    <3> QED  BY <1>1, <1>4, <3>1, <3>2 DEF BeginTx, NewTX
  <2>2. HeadersOK'
    BY <1>1, <1>4 DEF BeginTx, NewTX, TypeOK, TypeInv, HeadersOK, HeaderOK, Nil
  <2> QED  BY <2>1, <2>2 DEF TypeInv
<1>5. ASSUME NEW t \in Tx, BeginFails(t) PROVE TypeInv'
  BY <1>1, <1>5, TypeKept DEF BeginFails, TypeOK, callVars
<1>6. ASSUME NEW t \in Tx, Commit(t) PROVE TypeInv'
  <2>1. endedBy' \in [Tx -> Enders] /\ server' \in [Tx -> Servers]
    BY <1>1, <1>6, SqlType DEF Commit
  <2>2. TxTypeOK' /\ CallsTypeOK'
    <3> HIDE DEF PCs, Results, Enders, Servers
    <3> QED  BY <1>1, <1>a, <1>6, <2>1 DEF Commit
  <2> QED  BY <1>6, <2>2, TypeKept DEF Commit, callVars
<1>7. ASSUME NEW t \in Tx, Rollback(t) PROVE TypeInv'
  BY <1>1, <1>7, TypeKept DEF Rollback, SqlRollback, SqlEnd, TypeOK, callVars
<1>8. ASSUME NEW t \in Tx, FReturnsNil(t) PROVE TypeInv'
  <2>1. \A q \in Querier : added[q] \in Nat /\ due[q] \in Nat
    BY <1>1, MaxCallsAssumption
  <2>2. due' \in [Querier -> Nat] /\ pc' \in [Tx -> PCs]
    BY <1>1, <1>8, <2>1 DEF FReturnsNil
  <2>3. TxTypeOK' /\ CallsTypeOK'
    <3> HIDE DEF PCs, Results, Enders, Servers
    <3> QED  BY <1>1, <1>8, <2>2 DEF FReturnsNil, callVars
  <2> QED  BY <1>8, <2>3, TypeKept DEF FReturnsNil, callVars
<1>9. ASSUME NEW t \in Tx, FFails(t) PROVE TypeInv'
  BY <1>1, <1>9, TypeKept DEF FFails, ReturnWith, TypeOK, callVars
<1>10. ASSUME NEW t \in Tx, CommitSucceeds(t) PROVE TypeInv'
  <2>1. TypeOK'
    <3>1. iter' \in [Tx -> [hdr : Header, next : Nat \ {0}]]
      BY <1>1, <1>10 DEF CommitSucceeds, Querier
    <3>2. /\ endedBy' \in [Tx -> Enders] /\ server' \in [Tx -> Servers]
          /\ pc' \in [Tx -> PCs] /\ committed' \in [Tx -> BOOLEAN]
      BY <1>1, <1>10 DEF CommitSucceeds, SqlCommit, SqlEnd
    <3> HIDE DEF PCs, Results, Enders, Servers
    <3> QED  BY <1>1, <1>a, <1>10, <3>1, <3>2 DEF CommitSucceeds
  <2>2. HeadersOK'
    BY <1>1, <1>10 DEF CommitSucceeds, TypeOK, TypeInv, HeadersOK, HeaderOK, callVars, Querier
  <2> QED  BY <2>1, <2>2 DEF TypeInv
<1>11. ASSUME NEW t \in Tx, CommitFails(t) PROVE TypeInv'
  <2>1. /\ endedBy' \in [Tx -> Enders] /\ server' \in [Tx -> Servers]
        /\ pc' \in [Tx -> PCs] /\ res' \in [Tx -> Results]
    BY <1>1, <1>11, ReturnType, SqlType DEF CommitFails
  <2>2. TxTypeOK' /\ CallsTypeOK'
    <3> HIDE DEF PCs, Results, Enders, Servers
    <3> QED  BY <1>1, <1>a, <1>11, <2>1 DEF CommitFails
  <2> QED  BY <1>11, <2>2, TypeKept DEF CommitFails, callVars
<1>12. ASSUME NEW t \in Tx, RunCall(t) PROVE TypeInv'
  <2> DEFINE h == iter[t].hdr
  <2>1. h \in Header /\ HeaderOK(h) /\ iter[t].next \in 1 .. h.len /\ heap \in Seq(Seq(Slots))
    BY <1>1, <1>12 DEF RunCall, TypeInv, TypeOK, HeadersOK, Slots, Header
  <2>2. heap[h.arr] \in Seq(Slots) /\ iter[t].next \in 1 .. Len(heap[h.arr])
    <3>1. h.arr \in 1 .. Len(heap)
      BY <2>1, LenProperties DEF HeaderOK, Header
    <3> QED  BY <2>1, <3>1, ElementOfSeq, LenProperties DEF HeaderOK, Header
  <2>3. Slot(h, iter[t].next) \in Slots
    BY <2>2, ElementOfSeq DEF Slot
  <2>4. ran' \in [Tx -> Seq(Slots)]
    BY <1>1, <1>12, <2>3, AppendProperties DEF RunCall, TypeOK, Slots
  <2>5. /\ iter' \in [Tx -> [hdr : Header, next : Nat \ {0}]]
        /\ \A u \in Tx : iter'[u].hdr = iter[u].hdr
    <3>1. [hdr |-> h, next |-> iter[t].next + 1] \in [hdr : Header, next : Nat \ {0}]
      BY <1>1
    <3>2. \/ iter' = iter
          \/ iter' = [iter EXCEPT ![t] = [hdr |-> h, next |-> iter[t].next + 1]]
      BY <1>12 DEF RunCall
    <3>3. iter \in [Tx -> [hdr : Header, next : Nat \ {0}]]
      BY <1>1
    <3> QED  BY <3>1, <3>2, <3>3
  <2>6. TypeOK'
    <3>1. pc' \in [Tx -> PCs] /\ res' \in [Tx -> Results]
      BY <1>1, <1>12, ReturnType DEF RunCall
    <3> HIDE DEF PCs, Results, Enders, Servers
    <3> QED  BY <1>1, <1>a, <1>12, <2>4, <2>5, <3>1 DEF RunCall, Slots
  <2>7. HeadersOK'
    BY <1>12, <2>5 DEF RunCall, TypeInv, HeadersOK, HeaderOK, callVars
  <2> QED  BY <2>6, <2>7 DEF TypeInv
<1>13. ASSUME NEW t \in Tx, CallsDone(t) PROVE TypeInv'
  BY <1>1, <1>13, TypeKept DEF CallsDone, ReturnWith, TypeOK, callVars
<1>14. ASSUME NEW t \in Tx, Unwind(t) PROVE TypeInv'
  BY <1>1, <1>14, TypeKept DEF Unwind, SqlRollback, SqlEnd, TypeOK, callVars
<1>15. ASSUME NEW q \in Querier, NEW c \in Copy, WithTag(q, c), UNCHANGED txVars PROVE TypeInv'
  <2>1. TypeOK'
    BY <1>1, <1>15 DEF WithTag, TypeOK, txVars
  <2>2. HeadersOK'
    BY <1>1, <1>15 DEF WithTag, TypeOK, TypeInv, HeadersOK, HeaderOK, txVars
  <2> QED  BY <2>1, <2>2 DEF TypeInv
<1>16. CASE UNCHANGED vars
  BY <1>1, <1>16, TypeKept DEF vars, callVars, txVars, TypeOK
<1> QED
  BY <1>2, <1>3, <1>4, <1>5, <1>6, <1>7, <1>8, <1>9, <1>10, <1>11, <1>12, <1>13,
     <1>14, <1>15, <1>16, TypeAppend
  DEF Next, TxNext, Finish, CallsNext

\* Types, for every value of the constants.
THEOREM TypeCorrect == Spec => []TypeOK
<1>1. TypeInv => TypeOK
  BY DEF TypeInv
<1> QED
  BY <1>1, TypeInit, TypeNext, PTL DEF Spec

-----------------------------------------------------------------------------
\* Control.

\* A transaction's state changes by its own steps only.
Untouched(u) ==
    /\ tied'[u] = tied[u] /\ pc'[u] = pc[u] /\ res'[u] = res[u]
    /\ committed'[u] = committed[u] /\ endedBy'[u] = endedBy[u]
    /\ server'[u] = server[u] /\ ran'[u] = ran[u] /\ iter'[u] = iter[u]

LEMMA StepsAreLocal ==
    ASSUME TypeOK, NEW t \in Tx, NEW u \in Tx, u # t, TxNext(t)
    PROVE  Untouched(u)
<1> USE DEF TypeOK, CallsTypeOK, TxTypeOK, Untouched
<1>1. CASE ContextEnds(t) \/ AwaitDone(t)
  BY <1>1 DEF ContextEnds, AwaitDone, SqlRollback, SqlEnd, callVars
<1>2. CASE BeginTx(t, "f") \/ BeginTx(t, "manual")
  BY <1>2 DEF BeginTx, NewTX, Querier
<1>3. CASE BeginFails(t) \/ FReturnsNil(t)
  BY <1>3 DEF BeginFails, FReturnsNil, callVars
<1>4. CASE Commit(t) \/ Rollback(t)
  BY <1>4 DEF Commit, Rollback, SqlCommit, SqlRollback, SqlEnd, callVars
<1>5. CASE FFails(t) \/ CallsDone(t)
  BY <1>5 DEF FFails, CallsDone, ReturnWith, callVars
<1>6. CASE CommitSucceeds(t)
  BY <1>6 DEF CommitSucceeds, SqlCommit, SqlEnd, callVars
<1>7. CASE CommitFails(t)
  BY <1>7 DEF CommitFails, SqlCommit, SqlEnd, ReturnWith, callVars
<1>8. CASE RunCall(t)
  BY <1>8 DEF RunCall, ReturnWith, callVars
<1>9. CASE Unwind(t)
  BY <1>9 DEF Unwind, SqlRollback, SqlEnd, callVars
<1> QED
  BY <1>1, <1>2, <1>3, <1>4, <1>5, <1>6, <1>7, <1>8, <1>9 DEF TxNext, Finish

LEMMA CallsNextIsLocal ==
    ASSUME TypeOK, NEW u \in Tx, CallsNext, UNCHANGED txVars
    PROVE  Untouched(u)
BY NamesAssumption
DEF TypeOK, CallsTypeOK, CallsNext, AddOnCommitCall, WithTag, Untouched, txVars, Querier

LEMMA ControlKept ==
    ASSUME NEW u \in Tx, ControlOK(u), Untouched(u)
    PROVE  ControlOK(u)'
BY DEF ControlOK, Untouched, Done

LEMMA ControlInit == Init => ControlInv
<1> SUFFICES ASSUME Init, NEW t \in Tx PROVE ControlOK(t)
  BY DEF ControlInv
<1>1. /\ tied[t] = NoTx /\ pc[t] = "idle" /\ res[t] = "none" /\ committed[t] = FALSE
      /\ endedBy[t] = "nobody" /\ server[t] = "none" /\ ran[t] = << >>
  BY DEF Init, CallsInit, Querier
<1> QED
  BY <1>1 DEF ControlOK, Done

LEMMA ControlStep ==
    ASSUME TypeOK, ControlInv, NEW t \in Tx, TxNext(t)
    PROVE  ControlOK(t)'
<1> USE NamesAssumption DEF TypeOK, CallsTypeOK, TxTypeOK, ControlOK, Done, InTransaction
<1>a. ControlOK(t)
  BY DEF ControlInv
<1>1. CASE ContextEnds(t)
  BY <1>a, <1>1 DEF ContextEnds, callVars
<1>2. CASE AwaitDone(t)
  BY <1>a, <1>2 DEF AwaitDone, SqlRollback, SqlEnd, callVars
<1>3. CASE BeginTx(t, "f") \/ BeginTx(t, "manual")
  BY <1>a, <1>3 DEF BeginTx, NewTX, Querier
<1>4. CASE BeginFails(t)
  BY <1>a, <1>4 DEF BeginFails, callVars
<1>5. CASE Commit(t)
  BY <1>a, <1>5 DEF Commit, SqlCommit, SqlEnd, callVars
<1>6. CASE Rollback(t)
  BY <1>a, <1>6 DEF Rollback, SqlRollback, SqlEnd, callVars
<1>7. CASE FReturnsNil(t)
  BY <1>a, <1>7 DEF FReturnsNil, callVars
<1>8. CASE FFails(t)
  BY <1>a, <1>8 DEF FFails, ReturnWith, callVars
<1>9. CASE CommitSucceeds(t)
  BY <1>a, <1>9 DEF CommitSucceeds, SqlCommit, SqlEnd, callVars
<1>10. CASE CommitFails(t)
  BY <1>a, <1>10 DEF CommitFails, SqlCommit, SqlEnd, ReturnWith, callVars
<1>11. CASE RunCall(t)
  BY <1>a, <1>11 DEF RunCall, ReturnWith, callVars
<1>12. CASE CallsDone(t)
  BY <1>a, <1>12 DEF CallsDone, ReturnWith, callVars
<1>13. CASE Unwind(t)
  BY <1>a, <1>13 DEF Unwind, SqlRollback, SqlEnd, callVars
<1> QED
  BY <1>1, <1>2, <1>3, <1>4, <1>5, <1>6, <1>7, <1>8, <1>9, <1>10, <1>11, <1>12, <1>13
  DEF TxNext, Finish

LEMMA ControlNext == TypeInv /\ ControlInv /\ [Next]_vars => ControlInv'
<1> SUFFICES ASSUME TypeInv, ControlInv, [Next]_vars, NEW u \in Tx PROVE ControlOK(u)'
  BY DEF ControlInv
<1>1. TypeOK /\ ControlOK(u)
  BY DEF TypeInv, ControlInv
<1>2. ASSUME NEW t \in Tx, TxNext(t) PROVE ControlOK(u)'
  <2>1. CASE u = t
    BY <1>1, <1>2, <2>1, ControlStep
  <2>2. CASE u # t
    BY <1>1, <1>2, <2>2, StepsAreLocal, ControlKept
  <2> QED  BY <2>1, <2>2
<1>3. CASE CallsNext /\ UNCHANGED txVars
  BY <1>1, <1>3, CallsNextIsLocal, ControlKept
<1>4. CASE UNCHANGED vars
  BY <1>1, <1>4, ControlKept DEF vars, callVars, txVars, Untouched
<1> QED
  BY <1>2, <1>3, <1>4 DEF Next

LEMMA ControlCorrect == Spec => [](TypeInv /\ ControlInv)
BY TypeInit, TypeNext, ControlInit, ControlNext, PTL DEF Spec

\* The sql.Tx is closed on every path out of InTransaction.
THEOREM NoLeakCorrect == Spec => []NoLeak
<1>1. TypeInv /\ ControlInv => NoLeak
  BY DEF ControlInv, ControlOK, NoLeak, InTransaction, Returned
<1> QED
  BY <1>1, ControlCorrect, PTL

\* nil means committed, and an error or a panic not committed but for the
\* three exceptions.
THEOREM OutcomeCorrect == Spec => []OutcomeMatchesResult
<1>1. TypeInv /\ ControlInv => OutcomeMatchesResult
  BY DEF ControlInv, ControlOK, OutcomeMatchesResult, Returned
<1> QED
  BY <1>1, ControlCorrect, PTL

\* No callback runs before or without the acknowledged commit.
THEOREM CallbacksAfterCommitCorrect == Spec => []CallbacksOnlyAfterCommit
<1>1. TypeInv /\ ControlInv => CallbacksOnlyAfterCommit
  BY DEF ControlInv, ControlOK, CallbacksOnlyAfterCommit
<1> QED
  BY <1>1, ControlCorrect, PTL

\* What is decided stays decided, and the first failure stands.
THEOREM DecisionCorrect == Spec => DecisionIsFinal
<1>1. ASSUME TypeInv, ControlInv, [Next]_vars, NEW u \in Tx PROVE StaysDecided(u)
  <2>1. TypeOK /\ ControlOK(u)
    BY <1>1 DEF TypeInv, ControlInv
  <2>2. ASSUME NEW t \in Tx, TxNext(t), u # t PROVE StaysDecided(u)
    BY <2>1, <2>2, StepsAreLocal DEF Untouched, StaysDecided
  <2>3. ASSUME TxNext(u) PROVE StaysDecided(u)
    <3> USE <2>1 DEF StaysDecided, TypeOK, CallsTypeOK, TxTypeOK, ControlOK, Done
    <3>1. CASE ContextEnds(u) \/ AwaitDone(u) \/ Commit(u) \/ Rollback(u)
      BY <3>1 DEF ContextEnds, AwaitDone, Commit, Rollback, SqlCommit, SqlRollback, SqlEnd
    <3>2. CASE BeginTx(u, "f") \/ BeginTx(u, "manual") \/ BeginFails(u)
      BY <3>2 DEF BeginTx, BeginFails
    <3>3. CASE FReturnsNil(u) \/ FFails(u)
      BY <3>3 DEF FReturnsNil, FFails
    <3>4. CASE CommitSucceeds(u) \/ CommitFails(u)
      BY <3>4 DEF CommitSucceeds, CommitFails, SqlCommit, SqlEnd
    <3>5. CASE RunCall(u) \/ CallsDone(u) \/ Unwind(u)
      BY <3>5 DEF RunCall, CallsDone, Unwind, SqlRollback, SqlEnd
    <3> QED  BY <2>3, <3>1, <3>2, <3>3, <3>4, <3>5 DEF TxNext, Finish
  <2>4. CASE UNCHANGED txVars
    BY <2>4 DEF txVars, StaysDecided
  <2> QED  BY <1>1, <2>2, <2>3, <2>4 DEF Next, vars
<1>2. TypeInv /\ ControlInv /\ [Next]_vars => [\A t \in Tx : StaysDecided(t)]_vars
  BY <1>1
<1> QED
  BY <1>2, ControlCorrect, PTL DEF Spec, DecisionIsFinal

-----------------------------------------------------------------------------
\* The lists.

LEMMA ListInit == Init => ListInv
<1> SUFFICES ASSUME Init PROVE ListInv
  OBVIOUS
<1>1. /\ Len(heap) = 1 /\ heap[1] = << >> /\ Len(heap[1]) = 0
      /\ Nil.arr = 1 /\ Nil.len = 0
  BY DEF Init, CallsInit, Nil
<1>2. \A q \in Querier : tied[q] = NoTx /\ calls[q] = Nil /\ added[q] = 0
  BY DEF Init, CallsInit
<1>3. \A t \in Tx : iter[t].hdr = Nil
  BY DEF Init
<1>4. \A t : HeldBy(Nil, t)
  BY <1>1 DEF HeldBy
<1> QED
  BY <1>1, <1>2, <1>3, <1>4 DEF ListInv, Querier

\* HeldBy(h, t) of the next state, for a header of this one.
HeldAfter(h, t) ==
    /\ \A i \in 1 .. h.len : Written(heap'[h.arr][i])
    /\ \A i \in 1 .. Len(heap'[h.arr]) :
          Written(heap'[h.arr][i]) => tied'[heap'[h.arr][i][1]] = t

\* An array other than the nil slice's has one owner.
LEMMA OneOwner ==
    ASSUME TypeInv, NEW h \in Header, NEW g \in Header, HeaderOK(h), HeaderOK(g),
           NEW t, NEW u, HeldBy(h, t), HeldBy(g, u), h.arr = g.arr, h.arr # 1
    PROVE  t = u
<1>1. h.len >= 1 /\ h.len <= Len(heap[h.arr]) /\ h.len \in Nat
  BY DEF HeaderOK, Header
<1>2. heap[h.arr] \in Seq(Slots)
  <2>1. heap \in Seq(Seq(Slots)) /\ h.arr \in 1 .. Len(heap)
    BY LenProperties DEF TypeInv, TypeOK, CallsTypeOK, Slots, HeaderOK, Header
  <2> QED  BY <2>1, ElementOfSeq
<1>3. 1 \in 1 .. Len(heap[h.arr]) /\ Written(heap[h.arr][1])
  BY <1>1, <1>2, LenProperties DEF HeldBy
<1> QED
  BY <1>3 DEF HeldBy

LEMMA ListKept ==
    ASSUME ListInv, UNCHANGED <<tied, added, calls, heap>>,
           \A t \in Tx : iter'[t].hdr = iter[t].hdr
    PROVE  ListInv'
BY SMTT(60) DEF ListInv, SlotOK, HeldBy

\* A header's own array, its elements and its owner survive an append made
\* through another Querier, whatever array that one writes to.
LEMMA HeldThroughAppend ==
    ASSUME TypeInv, ListInv, NEW q \in Querier, AddOnCommitCall(q),
           NEW h \in Header, HeaderOK(h), NEW t, HeldBy(h, t)
    PROVE  HeldAfter(h, t)
<1> DEFINE call == <<q, added[q] + 1>>
           g == calls[q]
<1>1. Appended(q, call) /\ tied' = tied /\ call \in Call
  BY AppendFacts DEF AddOnCommitCall, Appended
<1>2. /\ g \in Header /\ HeaderOK(g) /\ HeldBy(g, tied[q])
      /\ heap \in Seq(Seq(Slots)) /\ h.arr \in 1 .. Len(heap) /\ h.len \in Nat
  BY LenProperties DEF TypeInv, TypeOK, CallsTypeOK, HeadersOK, ListInv, Slots, HeaderOK, Header
<1>3. heap[h.arr] \in Seq(Slots) /\ Len(heap[h.arr]) \in Nat /\ h.len <= Len(heap[h.arr])
  BY <1>2, ElementOfSeq, LenProperties DEF HeaderOK
<1>g. call[1] = q
  OBVIOUS
<1> HIDE DEF call, g
<1>4. CASE AppendedInPlace(q, call)
  <2>1. /\ Len(heap'[h.arr]) = Len(heap[h.arr]) /\ g.arr # 1
        /\ \A i \in 1 .. Len(heap[h.arr]) :
              heap'[h.arr][i] = IF h.arr = g.arr /\ i = g.len + 1 THEN call ELSE heap[h.arr][i]
    BY <1>2, <1>4 DEF AppendedInPlace, g
  <2>2. Written(call)
    BY <1>1 DEF Written, Call, NoCall
  <2>3. h.arr = g.arr => tied[call[1]] = t
    BY <1>2, <1>g, <2>1, OneOwner
  <2>4. \A i \in 1 .. h.len : Written(heap'[h.arr][i])
    <3> SUFFICES ASSUME NEW i \in 1 .. h.len PROVE Written(heap'[h.arr][i])
      OBVIOUS
    <3>1. i \in 1 .. Len(heap[h.arr]) /\ Written(heap[h.arr][i])
      BY <1>2, <1>3 DEF HeldBy
    <3> QED  BY <2>1, <2>2, <3>1
  <2>5. \A i \in 1 .. Len(heap'[h.arr]) :
           Written(heap'[h.arr][i]) => tied'[heap'[h.arr][i][1]] = t
    BY <1>1, <1>3, <2>1, <2>3 DEF HeldBy
  <2> QED  BY <2>4, <2>5 DEF HeldAfter
<1>5. CASE AppendedGrown(q, call)
  <2>1. heap'[h.arr] = heap[h.arr]
    BY <1>2, <1>5 DEF AppendedGrown
  <2> QED  BY <1>1, <2>1 DEF HeldAfter, HeldBy
<1> QED
  BY <1>1, <1>4, <1>5 DEF Appended

\* The header the append itself returns.
LEMMA HeldByAppender ==
    ASSUME TypeInv, ListInv, NEW q \in Querier, AddOnCommitCall(q)
    PROVE  HeldAfter(calls'[q], tied[q])
<1> DEFINE call == <<q, added[q] + 1>>
           g == calls[q]
<1>1. Appended(q, call) /\ tied' = tied /\ call \in Call
  BY AppendFacts DEF AddOnCommitCall, Appended
<1>2. /\ g \in Header /\ HeaderOK(g) /\ HeldBy(g, tied[q])
      /\ heap \in Seq(Seq(Slots)) /\ g.arr \in 1 .. Len(heap) /\ g.len \in Nat
  BY LenProperties DEF TypeInv, TypeOK, CallsTypeOK, HeadersOK, ListInv, Slots, HeaderOK, Header
<1>3. Len(heap[g.arr]) \in Nat /\ g.len <= Len(heap[g.arr])
  BY <1>2, ElementOfSeq, LenProperties DEF HeaderOK
<1>4. Written(call) /\ call[1] = q
  BY <1>1 DEF Written, Call, NoCall
<1> HIDE DEF call, g
<1>5. CASE AppendedInPlace(q, call)
  <2>1. /\ calls'[q].arr = g.arr /\ calls'[q].len = g.len + 1
        /\ Len(heap'[g.arr]) = Len(heap[g.arr]) /\ g.len + 1 <= Len(heap[g.arr])
        /\ \A i \in 1 .. Len(heap[g.arr]) :
              heap'[g.arr][i] = IF i = g.len + 1 THEN call ELSE heap[g.arr][i]
    BY <1>2, <1>5, SMTT(30) DEF AppendedInPlace, g
  <2>2. \A i \in 1 .. g.len + 1 : Written(heap'[g.arr][i])
    <3> SUFFICES ASSUME NEW i \in 1 .. g.len + 1 PROVE Written(heap'[g.arr][i])
      OBVIOUS
    <3>1. i <= g.len => i \in 1 .. Len(heap[g.arr]) /\ Written(heap[g.arr][i])
      BY <1>2, <1>3 DEF HeldBy
    <3>2. i > g.len => i = g.len + 1
      BY <1>2
    <3> QED  BY <1>2, <1>3, <1>4, <2>1, <3>1, <3>2
  <2>3. \A i \in 1 .. Len(heap'[g.arr]) :
           Written(heap'[g.arr][i]) => tied'[heap'[g.arr][i][1]] = tied[q]
    BY <1>1, <1>2, <1>3, <1>4, <2>1 DEF HeldBy
  <2> QED  BY <2>1, <2>2, <2>3 DEF HeldAfter
<1>6. CASE AppendedGrown(q, call)
  <2> DEFINE n == calls'[q].arr
  <2>1. /\ calls'[q].len = g.len + 1 /\ Len(heap'[n]) \in Nat /\ g.len + 1 <= Len(heap'[n])
        /\ \A i \in 1 .. Len(heap'[n]) :
              heap'[n][i] = IF i <= g.len THEN heap[g.arr][i]
                            ELSE IF i = g.len + 1 THEN call ELSE NoCall
    BY <1>6 DEF AppendedGrown, g
  <2> HIDE DEF n
  <2>2. \A i \in 1 .. g.len + 1 : Written(heap'[n][i])
    <3> SUFFICES ASSUME NEW i \in 1 .. g.len + 1 PROVE Written(heap'[n][i])
      OBVIOUS
    <3>1. i <= g.len => i \in 1 .. Len(heap[g.arr]) /\ Written(heap[g.arr][i])
      BY <1>2, <1>3 DEF HeldBy
    <3>2. i > g.len => i = g.len + 1
      BY <1>2
    <3> QED  BY <1>2, <1>3, <1>4, <2>1, <3>1, <3>2
  <2>3. \A i \in 1 .. Len(heap'[n]) :
           Written(heap'[n][i]) => tied'[heap'[n][i][1]] = tied[q]
    <3> SUFFICES ASSUME NEW i \in 1 .. Len(heap'[n]), Written(heap'[n][i])
                 PROVE  tied[heap'[n][i][1]] = tied[q]
      BY <1>1
    <3>1. CASE i <= g.len
      <4>1. heap'[n][i] = heap[g.arr][i] /\ i \in 1 .. Len(heap[g.arr])
        BY <1>2, <1>3, <2>1, <3>1
      <4> QED  BY <1>2, <4>1 DEF HeldBy
    <3>2. CASE i = g.len + 1
      BY <1>2, <1>4, <2>1, <3>2
    <3>3. CASE ~(i <= g.len) /\ i # g.len + 1
      BY <2>1, <3>3 DEF Written
    <3> QED  BY <3>1, <3>2, <3>3
  <2> QED  BY <2>1, <2>2, <2>3 DEF HeldAfter, n
<1> QED
  BY <1>1, <1>5, <1>6 DEF Appended

\* SlotOK(c, i) of the next state, for a callback of this one.
SlotAfter(c, i) ==
    Written(c) => /\ c[2] <= added'[c[1]] /\ tied'[c[1]] # NoTx
                  /\ c[1] \in Tx => c[2] = i

\* The callback an append writes was in no slot before.
LEMMA AppendSlots ==
    ASSUME TypeInv, ListInv, NEW q \in Querier, AddOnCommitCall(q)
    PROVE  /\ \A a \in 1 .. Len(heap') : \A i \in 1 .. Len(heap'[a]) : SlotAfter(heap'[a][i], i)
           /\ \A a \in 1 .. Len(heap') : \A i, j \in 1 .. Len(heap'[a]) :
                 Written(heap'[a][i]) /\ heap'[a][i] = heap'[a][j] => i = j
<1> DEFINE call == <<q, added[q] + 1>>
           g == calls[q]
           n == added[q] + 1
<1>1. /\ Appended(q, call) /\ tied' = tied /\ tied[q] # NoTx /\ call \in Call
      /\ added' = [added EXCEPT ![q] = n] /\ added \in [Querier -> 0 .. MaxCalls]
  BY AppendFacts DEF AddOnCommitCall, Appended, InTransaction, TypeInv, TypeOK, CallsTypeOK
<1>2. /\ g \in Header /\ HeaderOK(g) /\ HeldBy(g, tied[q])
      /\ heap \in Seq(Seq(Slots)) /\ g.arr \in 1 .. Len(heap) /\ g.len \in Nat
      /\ q \in Tx => g.len + 1 = n
  BY LenProperties
  DEF TypeInv, TypeOK, CallsTypeOK, HeadersOK, ListInv, Slots, HeaderOK, Header
<1>3. /\ Len(heap[g.arr]) \in Nat /\ g.len <= Len(heap[g.arr]) /\ Len(heap) \in Nat
      /\ \A a \in 1 .. Len(heap) : heap[a] \in Seq(Slots) /\ Len(heap[a]) \in Nat
      /\ \A a \in 1 .. Len(heap) : \A i \in 1 .. Len(heap[a]) : heap[a][i] \in Slots
  BY <1>2, ElementOfSeq, LenProperties DEF HeaderOK
<1>4. Written(call) /\ call[1] = q /\ call[2] = n /\ n \in Nat
  BY <1>1, MaxCallsAssumption DEF Written, Call, NoCall
<1>5. \A c \in Slots : Written(c) => c[1] \in Querier /\ c[2] \in Nat
  BY MaxCallsAssumption DEF Slots, Written, Call
<1>6. \A a \in 1 .. Len(heap) : \A i \in 1 .. Len(heap[a]) :
         SlotAfter(heap[a][i], i) /\ heap[a][i] # call
  <2> SUFFICES ASSUME NEW a \in 1 .. Len(heap), NEW i \in 1 .. Len(heap[a])
               PROVE  SlotAfter(heap[a][i], i) /\ heap[a][i] # call
    OBVIOUS
  <2> DEFINE c == heap[a][i]
  <2>1. SlotOK(c, i) /\ c \in Slots
    BY <1>3 DEF ListInv
  <2> HIDE DEF c, n
  <2>2. Written(c) => c[2] <= added[c[1]] /\ c[1] \in Querier /\ c[2] \in Nat
    BY <1>5, <2>1 DEF SlotOK
  <2>3. Written(c) => c[2] <= added'[c[1]] /\ ~(c[1] = q /\ c[2] = n)
    <3>1. n = added[q] + 1 /\ \A p \in Querier : added[p] \in Nat
      BY <1>1, MaxCallsAssumption DEF n
    <3> QED  BY <1>1, <2>2, <3>1
  <2>4. c # call
    BY <1>4, <2>3
  <2> QED  BY <1>1, <2>1, <2>3, <2>4 DEF SlotOK, SlotAfter, c
<1>7. SlotAfter(call, g.len + 1)
  <2> HIDE DEF call, n, g
  <2> QED  BY <1>1, <1>2, <1>4 DEF SlotAfter
<1>8. \A i : SlotAfter(NoCall, i) /\ ~Written(NoCall)
  BY DEF Written, SlotAfter
<1>10. \A a \in 1 .. Len(heap) : \A i, j \in 1 .. Len(heap[a]) :
          Written(heap[a][i]) /\ heap[a][i] = heap[a][j] => i = j
  BY DEF ListInv
<1> HIDE DEF call, n, g
<1>11. CASE AppendedInPlace(q, call)
  <2>1. /\ Len(heap') = Len(heap)
        /\ \A a \in 1 .. Len(heap) : Len(heap'[a]) = Len(heap[a])
        /\ \A a \in 1 .. Len(heap) : \A i \in 1 .. Len(heap[a]) :
              heap'[a][i] = IF a = g.arr /\ i = g.len + 1 THEN call ELSE heap[a][i]
    BY <1>11 DEF AppendedInPlace, g
  <2>2. \A a \in 1 .. Len(heap') : \A i \in 1 .. Len(heap'[a]) : SlotAfter(heap'[a][i], i)
    BY <1>6, <1>7, <2>1
  <2>3. \A a \in 1 .. Len(heap') : \A i, j \in 1 .. Len(heap'[a]) :
           Written(heap'[a][i]) /\ heap'[a][i] = heap'[a][j] => i = j
    BY <1>6, <1>10, <2>1
  <2> QED  BY <2>2, <2>3
<1>12. CASE AppendedGrown(q, call)
  <2> DEFINE m == Len(heap) + 1
  <2>1. /\ Len(heap') = m /\ \A a \in 1 .. Len(heap) : heap'[a] = heap[a]
        /\ Len(heap'[m]) \in Nat
        /\ \A i \in 1 .. Len(heap'[m]) :
              heap'[m][i] = IF i <= g.len THEN heap[g.arr][i]
                            ELSE IF i = g.len + 1 THEN call ELSE NoCall
    BY <1>12 DEF AppendedGrown, g
  <2>2. \A a \in 1 .. Len(heap') : a = m \/ a \in 1 .. Len(heap)
    BY <1>3, <2>1
  <2>3. \A i \in 1 .. Len(heap'[m]) : i <= g.len => i \in 1 .. Len(heap[g.arr])
    BY <1>2, <1>3, <2>1
  <2> HIDE DEF m
  <2>4. \A i \in 1 .. Len(heap'[m]) : SlotAfter(heap'[m][i], i)
    BY <1>2, <1>6, <1>7, <1>8, <2>1, <2>3
  <2>5. \A i, j \in 1 .. Len(heap'[m]) :
           Written(heap'[m][i]) /\ heap'[m][i] = heap'[m][j] => i = j
    <3> SUFFICES ASSUME NEW i \in 1 .. Len(heap'[m]), NEW j \in 1 .. Len(heap'[m]),
                        Written(heap'[m][i]), heap'[m][i] = heap'[m][j]
                 PROVE  i = j
      OBVIOUS
    <3>1. \A k \in {i, j} : k <= g.len \/ k = g.len + 1
      BY <1>8, <2>1
    <3>2. CASE i <= g.len /\ j <= g.len
      BY <1>2, <1>10, <2>1, <2>3, <3>2
    <3>3. CASE i <= g.len /\ j = g.len + 1
      <4>1. i \in 1 .. Len(heap[g.arr]) /\ heap'[m][i] = heap[g.arr][i]
        BY <2>1, <2>3, <3>3
      <4>2. heap'[m][j] = call
        BY <1>2, <2>1, <3>3
      <4> QED  BY <1>2, <1>6, <4>1, <4>2
    <3>4. CASE i = g.len + 1 /\ j <= g.len
      <4>1. j \in 1 .. Len(heap[g.arr]) /\ heap'[m][j] = heap[g.arr][j]
        BY <2>1, <2>3, <3>4
      <4>2. heap'[m][i] = call
        BY <1>2, <2>1, <3>4
      <4> QED  BY <1>2, <1>6, <4>1, <4>2
    <3> QED  BY <3>1, <3>2, <3>3, <3>4
  <2> QED  BY <1>6, <1>10, <2>1, <2>2, <2>4, <2>5
<1> QED
  BY <1>1, <1>11, <1>12 DEF Appended

LEMMA ListAfter ==
    ASSUME \A p \in Querier : tied'[p] = NoTx => calls'[p] = Nil /\ added'[p] = 0,
           \A t \in Tx : calls'[t].len = added'[t],
           \A a \in 1 .. Len(heap') : \A i \in 1 .. Len(heap'[a]) : SlotAfter(heap'[a][i], i),
           \A a \in 1 .. Len(heap') : \A i, j \in 1 .. Len(heap'[a]) :
              Written(heap'[a][i]) /\ heap'[a][i] = heap'[a][j] => i = j,
           \A p \in Querier : HeldAfter(calls'[p], tied'[p]),
           \A t \in Tx : HeldAfter(iter'[t].hdr, t)
    PROVE  ListInv'
BY DEF ListInv, SlotOK, SlotAfter, HeldBy, HeldAfter

LEMMA ListAppend ==
    ASSUME TypeInv, ListInv, NEW q \in Querier, AddOnCommitCall(q), UNCHANGED txVars
    PROVE  ListInv'
<1>1. /\ Appended(q, <<q, added[q] + 1>>) /\ tied' = tied /\ tied[q] # NoTx
      /\ added' = [added EXCEPT ![q] = added[q] + 1] /\ iter' = iter
  BY AppendFacts DEF AddOnCommitCall, InTransaction, txVars
<1>2. /\ calls \in [Querier -> Header] /\ added \in [Querier -> 0 .. MaxCalls]
      /\ iter \in [Tx -> [hdr : Header, next : Nat \ {0}]]
  BY DEF TypeInv, TypeOK, CallsTypeOK, TxTypeOK
<1>3. /\ calls' = [calls EXCEPT ![q] = calls'[q]]
      /\ calls'[q].len = calls[q].len + 1
  BY <1>1 DEF Appended, AppendedInPlace, AppendedGrown
<1>4. \A p \in Querier : p # q => calls'[p] = calls[p] /\ added'[p] = added[p]
  BY <1>1, <1>2, <1>3
<1>5. \A p \in Querier : tied'[p] = NoTx => calls'[p] = Nil /\ added'[p] = 0
  BY <1>1, <1>4 DEF ListInv
<1>6. \A t \in Tx : calls'[t].len = added'[t]
  BY <1>1, <1>2, <1>3, <1>4 DEF ListInv, Querier
<1>7. \A p \in Querier : HeldAfter(calls'[p], tied'[p])
  <2> SUFFICES ASSUME NEW p \in Querier PROVE HeldAfter(calls'[p], tied[p])
    BY <1>1
  <2>1. CASE p = q
    BY <2>1, HeldByAppender
  <2>2. CASE p # q
    <3>1. calls[p] \in Header /\ HeaderOK(calls[p]) /\ HeldBy(calls[p], tied[p])
      BY <1>2 DEF TypeInv, HeadersOK, ListInv
    <3> QED  BY <1>4, <2>2, <3>1, HeldThroughAppend
  <2> QED  BY <2>1, <2>2
<1>8. \A t \in Tx : HeldAfter(iter'[t].hdr, t)
  <2> SUFFICES ASSUME NEW t \in Tx PROVE HeldAfter(iter[t].hdr, t)
    BY <1>1
  <2>1. iter[t].hdr \in Header /\ HeaderOK(iter[t].hdr) /\ HeldBy(iter[t].hdr, t)
    BY <1>2 DEF TypeInv, HeadersOK, ListInv
  <2> QED  BY <2>1, HeldThroughAppend
<1> QED
  BY <1>5, <1>6, <1>7, <1>8, AppendSlots, ListAfter

\* A Querier is tied for the first time: no slot of the heap mentions it yet.
LEMMA ListTie ==
    ASSUME TypeInv, ListInv, NEW p \in Querier, NEW t \in Tx, tied[p] = NoTx,
           tied' = [tied EXCEPT ![p] = t], UNCHANGED <<added, heap>>
    PROVE  /\ \A a \in 1 .. Len(heap) : \A i \in 1 .. Len(heap[a]) :
                 /\ SlotAfter(heap[a][i], i)
                 /\ Written(heap[a][i]) => tied'[heap[a][i][1]] = tied[heap[a][i][1]]
           /\ \A h \in Header : \A u : HeaderOK(h) /\ HeldBy(h, u) => HeldAfter(h, u)
<1>1. /\ heap \in Seq(Seq(Slots)) /\ tied \in [Querier -> Tx \cup {NoTx}]
  BY DEF TypeInv, TypeOK, CallsTypeOK, Slots
<1>2. ASSUME NEW a \in 1 .. Len(heap), NEW i \in 1 .. Len(heap[a]), Written(heap[a][i])
      PROVE  /\ SlotAfter(heap[a][i], i)
             /\ tied'[heap[a][i][1]] = tied[heap[a][i][1]]
  <2>1. SlotOK(heap[a][i], i) /\ heap[a][i] \in Slots
    <3>1. heap[a] \in Seq(Slots)
      BY <1>1, ElementOfSeq
    <3> QED  BY <3>1, ElementOfSeq DEF ListInv
  <2>2. heap[a][i][1] \in Querier /\ heap[a][i][1] # p
    BY <1>2, <2>1 DEF SlotOK, Slots, Written, Call
  <2> QED  BY <1>1, <1>2, <2>1, <2>2 DEF SlotOK, SlotAfter
<1>3. \A h \in Header : HeaderOK(h) => h.arr \in 1 .. Len(heap)
  BY <1>1, LenProperties DEF HeaderOK, Header
<1> QED
  BY <1>2, <1>3 DEF SlotAfter, HeldBy, HeldAfter

LEMMA NoSlots ==
    ASSUME TypeInv, NEW t
    PROVE  HeldBy(Nil, t) /\ HeaderOK(Nil) /\ Nil \in Header /\ Nil.len = 0
<1>1. Nil.arr = 1 /\ Nil.len = 0 /\ Nil \in Header /\ Len(heap[1]) = 0
  BY EmptySeq DEF Nil, Header, TypeInv, HeadersOK
<1>2. Len(heap) >= 1
  BY EmptySeq DEF TypeInv, TypeOK, CallsTypeOK, HeadersOK
<1> QED
  BY <1>1, <1>2 DEF HeldBy, HeaderOK

LEMMA ListBegin ==
    ASSUME TypeInv, ListInv, NEW t \in Tx, NewTX(t), UNCHANGED iter
    PROVE  ListInv'
<1>1. /\ tied[t] = NoTx /\ tied' = [tied EXCEPT ![t] = t] /\ t \in Querier
      /\ calls' = [calls EXCEPT ![t] = Nil] /\ added' = added /\ heap' = heap
      /\ calls \in [Querier -> Header] /\ tied \in [Querier -> Tx \cup {NoTx}]
      /\ iter \in [Tx -> [hdr : Header, next : Nat \ {0}]]
  BY DEF NewTX, Querier, TypeInv, TypeOK, CallsTypeOK, TxTypeOK
<1>2. calls[t] = Nil /\ added[t] = 0 /\ calls' = calls
  BY <1>1 DEF ListInv
<1>3. \A p \in Querier : HeldAfter(calls[p], tied'[p])
  <2>1. HeldAfter(Nil, t)
    BY <1>1, NoSlots, ListTie
  <2>2. \A p \in Querier : p # t => HeldAfter(calls[p], tied[p])
    BY <1>1, ListTie DEF TypeInv, HeadersOK, ListInv
  <2> QED  BY <1>1, <1>2, <2>1, <2>2
<1>4. \A u \in Tx : HeldAfter(iter[u].hdr, u)
  BY <1>1, ListTie DEF TypeInv, HeadersOK, ListInv
<1>5. \A p \in Querier : tied'[p] = NoTx => calls'[p] = Nil /\ added'[p] = 0
  BY <1>1, <1>2, NamesAssumption DEF ListInv
<1>6. \A a \in 1 .. Len(heap') : \A i \in 1 .. Len(heap'[a]) : SlotAfter(heap'[a][i], i)
  BY <1>1, ListTie
<1>7. \A a \in 1 .. Len(heap') : \A i, j \in 1 .. Len(heap'[a]) :
         Written(heap'[a][i]) /\ heap'[a][i] = heap'[a][j] => i = j
  BY <1>1 DEF ListInv
<1>8. \A u \in Tx : calls'[u].len = added'[u]
  BY <1>1, <1>2 DEF ListInv
<1>9. \A u \in Tx : HeldAfter(iter'[u].hdr, u)
  BY <1>4
<1>10. \A p \in Querier : HeldAfter(calls'[p], tied'[p])
  BY <1>2, <1>3
<1> QED
  BY <1>5, <1>6, <1>7, <1>8, <1>9, <1>10, ListAfter

LEMMA ListCopy ==
    ASSUME TypeInv, ListInv, NEW q \in Querier, NEW c \in Copy, WithTag(q, c), UNCHANGED txVars
    PROVE  ListInv'
<1>1. /\ tied[c] = NoTx /\ tied[q] \in Tx /\ tied' = [tied EXCEPT ![c] = tied[q]] /\ c \in Querier
      /\ calls' = [calls EXCEPT ![c] = calls[q]] /\ added' = added /\ heap' = heap /\ iter' = iter
      /\ calls \in [Querier -> Header] /\ tied \in [Querier -> Tx \cup {NoTx}]
      /\ iter \in [Tx -> [hdr : Header, next : Nat \ {0}]]
  BY DEF WithTag, InTransaction, Querier, TypeInv, TypeOK, CallsTypeOK, TxTypeOK, txVars
<1>2. \A p \in Querier : HeldAfter(calls[p], tied[p])
  BY <1>1, ListTie DEF TypeInv, HeadersOK, ListInv
<1>3. \A p \in Querier : HeldAfter(calls'[p], tied'[p])
  <2>1. calls'[c] = calls[q] /\ tied'[c] = tied[q]
    BY <1>1
  <2>2. \A p \in Querier : p # c => calls'[p] = calls[p] /\ tied'[p] = tied[p]
    BY <1>1
  <2> QED  BY <1>2, <2>1, <2>2
<1>4. \A u \in Tx : HeldAfter(iter[u].hdr, u)
  BY <1>1, ListTie DEF TypeInv, HeadersOK, ListInv
<1>5. \A p \in Querier : tied'[p] = NoTx => calls'[p] = Nil /\ added'[p] = 0
  BY <1>1, NamesAssumption DEF ListInv
<1>6. \A u \in Tx : calls'[u].len = added'[u]
  BY <1>1, NamesAssumption DEF ListInv, Querier
<1>7. \A a \in 1 .. Len(heap') : \A i \in 1 .. Len(heap'[a]) : SlotAfter(heap'[a][i], i)
  BY <1>1, ListTie
<1>8. \A a \in 1 .. Len(heap') : \A i, j \in 1 .. Len(heap'[a]) :
         Written(heap'[a][i]) /\ heap'[a][i] = heap'[a][j] => i = j
  BY <1>1 DEF ListInv
<1>9. \A u \in Tx : HeldAfter(iter'[u].hdr, u)
  BY <1>1, <1>4
<1> QED
  BY <1>3, <1>5, <1>6, <1>7, <1>8, <1>9, ListAfter

LEMMA LoopKeepsHeader ==
    ASSUME TypeOK, NEW t \in Tx, RunCall(t)
    PROVE  \A u \in Tx : iter'[u].hdr = iter[u].hdr
<1>1. \/ iter' = iter
      \/ iter' = [iter EXCEPT ![t] = [hdr |-> iter[t].hdr, next |-> iter[t].next + 1]]
  BY DEF RunCall
<1>2. iter \in [Tx -> [hdr : Header, next : Nat \ {0}]]
  BY DEF TypeOK, TxTypeOK
<1> QED
  BY <1>1, <1>2

LEMMA ListNext == TypeInv /\ ControlInv /\ ListInv /\ [Next]_vars => ListInv'
<1> SUFFICES ASSUME TypeInv, ControlInv, ListInv, [Next]_vars PROVE ListInv'
  OBVIOUS
<1>0. TypeOK
  BY DEF TypeInv
<1>1. ASSUME NEW t \in Tx, ContextEnds(t) \/ AwaitDone(t) \/ Commit(t) \/ Rollback(t)
      PROVE  ListInv'
  BY <1>1, ListKept DEF ContextEnds, AwaitDone, Commit, Rollback, callVars
<1>2. ASSUME NEW t \in Tx, BeginTx(t, "f") \/ BeginTx(t, "manual") PROVE ListInv'
  BY <1>2, ListBegin DEF BeginTx
<1>3. ASSUME NEW t \in Tx,
             BeginFails(t) \/ FReturnsNil(t) \/ FFails(t) \/ CommitFails(t) \/ CallsDone(t) \/ Unwind(t)
      PROVE  ListInv'
  BY <1>3, ListKept
  DEF BeginFails, FReturnsNil, FFails, CommitFails, CallsDone, Unwind, callVars
<1>4. ASSUME NEW t \in Tx, CommitSucceeds(t) PROVE ListInv'
  <2>1. /\ UNCHANGED <<tied, added, calls, heap>> /\ tied[t] = t
        /\ iter'[t].hdr = calls[t] /\ \A u \in Tx : u # t => iter'[u] = iter[u]
    <3>1. pc[t] = "commit" /\ ControlOK(t)
      BY <1>4 DEF CommitSucceeds, ControlInv
    <3> QED  BY <1>0, <1>4, <3>1 DEF CommitSucceeds, ControlOK, callVars, TypeOK, TxTypeOK
  <2>2. \A u \in Tx : HeldBy(iter'[u].hdr, u)
    BY <2>1 DEF ListInv, Querier
  <2>3. /\ \A u \in Tx : HeldAfter(iter'[u].hdr, u)
        /\ \A p \in Querier : HeldAfter(calls'[p], tied'[p])
    BY <2>1, <2>2, SMTT(60) DEF ListInv, HeldBy, HeldAfter
  <2>4. \A a \in 1 .. Len(heap') : \A i \in 1 .. Len(heap'[a]) : SlotAfter(heap'[a][i], i)
    BY <2>1 DEF ListInv, SlotOK, SlotAfter
  <2>5. \A a \in 1 .. Len(heap') : \A i, j \in 1 .. Len(heap'[a]) :
           Written(heap'[a][i]) /\ heap'[a][i] = heap'[a][j] => i = j
    BY <2>1 DEF ListInv
  <2>6. /\ \A p \in Querier : tied'[p] = NoTx => calls'[p] = Nil /\ added'[p] = 0
        /\ \A u \in Tx : calls'[u].len = added'[u]
    BY <2>1 DEF ListInv
  <2> QED  BY <2>3, <2>4, <2>5, <2>6, ListAfter
<1>5. ASSUME NEW t \in Tx, RunCall(t) PROVE ListInv'
  BY <1>0, <1>5, ListKept, LoopKeepsHeader DEF RunCall, callVars
<1>6. ASSUME NEW q \in Querier, NEW c \in Copy, WithTag(q, c), UNCHANGED txVars PROVE ListInv'
  BY <1>6, ListCopy
<1>7. ASSUME NEW q \in Querier, AddOnCommitCall(q), UNCHANGED txVars PROVE ListInv'
  BY <1>7, ListAppend
<1>8. CASE UNCHANGED vars
  BY <1>8, ListKept DEF vars, callVars, txVars
<1> QED
  BY <1>1, <1>2, <1>3, <1>4, <1>5, <1>6, <1>7, <1>8 DEF Next, TxNext, Finish, CallsNext

-----------------------------------------------------------------------------
\* The callbacks that have run.

LEMMA RanInit == Init => RanInv
<1> SUFFICES ASSUME Init, NEW t \in Tx PROVE RanOK(t)
  BY DEF RanInv
<1>1. /\ ran[t] = << >> /\ Len(ran[t]) = 0 /\ pc[t] = "idle" /\ res[t] = "none"
      /\ due[t] = 0 /\ added[t] = 0
  BY DEF Init, CallsInit, Querier
<1> QED
  BY <1>1 DEF RanOK

\* What one transaction has run is left alone by whatever only registers more
\* callbacks, ties more Queriers and writes fresh callbacks.
LEMMA RanKept ==
    ASSUME TypeOK, NEW u \in Tx, RanOK(u),
           ran'[u] = ran[u], due'[u] = due[u], iter'[u].hdr = iter[u].hdr,
           pc'[u] = "calls" => pc[u] = "calls" /\ iter'[u].next = iter[u].next,
           res'[u] = "nil" => res[u] = "nil",
           \A p \in Querier : added'[p] \in Nat /\ added'[p] >= added[p],
           \A p \in Querier : tied[p] # NoTx => tied'[p] = tied[p],
           Len(heap'[iter[u].hdr.arr]) = Len(heap[iter[u].hdr.arr]),
           \A j \in 1 .. Len(heap[iter[u].hdr.arr]) :
              \/ heap'[iter[u].hdr.arr][j] = heap[iter[u].hdr.arr][j]
              \/ \A i \in 1 .. Len(ran[u]) : heap'[iter[u].hdr.arr][j] # ran[u][i]
    PROVE  RanOK(u)'
<1>1. /\ ran[u] \in Seq(Slots) /\ due[u] \in Nat
      /\ \A p \in Querier : added[p] \in Nat
      /\ u \in Querier
  BY MaxCallsAssumption DEF TypeOK, CallsTypeOK, TxTypeOK, Slots, Querier
<1>2. ASSUME NEW i \in 1 .. Len(ran[u])
      PROVE  /\ ran[u][i] \in Call /\ tied'[ran[u][i][1]] = u
             /\ ran[u][i][2] <= added'[ran[u][i][1]]
             /\ ran[u][i] = <<u, i>> \/ ran[u][i][1] \in Copy
  <2>1. /\ ran[u][i] \in Call /\ tied[ran[u][i][1]] = u
        /\ ran[u][i][2] <= added[ran[u][i][1]]
        /\ ran[u][i] = <<u, i>> \/ ran[u][i][1] \in Copy
    BY DEF RanOK
  <2>2. ran[u][i][1] \in Querier /\ ran[u][i][2] \in Nat
    BY <2>1, MaxCallsAssumption DEF Call
  <2>3. u # NoTx
    BY NamesAssumption
  <2> QED  BY <1>1, <2>1, <2>2, <2>3
<1>3. \A i \in 1 .. Len(ran[u]) : \A j \in 1 .. Len(heap[iter[u].hdr.arr]) :
         heap'[iter[u].hdr.arr][j] = ran[u][i] => j = i
  BY DEF RanOK
<1>4. due[u] <= added'[u]
  BY <1>1 DEF RanOK
<1> QED
  BY <1>2, <1>3, <1>4 DEF RanOK

\* Steps of other transactions, and those of its own that run nothing.
LEMMA RanQuiet ==
    ASSUME TypeOK, NEW u \in Tx, RanOK(u), UNCHANGED <<tied, added, heap>>,
           ran'[u] = ran[u], due'[u] = due[u], iter'[u] = iter[u],
           pc'[u] = "calls" => pc[u] = "calls", res'[u] = "nil" => res[u] = "nil"
    PROVE  RanOK(u)'
<1>1. \A p \in Querier : added'[p] \in Nat /\ added'[p] >= added[p]
  BY MaxCallsAssumption DEF TypeOK, CallsTypeOK
<1> QED
  BY <1>1, RanKept

LEMMA RanAppend ==
    ASSUME TypeInv, ListInv, NEW q \in Querier, AddOnCommitCall(q), UNCHANGED txVars,
           NEW u \in Tx, RanOK(u)
    PROVE  RanOK(u)'
<1> DEFINE call == <<q, added[q] + 1>>
           h == iter[u].hdr
<1>1. /\ Appended(q, call) /\ tied' = tied /\ added' = [added EXCEPT ![q] = added[q] + 1]
      /\ added \in [Querier -> 0 .. MaxCalls]
  BY AppendFacts DEF AddOnCommitCall, TypeInv, TypeOK, CallsTypeOK
<1>2. \A p \in Querier : added[p] \in Nat /\ added'[p] \in Nat /\ added'[p] >= added[p]
  BY <1>1, MaxCallsAssumption
<1>3. /\ h.arr \in 1 .. Len(heap)
      /\ calls[q] \in Header
  <2>1. h \in Header /\ HeaderOK(h) /\ heap \in Seq(Seq(Slots)) /\ calls[q] \in Header
    BY DEF TypeInv, HeadersOK, TypeOK, TxTypeOK, CallsTypeOK, Slots
  <2> QED  BY <2>1, LenProperties DEF HeaderOK, Header
<1>4. \A i \in 1 .. Len(ran[u]) : ran[u][i] # call
  <2>1. \A i \in 1 .. Len(ran[u]) : ran[u][i][2] <= added[ran[u][i][1]]
    BY DEF RanOK
  <2> QED  BY <1>2, <2>1
<1> HIDE DEF call, h
<1>5. /\ Len(heap'[h.arr]) = Len(heap[h.arr])
      /\ \A j \in 1 .. Len(heap[h.arr]) : heap'[h.arr][j] = heap[h.arr][j] \/ heap'[h.arr][j] = call
  <2>1. CASE AppendedInPlace(q, call)
    BY <1>3, <2>1 DEF AppendedInPlace
  <2>2. CASE AppendedGrown(q, call)
    BY <1>3, <2>2 DEF AppendedGrown
  <2> QED  BY <1>1, <2>1, <2>2 DEF Appended
<1>6. \A j \in 1 .. Len(heap[h.arr]) :
         \/ heap'[h.arr][j] = heap[h.arr][j]
         \/ \A i \in 1 .. Len(ran[u]) : heap'[h.arr][j] # ran[u][i]
  BY <1>4, <1>5
<1> QED
  BY <1>1, <1>2, <1>5, <1>6, RanKept DEF h, txVars, TypeInv

LEMMA RanTie ==
    ASSUME TypeInv, NEW p \in Querier, NEW t, tied[p] = NoTx,
           tied' = [tied EXCEPT ![p] = t], UNCHANGED <<added, heap, ran, due, iter>>,
           NEW u \in Tx, RanOK(u),
           pc'[u] = "calls" => pc[u] = "calls", res'[u] = "nil" => res[u] = "nil"
    PROVE  RanOK(u)'
<1>1. /\ \A r \in Querier : added'[r] \in Nat /\ added'[r] >= added[r]
      /\ \A r \in Querier : tied[r] # NoTx => tied'[r] = tied[r]
  BY MaxCallsAssumption DEF TypeInv, TypeOK, CallsTypeOK
<1> QED
  BY <1>1, RanKept DEF TypeInv

\* The loop runs the next callback: it is written, registered through the
\* transaction, and none of those run before.
LEMMA NextCall ==
    ASSUME TypeInv, ControlInv, ListInv, NEW u \in Tx, RanOK(u), RunCall(u)
    PROVE  LET n == Len(ran[u]) + 1
               c == heap[iter[u].hdr.arr][n] IN
           /\ ran' = [ran EXCEPT ![u] = Append(@, c)]
           /\ iter[u].next = n /\ n \in Nat
           /\ c \in Call /\ tied[c[1]] = u /\ c[2] <= added[c[1]]
           /\ c = <<u, n>> \/ c[1] \in Copy
           /\ \A i \in 1 .. Len(ran[u]) : ran[u][i] # c
           /\ \A j \in 1 .. Len(heap[iter[u].hdr.arr]) : heap[iter[u].hdr.arr][j] = c => j = n
<1> DEFINE h == iter[u].hdr
           n == Len(ran[u]) + 1
           c == heap[h.arr][n]
<1>1. /\ pc[u] = "calls" /\ iter[u].next = n /\ n <= h.len
      /\ ran' = [ran EXCEPT ![u] = Append(@, c)]
  BY DEF RunCall, RanOK, Slot
<1>2. /\ h \in Header /\ HeaderOK(h) /\ HeldBy(h, u)
      /\ heap \in Seq(Seq(Slots)) /\ ran[u] \in Seq(Slots)
  BY DEF TypeInv, TypeOK, CallsTypeOK, TxTypeOK, HeadersOK, ListInv, Slots
<1>3. h.arr \in 1 .. Len(heap) /\ h.len \in Nat /\ h.len <= Len(heap[h.arr])
  BY <1>2, LenProperties DEF HeaderOK, Header
<1>4. heap[h.arr] \in Seq(Slots) /\ Len(heap[h.arr]) \in Nat /\ n \in Nat /\ n >= 1
  BY <1>2, <1>3, ElementOfSeq, LenProperties
<1>5. n \in 1 .. Len(heap[h.arr]) /\ n \in 1 .. h.len
  BY <1>1, <1>3, <1>4
<1>6. c \in Slots /\ Written(c) /\ tied[c[1]] = u /\ SlotOK(c, n)
  <2>1. c \in Slots
    BY <1>4, <1>5, ElementOfSeq
  <2>2. Written(c) /\ tied[c[1]] = u
    <3> HIDE DEF n, h
    <3> QED  BY <1>2, <1>5 DEF HeldBy
  <2>3. SlotOK(c, n)
    <3> HIDE DEF n, h
    <3> QED  BY <1>3, <1>5 DEF ListInv
  <2> QED  BY <2>1, <2>2, <2>3
<1>7. c \in Call
  BY <1>6 DEF Slots, Written
<1>8. c = <<u, n>> \/ c[1] \in Copy
  <2>1. CASE c[1] \in Tx
    <3>1. tied[c[1]] \in {NoTx, c[1]}
      BY <2>1 DEF ControlInv, ControlOK
    <3>2. c[1] = u /\ c[2] = n
      BY <1>6, <2>1, <3>1, NamesAssumption DEF SlotOK
    <3> QED  BY <1>7, <3>2, SMTT(60) DEF Call
  <2>2. CASE c[1] \in Copy
    BY <2>2
  <2> QED  BY <1>7, <2>1, <2>2 DEF Call, Querier
<1>9. \A i \in 1 .. Len(ran[u]) : ran[u][i] # c
  BY <1>2, <1>5, LenProperties DEF RanOK
<1>10. \A j \in 1 .. Len(heap[h.arr]) : heap[h.arr][j] = c => j = n
  BY <1>3, <1>5, <1>6 DEF ListInv
<1>11. c[2] <= added[c[1]]
  BY <1>6 DEF SlotOK
<1> QED
  BY <1>1, <1>4, <1>6, <1>7, <1>8, <1>9, <1>10, <1>11

LEMMA RanRun ==
    ASSUME TypeInv, ControlInv, ListInv, NEW u \in Tx, RanOK(u), RunCall(u)
    PROVE  RanOK(u)'
<1> DEFINE m == Len(ran[u])
           n == m + 1
           c == heap[iter[u].hdr.arr][n]
<1>1. /\ ran' = [ran EXCEPT ![u] = Append(@, c)]
      /\ iter[u].next = n /\ n \in Nat
      /\ c \in Call /\ tied[c[1]] = u /\ c[2] <= added[c[1]]
      /\ c = <<u, n>> \/ c[1] \in Copy
      /\ \A i \in 1 .. m : ran[u][i] # c
      /\ \A j \in 1 .. Len(heap[iter[u].hdr.arr]) : heap[iter[u].hdr.arr][j] = c => j = n
  BY NextCall
<1>2. /\ ran \in [Tx -> Seq(Slots)] /\ due \in [Querier -> Nat] /\ u \in Querier
      /\ iter \in [Tx -> [hdr : Header, next : Nat \ {0}]]
      /\ pc \in [Tx -> PCs] /\ res \in [Tx -> Results] /\ c \in Slots
  BY <1>1 DEF TypeInv, TypeOK, TxTypeOK, Slots, Querier
<1>3. m \in Nat /\ ran[u] \in Seq(Slots)
  BY <1>2, LenProperties
<1> HIDE DEF c, m
<1>4. ran'[u] = Append(ran[u], c)
  BY <1>1, <1>2
<1>5. /\ Len(ran'[u]) = n /\ ran'[u][n] = c
      /\ \A i \in 1 .. m : ran'[u][i] = ran[u][i]
  BY <1>2, <1>3, <1>4, AppendProperties DEF m
<1>6. \A i \in 1 .. n : i \in 1 .. m \/ i = n
  BY <1>3
<1>7. /\ tied' = tied /\ added' = added /\ heap' = heap /\ due' = due
      /\ iter'[u].hdr = iter[u].hdr
  BY LoopKeepsHeader DEF RunCall, callVars, TypeInv
<1>8. /\ pc'[u] = "calls" => pc[u] = "calls" /\ iter'[u].next = n + 1
      /\ res'[u] # "nil"
  <2>1. /\ pc[u] = "calls" /\ res[u] = "none"
        /\ \/ iter' = [iter EXCEPT ![u] = [hdr |-> @.hdr, next |-> @.next + 1]] /\ UNCHANGED <<pc, res>>
           \/ \E r \in {"callErr", "callPanic"} : ReturnWith(u, r)
    BY DEF RunCall, ControlInv, ControlOK
  <2>2. CASE iter' = [iter EXCEPT ![u] = [hdr |-> @.hdr, next |-> @.next + 1]] /\ UNCHANGED <<pc, res>>
    BY <1>1, <1>2, <2>1, <2>2
  <2>3. CASE \E r \in {"callErr", "callPanic"} : ReturnWith(u, r)
    BY <1>2, <2>1, <2>3 DEF ReturnWith
  <2> QED  BY <2>1, <2>2, <2>3
<1>9. \A i \in 1 .. n :
         /\ ran'[u][i] \in Call /\ tied'[ran'[u][i][1]] = u
         /\ ran'[u][i][2] <= added'[ran'[u][i][1]]
         /\ ran'[u][i] = <<u, i>> \/ ran'[u][i][1] \in Copy
         /\ \A j \in 1 .. Len(heap'[iter'[u].hdr.arr]) :
               heap'[iter'[u].hdr.arr][j] = ran'[u][i] => j = i
  <2> DEFINE ok(d, i) ==
               /\ d \in Call /\ tied[d[1]] = u /\ d[2] <= added[d[1]]
               /\ d = <<u, i>> \/ d[1] \in Copy
               /\ \A j \in 1 .. Len(heap[iter[u].hdr.arr]) :
                     heap[iter[u].hdr.arr][j] = d => j = i
  <2>1. \A i \in 1 .. m : ok(ran[u][i], i)
    BY DEF RanOK, m
  <2>2. ok(c, n)
    BY <1>1
  <2> HIDE DEF ok
  <2>3. \A i \in 1 .. n : ok(ran'[u][i], i)
    BY <1>5, <1>6, <2>1, <2>2
  <2> QED  BY <1>7, <2>3 DEF ok
<1>10. \A i, j \in 1 .. n : ran'[u][i] = ran'[u][j] => i = j
  <2>1. \A i, j \in 1 .. m : ran[u][i] = ran[u][j] => i = j
    BY DEF RanOK, m
  <2> QED  BY <1>1, <1>5, <1>6, <2>1
<1>11. due'[u] <= added'[u] /\ (pc'[u] = "calls" => due'[u] <= iter'[u].hdr.len)
  BY <1>7, <1>8 DEF RanOK
<1> QED
  BY <1>5, <1>8, <1>9, <1>10, <1>11 DEF RanOK

LEMMA RanOwnStep ==
    ASSUME TypeInv, ControlInv, ListInv, NEW u \in Tx, RanOK(u), TxNext(u)
    PROVE  RanOK(u)'
<1>a. TypeOK /\ ControlOK(u) /\ u \in Querier
  BY DEF TypeInv, ControlInv, Querier
<1>1. CASE ContextEnds(u) \/ AwaitDone(u) \/ Commit(u) \/ Rollback(u)
  BY <1>a, <1>1, RanQuiet DEF ContextEnds, AwaitDone, Commit, Rollback, callVars
<1>2. CASE BeginTx(u, "f") \/ BeginTx(u, "manual")
  <2>1. /\ tied[u] = NoTx /\ tied' = [tied EXCEPT ![u] = u]
        /\ UNCHANGED <<added, heap, ran, due, iter, res>>
        /\ pc'[u] # "calls"
    BY <1>a, <1>2 DEF BeginTx, NewTX, TypeOK, TxTypeOK
  <2> QED  BY <1>a, <2>1, RanTie
<1>3. CASE BeginFails(u) \/ FFails(u) \/ CommitFails(u) \/ Unwind(u)
  <2>1. /\ UNCHANGED <<tied, added, heap, ran, due, iter>> /\ pc'[u] # "calls"
        /\ res'[u] = "nil" => res[u] = "nil"
    BY <1>a, <1>3
    DEF BeginFails, FFails, CommitFails, Unwind, ReturnWith, callVars, TypeOK, TxTypeOK
  <2> QED  BY <1>a, <2>1, RanQuiet
<1>4. CASE FReturnsNil(u)
  <2>1. /\ UNCHANGED <<tied, added, heap, ran, iter, res>> /\ pc'[u] # "calls" /\ res[u] = "none"
        /\ due'[u] = added[u] /\ added[u] \in Nat
    BY <1>a, <1>4, MaxCallsAssumption, NamesAssumption
    DEF FReturnsNil, callVars, TypeOK, CallsTypeOK, TxTypeOK, ControlOK
  <2> QED  BY <1>a, <2>1 DEF RanOK
<1>5. CASE CommitSucceeds(u)
  <2>1. /\ UNCHANGED <<tied, added, calls, heap, ran, due, res>>
        /\ pc[u] = "commit" /\ res[u] = "none" /\ ran[u] = << >> /\ Len(ran[u]) = 0
        /\ iter'[u] = [hdr |-> calls[u], next |-> 1] /\ calls[u].len = added[u]
    BY <1>a, <1>5 DEF CommitSucceeds, callVars, TypeOK, TxTypeOK, ControlOK, ListInv
  <2> QED  BY <1>a, <2>1 DEF RanOK
<1>6. CASE RunCall(u)
  BY <1>6, RanRun
<1>7. CASE CallsDone(u)
  <2>1. /\ UNCHANGED <<tied, added, heap, ran, due, iter>> /\ pc[u] = "calls"
        /\ iter[u].next > iter[u].hdr.len /\ pc'[u] = "unwind"
    BY <1>a, <1>7 DEF CallsDone, ReturnWith, callVars, TypeOK, TxTypeOK
  <2>2. /\ due[u] <= iter[u].hdr.len /\ Len(ran[u]) + 1 = iter[u].next
        /\ Len(ran[u]) \in Nat /\ due[u] \in Nat /\ iter[u].hdr.len \in Nat
    BY <1>a, <2>1 DEF RanOK, TypeOK, TxTypeOK, Header
  <2>3. due[u] <= Len(ran[u])
    BY <2>1, <2>2
  <2> QED  BY <2>1, <2>3 DEF RanOK
<1> QED
  BY <1>1, <1>2, <1>3, <1>4, <1>5, <1>6, <1>7 DEF TxNext, Finish

LEMMA RanOtherStep ==
    ASSUME TypeInv, ControlInv, NEW t \in Tx, TxNext(t), NEW u \in Tx, u # t, RanOK(u)
    PROVE  RanOK(u)'
<1>1. TypeOK /\ Untouched(u) /\ tied[u] \in {NoTx, u} /\ u \in Querier /\ t \in Querier
  BY StepsAreLocal DEF TypeInv, ControlInv, ControlOK, Querier
<1>2. due'[u] = due[u]
  <2>1. CASE FReturnsNil(t)
    BY <1>1, <2>1, NamesAssumption DEF FReturnsNil, TypeOK, TxTypeOK
  <2>2. CASE ~FReturnsNil(t)
    BY <2>2
    DEF TxNext, Finish, ContextEnds, AwaitDone, BeginTx, BeginFails, Commit, Rollback,
        FFails, CommitSucceeds, CommitFails, RunCall, CallsDone, Unwind
  <2> QED  BY <2>1, <2>2
<1>3. CASE BeginTx(t, "f") \/ BeginTx(t, "manual")
  <2>1. tied[t] = NoTx /\ tied' = [tied EXCEPT ![t] = t] /\ UNCHANGED <<added, heap, ran, due, iter, res>>
    BY <1>3 DEF BeginTx, NewTX
  <2> QED  BY <1>1, <2>1, RanTie DEF Untouched
<1>4. CASE ~(BeginTx(t, "f") \/ BeginTx(t, "manual"))
  <2>1. UNCHANGED <<tied, added, heap>>
    BY <1>4
    DEF TxNext, Finish, ContextEnds, AwaitDone, BeginFails, Commit, Rollback, FReturnsNil,
        FFails, CommitSucceeds, CommitFails, RunCall, CallsDone, Unwind, callVars
  <2> QED  BY <1>1, <1>2, <2>1, RanQuiet DEF Untouched
<1> QED
  BY <1>3, <1>4

LEMMA RanNext == IInv /\ [Next]_vars => RanInv'
<1> SUFFICES ASSUME TypeInv, ControlInv, ListInv, RanInv, [Next]_vars, NEW u \in Tx
             PROVE  RanOK(u)'
  BY DEF IInv, RanInv
<1>a. RanOK(u) /\ TypeOK
  BY DEF RanInv, TypeInv
<1>1. ASSUME NEW t \in Tx, TxNext(t) PROVE RanOK(u)'
  BY <1>a, <1>1, RanOwnStep, RanOtherStep
<1>2. ASSUME NEW q \in Querier, AddOnCommitCall(q), UNCHANGED txVars PROVE RanOK(u)'
  BY <1>a, <1>2, RanAppend
<1>3. ASSUME NEW q \in Querier, NEW c \in Copy, WithTag(q, c), UNCHANGED txVars PROVE RanOK(u)'
  BY <1>a, <1>3, RanTie DEF WithTag, txVars, Querier
<1>4. CASE UNCHANGED vars
  BY <1>a, <1>4, RanQuiet DEF vars, callVars, txVars
<1> QED
  BY <1>1, <1>2, <1>3, <1>4 DEF Next, CallsNext

\* The inductive invariant holds.
THEOREM Inductive == Spec => []IInv
<1>1. Init => IInv
  BY TypeInit, ControlInit, ListInit, RanInit DEF IInv
<1>2. IInv /\ [Next]_vars => IInv'
  BY TypeNext, ControlNext, ListNext, RanNext DEF IInv
<1> QED
  BY <1>1, <1>2, PTL DEF Spec

LEMMA RanSlots == ASSUME IInv, NEW t \in Tx PROVE DOMAIN ran[t] = 1 .. Len(ran[t])
BY DEF IInv, TypeInv, TypeOK, TxTypeOK

\* Only callbacks of its own Queriers run in a transaction.
THEOREM OwnTxCorrect == Spec => []CallbacksOfOwnTx
<1>1. IInv => CallbacksOfOwnTx
  BY RanSlots DEF IInv, RanInv, RanOK, CallbacksOfOwnTx, RanSet
<1> QED
  BY <1>1, Inductive, PTL

\* No callback runs twice, in one transaction or in two.
THEOREM AtMostOnceCorrect == Spec => []AtMostOnce
<1>1. ASSUME IInv PROVE AtMostOnce
  <2>1. \A t \in Tx : DOMAIN ran[t] = 1 .. Len(ran[t])
    BY <1>1, RanSlots
  <2>2. \A t \in Tx : \A i, j \in DOMAIN ran[t] : ran[t][i] = ran[t][j] => i = j
    BY <1>1, <2>1 DEF IInv, RanInv, RanOK
  <2>3. \A t \in Tx : \A c \in RanSet(t) : tied[c[1]] = t
    BY <1>1, <2>1 DEF IInv, RanInv, RanOK, RanSet
  <2> QED  BY <2>2, <2>3 DEF AtMostOnce
<1> QED
  BY <1>1, Inductive, PTL

\* The TX's own callbacks run in their order, and none is left out.
THEOREM InOrderCorrect == Spec => []OwnCallbacksRunInOrder
<1>1. ASSUME IInv, NEW t \in Tx
      PROVE  /\ \A i \in DOMAIN ran[t] : ran[t][i] = <<t, i>> \/ ran[t][i][1] \in Copy
             /\ res[t] = "nil" => Len(ran[t]) >= due[t]
  <2>1. RanOK(t) /\ DOMAIN ran[t] = 1 .. Len(ran[t])
    BY <1>1, RanSlots DEF IInv, RanInv
  <2>2. due[t] \in Nat /\ Len(ran[t]) \in Nat
    BY <1>1, LenProperties DEF IInv, TypeInv, TypeOK, TxTypeOK, Querier
  <2>3. \A i \in DOMAIN ran[t] : ran[t][i] = <<t, i>> \/ ran[t][i][1] \in Copy
    BY <2>1 DEF RanOK
  <2>4. res[t] = "nil" => due[t] <= Len(ran[t])
    BY <2>1 DEF RanOK
  <2> QED  BY <2>2, <2>3, <2>4
<1>2. IInv => OwnCallbacksRunInOrder
  BY <1>1 DEF OwnCallbacksRunInOrder
<1> QED
  BY <1>2, Inductive, PTL

-----------------------------------------------------------------------------
\* Transaction implements TxContract.

SameView(u) ==
    Outcome(u)' = Outcome(u) /\ Answer(u)' = Answer(u) /\ RanSet(u)' = RanSet(u)

LEMMA ViewKept ==
    ASSUME NEW u \in Tx, Untouched(u)
    PROVE  SameView(u)
BY DEF Untouched, SameView, Outcome, Answer, RanSet, Returned, InTransaction

\* Each step of a transaction, seen through its own outcome, answer and run.
ViewStep(t) ==
    \/ SameView(t)
    \/ /\ Outcome(t) = "open" /\ Answer(t) = "none"
       /\ Outcome(t)' \in {"committed", "aborted"}
       /\ Answer(t)' = Answer(t) /\ RanSet(t)' = RanSet(t)
    \/ /\ Outcome(t) = "committed" /\ Answer(t) = "none"
       /\ \E c \in Call : /\ \A u \in Tx : c \notin RanSet(u)
                         /\ RanSet(t)' = RanSet(t) \cup {c}
       /\ Outcome(t)' = Outcome(t) /\ Answer(t)' = Answer(t)
    \/ /\ Outcome(t) = "committed" /\ Answer(t) = "none" /\ Answer(t)' = "nil"
       /\ Outcome(t)' = Outcome(t) /\ RanSet(t)' = RanSet(t)
    \/ /\ Answer(t) = "none" /\ Answer(t)' = "error"
       /\ Outcome(t)' = IF Outcome(t) = "open" THEN "aborted" ELSE Outcome(t)
       /\ RanSet(t)' = RanSet(t)

LEMMA RunView ==
    ASSUME IInv, NEW t \in Tx, RunCall(t)
    PROVE  \E c \in Call : /\ \A u \in Tx : c \notin RanSet(u)
                          /\ RanSet(t)' = RanSet(t) \cup {c}
<1> DEFINE n == Len(ran[t]) + 1
           c == heap[iter[t].hdr.arr][n]
<1>1. /\ ran' = [ran EXCEPT ![t] = Append(@, c)]
      /\ c \in Call /\ tied[c[1]] = t /\ \A i \in 1 .. Len(ran[t]) : ran[t][i] # c
  BY NextCall DEF IInv, RanInv
<1>2. /\ ran \in [Tx -> Seq(Slots)] /\ c \in Slots
      /\ \A u \in Tx : DOMAIN ran[u] = 1 .. Len(ran[u])
  BY <1>1, RanSlots DEF IInv, TypeInv, TypeOK, TxTypeOK, Slots
<1>3. \A u \in Tx : \A d \in RanSet(u) : tied[d[1]] = u
  BY <1>2 DEF IInv, RanInv, RanOK, RanSet
<1> HIDE DEF c
<1>4. /\ ran'[t] = Append(ran[t], c) /\ ran[t] \in Seq(Slots) /\ Len(ran[t]) \in Nat
  BY <1>1, <1>2, LenProperties
<1>5. /\ Len(ran'[t]) = n /\ ran'[t][n] = c /\ ran'[t] \in Seq(Slots)
      /\ \A i \in 1 .. Len(ran[t]) : ran'[t][i] = ran[t][i]
  BY <1>2, <1>4, AppendProperties
<1>6. DOMAIN ran'[t] = 1 .. n /\ DOMAIN ran[t] = 1 .. Len(ran[t])
  BY <1>2, <1>5, LenProperties
<1>7. \A i : i \in 1 .. n <=> i \in 1 .. Len(ran[t]) \/ i = n
  BY <1>4
<1> HIDE DEF n
<1>8. RanSet(t)' = RanSet(t) \cup {c}
  BY <1>5, <1>6, <1>7 DEF RanSet
<1>9. \A u \in Tx : c \notin RanSet(u)
  BY <1>1, <1>2, <1>3 DEF RanSet
<1> QED
  BY <1>1, <1>8, <1>9

LEMMA OwnView ==
    ASSUME IInv, NEW t \in Tx, TxNext(t)
    PROVE  ViewStep(t)
<1> USE DEF Outcome, Answer, Returned, InTransaction
<1>1. TypeOK /\ ControlOK(t)
  BY DEF IInv, TypeInv, ControlInv
<1>2. CASE ContextEnds(t) \/ FReturnsNil(t) \/ FFails(t) \/ CallsDone(t)
  BY <1>1, <1>2
  DEF ContextEnds, FReturnsNil, FFails, CallsDone, ReturnWith, callVars, TypeOK, TxTypeOK,
      ControlOK, ViewStep, SameView, RanSet
<1>3. CASE BeginTx(t, "f") \/ BeginTx(t, "manual")
  BY <1>1, <1>3
  DEF BeginTx, NewTX, TypeOK, CallsTypeOK, TxTypeOK, ControlOK, ViewStep, SameView, RanSet
<1>4. CASE AwaitDone(t) \/ Rollback(t)
  BY <1>1, <1>4
  DEF AwaitDone, Rollback, SqlRollback, SqlEnd, Done, callVars, TypeOK, TxTypeOK, ControlOK,
      ViewStep, SameView, RanSet
<1>5. CASE Commit(t)
  BY <1>1, <1>5
  DEF Commit, SqlCommit, SqlEnd, Done, callVars, TypeOK, TxTypeOK, ControlOK,
      ViewStep, SameView, RanSet
<1>6. CASE BeginFails(t)
  BY <1>1, <1>6
  DEF BeginFails, callVars, TypeOK, TxTypeOK, ControlOK, ViewStep, RanSet
<1>7. CASE CommitSucceeds(t)
  BY <1>1, <1>7
  DEF CommitSucceeds, SqlCommit, SqlEnd, Done, callVars, TypeOK, TxTypeOK, ControlOK,
      ViewStep, RanSet
<1>8. CASE CommitFails(t)
  BY <1>1, <1>8
  DEF CommitFails, SqlCommit, SqlEnd, ReturnWith, Done, callVars, TypeOK, TxTypeOK, ControlOK,
      ViewStep, SameView, RanSet
<1>9. CASE RunCall(t)
  BY <1>1, <1>9, RunView
  DEF RunCall, ReturnWith, callVars, TypeOK, TxTypeOK, ControlOK, ViewStep
<1>10. CASE Unwind(t)
  BY <1>1, <1>10
  DEF Unwind, SqlRollback, SqlEnd, Done, callVars, TypeOK, TxTypeOK, ControlOK, ViewStep, RanSet
<1> QED
  BY <1>2, <1>3, <1>4, <1>5, <1>6, <1>7, <1>8, <1>9, <1>10 DEF TxNext, Finish

\* Transaction implements its contract: every behaviour of the code, seen from
\* the caller, is one the contract allows.
THEOREM Refinement == Spec => ImplementsContract
<1> DEFINE O == [t \in Tx |-> Outcome(t)]
           A == [t \in Tx |-> Answer(t)]
           R == [t \in Tx |-> RanSet(t)]
<1>1. Init => C!ContractInit
  <2> SUFFICES ASSUME Init, NEW t \in Tx
               PROVE  Outcome(t) = "open" /\ Answer(t) = "none" /\ RanSet(t) = {}
    BY DEF C!ContractInit
  <2>1. server[t] = "none" /\ pc[t] = "idle" /\ ran[t] = << >>
    BY DEF Init
  <2> QED  BY <2>1 DEF Outcome, Answer, RanSet, Returned
<1>2. ASSUME IInv, NEW t \in Tx, TxNext(t)
      PROVE  C!ContractNext \/ UNCHANGED <<O, A, R>>
  <2>1. \A u \in Tx : u # t => SameView(u)
    BY <1>2, StepsAreLocal, ViewKept DEF IInv, TypeInv
  <2>2. /\ \A u \in Tx : u # t => O'[u] = O[u] /\ A'[u] = A[u] /\ R'[u] = R[u]
        /\ O[t] = Outcome(t) /\ A[t] = Answer(t) /\ R[t] = RanSet(t)
        /\ O'[t] = Outcome(t)' /\ A'[t] = Answer(t)' /\ R'[t] = RanSet(t)'
    BY <2>1 DEF SameView
  <2>3. \A F, G : /\ F = [u \in Tx |-> F[u]] /\ G = [u \in Tx |-> G[u]]
                  /\ \A u \in Tx : u # t => G[u] = F[u]
                  => G = [F EXCEPT ![t] = G[t]]
    OBVIOUS
  <2>4. /\ O = [u \in Tx |-> O[u]] /\ O' = [u \in Tx |-> O'[u]]
        /\ A = [u \in Tx |-> A[u]] /\ A' = [u \in Tx |-> A'[u]]
        /\ R = [u \in Tx |-> R[u]] /\ R' = [u \in Tx |-> R'[u]]
    OBVIOUS
  <2>r. \A u \in Tx : R[u] = RanSet(u)
    OBVIOUS
  <2> HIDE DEF O, A, R
  <2>5. /\ O' = [O EXCEPT ![t] = Outcome(t)'] /\ A' = [A EXCEPT ![t] = Answer(t)']
        /\ R' = [R EXCEPT ![t] = RanSet(t)']
    BY <2>2, <2>3, <2>4
  <2>6. /\ O'[t] = O[t] => O' = O
        /\ A'[t] = A[t] => A' = A
        /\ R'[t] = R[t] => R' = R
    BY <2>2, <2>4
  <2>7. ViewStep(t)
    BY <1>2, OwnView
  <2>8. CASE SameView(t)
    <3>1. O' = O /\ A' = A /\ R' = R
      BY <2>2, <2>6, <2>8 DEF SameView
    <3> QED  BY <3>1
  <2>9. CASE /\ Outcome(t) = "open" /\ Answer(t) = "none"
             /\ Outcome(t)' \in {"committed", "aborted"}
             /\ Answer(t)' = Answer(t) /\ RanSet(t)' = RanSet(t)
    <3>1. /\ O[t] = "open" /\ A[t] = "none" /\ A' = A /\ R' = R
          /\ \E o \in {"committed", "aborted"} : O' = [O EXCEPT ![t] = o]
      BY <2>2, <2>5, <2>6, <2>9
    <3>2. C!Decide(t)
      BY <3>1 DEF C!Decide, O, A, R
    <3> QED  BY <3>2 DEF C!ContractNext
  <2>10. CASE /\ Outcome(t) = "committed" /\ Answer(t) = "none"
              /\ \E c \in Call : /\ \A u \in Tx : c \notin RanSet(u)
                                /\ RanSet(t)' = RanSet(t) \cup {c}
              /\ Outcome(t)' = Outcome(t) /\ Answer(t)' = Answer(t)
    <3>1. PICK c \in Call : (\A u \in Tx : c \notin RanSet(u)) /\ RanSet(t)' = RanSet(t) \cup {c}
      BY <2>10
    <3>2. O[t] = "committed" /\ A[t] = "none" /\ O' = O /\ A' = A
      BY <2>2, <2>6, <2>10
    <3>3. \A u \in Tx : c \notin R[u]
      BY <3>1, <2>r
    <3>4. R[t] = RanSet(t) /\ R' = [R EXCEPT ![t] = RanSet(t)']
      BY <2>2, <2>5
    <3>5. R' = [R EXCEPT ![t] = R[t] \cup {c}]
      BY <3>1, <3>4
    <3>6. C!RunCallback(t)
      BY <3>2, <3>3, <3>5 DEF C!RunCallback, O, A, R
    <3> QED  BY <3>6 DEF C!ContractNext
  <2>11. CASE /\ Outcome(t) = "committed" /\ Answer(t) = "none" /\ Answer(t)' = "nil"
              /\ Outcome(t)' = Outcome(t) /\ RanSet(t)' = RanSet(t)
    <3>1. /\ O[t] = "committed" /\ A[t] = "none" /\ O' = O /\ R' = R
          /\ A' = [A EXCEPT ![t] = "nil"]
      BY <2>2, <2>5, <2>6, <2>11
    <3>2. C!AnswerNil(t)
      BY <3>1 DEF C!AnswerNil, O, A, R
    <3> QED  BY <3>2 DEF C!ContractNext
  <2>12. CASE /\ Answer(t) = "none" /\ Answer(t)' = "error"
              /\ Outcome(t)' = IF Outcome(t) = "open" THEN "aborted" ELSE Outcome(t)
              /\ RanSet(t)' = RanSet(t)
    <3>1. /\ A[t] = "none" /\ A' = [A EXCEPT ![t] = "error"] /\ R' = R
          /\ O' = [O EXCEPT ![t] = IF O[t] = "open" THEN "aborted" ELSE O[t]]
      BY <2>2, <2>5, <2>6, <2>12
    <3>2. C!AnswerError(t)
      BY <3>1 DEF C!AnswerError, O, A, R
    <3> QED  BY <3>2 DEF C!ContractNext
  <2> QED
    BY <2>7, <2>8, <2>9, <2>10, <2>11, <2>12 DEF ViewStep
<1>3. ASSUME UNCHANGED txVars, UNCHANGED vars \/ CallsNext, IInv
      PROVE  UNCHANGED <<O, A, R>>
  <2>1. \A u \in Tx : SameView(u)
    <3>1. CASE CallsNext
      BY <1>3, <3>1, CallsNextIsLocal, ViewKept DEF IInv, TypeInv
    <3>2. CASE UNCHANGED vars
      BY <3>2, ViewKept DEF vars, callVars, txVars, Untouched
    <3> QED  BY <1>3, <3>1, <3>2
  <2> QED  BY <2>1 DEF SameView
<1>4. IInv /\ [Next]_vars => [C!ContractNext]_(C!contract)
  <2> SUFFICES ASSUME IInv, [Next]_vars PROVE C!ContractNext \/ UNCHANGED <<O, A, R>>
    BY DEF C!contract
  <2>1. CASE UNCHANGED vars
    BY <1>3, <2>1 DEF vars
  <2> QED  BY <1>2, <1>3, <2>1 DEF Next
<1> QED
  BY <1>1, <1>4, Inductive, PTL DEF Spec, ImplementsContract, C!Contract
=============================================================================
