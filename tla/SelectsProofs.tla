---------------------------- MODULE SelectsProofs ----------------------------
(***************************************************************************)
(* Proofs about Selects, for any number of goroutines, connections and     *)
(* rows.                                                                   *)
(***************************************************************************)
EXTENDS Selects, FiniteSetTheorems, TLAPS

\* The variables' types, without the size of the pool.
Types ==
    /\ pc \in [Proc -> PCs] /\ op \in [Proc -> Ops]
    /\ size \in [Proc -> 0 .. MaxRows]
    /\ read \in [Proc -> 0 .. MaxRows] /\ got \in [Proc -> 0 .. MaxRows]
    /\ open \in [Proc -> BOOLEAN]
    /\ rowsErr \in [Proc -> Errs] /\ err \in [Proc -> Errs] /\ hook \in [Proc -> Errs]

\* sql.Rows: closed by something other than their end, they say so.
Rows(p) ==
    /\ open[p] => pc[p] \in {"next", "hook", "close"} /\ rowsErr[p] = "nil"
    /\ pc[p] \in {"idle", "query"} => rowsErr[p] = "nil"
    /\ pc[p] = "next" /\ ~open[p] => rowsErr[p] # "nil"
    /\ pc[p] = "hook" /\ ~open[p] => rowsErr[p] # "nil" \/ op[p] \in Single
    /\ rowsErr[p] \in {"nil", "ctxErr", "driverErr"}

\* How far a selector has come: every row but the one in the hook is handed on;
\* a single row is in the struct before its hook runs.
Progress(p) ==
    /\ pc[p] \in {"idle", "query"} => read[p] = 0 /\ got[p] = 0
    /\ pc[p] \in {"idle", "query", "next", "hook"} => hook[p] = "nil"
    /\ pc[p] = "next" => got[p] = read[p] /\ (op[p] \in Single => read[p] = 0)
    /\ pc[p] = "hook" => IF op[p] \in Single THEN got[p] = 1 ELSE read[p] = got[p] + 1
    /\ op[p] \in Single /\ got[p] # 0 => size[p] > 0

\* What it is about to return, before SelectAllFrom forgets ErrNoRows.
Answer(p) ==
    /\ pc[p] = "close" /\ op[p] = "SelectAllFrom" =>
          err[p] # "nil" /\ (err[p] = "noRows" /\ hook[p] # "noRows" => got[p] = size[p])
    /\ pc[p] \in {"close", "returned"} /\ op[p] = "SelectOneTo" =>
          /\ err[p] = "nil" => got[p] = 1 /\ hook[p] = "nil"
          /\ err[p] = "noRows" /\ hook[p] # "noRows" => size[p] = 0 /\ got[p] = 0
          /\ hook[p] # "nil" => err[p] = hook[p] /\ got[p] = 1
    /\ pc[p] = "returned" /\ op[p] = "SelectAllFrom" =>
          err[p] # "noRows" /\ (err[p] = "nil" /\ hook[p] # "noRows" => got[p] = size[p])

Sound(p) == Rows(p) /\ Progress(p) /\ Answer(p)

SelectsInv == Types /\ \A p \in Proc : Sound(p)

\* Goroutine p has moved, and no other.
Only(p) ==
    \A q \in Proc \ {p} :
        /\ pc'[q] = pc[q] /\ op'[q] = op[q] /\ size'[q] = size[q]
        /\ read'[q] = read[q] /\ got'[q] = got[q] /\ open'[q] = open[q]
        /\ rowsErr'[q] = rowsErr[q] /\ err'[q] = err[q] /\ hook'[q] = hook[q]

-----------------------------------------------------------------------------

LEMMA OnlyInv ==
  ASSUME SelectsInv, NEW p \in Proc, Types', Only(p), Sound(p)'
  PROVE  SelectsInv'
<1>1. ASSUME NEW q \in Proc, q # p PROVE Sound(q)'
  BY <1>1 DEF SelectsInv, Only, Sound, Rows, Progress, Answer
<1> QED  BY <1>1 DEF SelectsInv

LEMMA CallInv == ASSUME SelectsInv, NEW p \in Proc, NEW o \in Ops, Call(p, o) PROVE SelectsInv'
<1>1. Types /\ Sound(p)
  BY DEF SelectsInv
<1>2. Types'
  BY <1>1 DEF Types, Call, PCs
<1>3. Only(p)
  BY <1>1 DEF Types, Only, Call
<1>4. Sound(p)'
  BY <1>1 DEF Types, Sound, Rows, Progress, Answer, Call
<1> QED  BY <1>2, <1>3, <1>4, OnlyInv

LEMMA QueryInv ==
  ASSUME SelectsInv, NEW p \in Proc, QuerySucceeds(p) \/ QueryFails(p)
  PROVE  SelectsInv'
<1>1. Types /\ Sound(p)
  BY DEF SelectsInv
<1>2. CASE QuerySucceeds(p)
  <2>1. PICK n \in 0 .. MaxRows : size' = [size EXCEPT ![p] = n]
    BY <1>2 DEF QuerySucceeds
  <2>2. /\ pc[p] = "query" /\ pc' = [pc EXCEPT ![p] = "next"]
        /\ open' = [open EXCEPT ![p] = TRUE]
        /\ UNCHANGED <<op, read, got, rowsErr, err, hook>>
    BY <1>2 DEF QuerySucceeds, Go
  <2>3. Types'
    BY <1>1, <2>1, <2>2 DEF Types, PCs
  <2>4. Only(p)
    BY <1>1, <2>1, <2>2 DEF Types, Only
  <2>5. Sound(p)'
    BY <1>1, <2>1, <2>2 DEF Types, Sound, Rows, Progress, Answer
  <2> QED  BY <2>3, <2>4, <2>5, OnlyInv
<1>3. CASE QueryFails(p)
  <2>1. PICK e \in {"ctxErr", "driverErr"} : err' = [err EXCEPT ![p] = e]
    BY <1>3 DEF QueryFails, Ends
  <2>2. /\ pc[p] = "query" /\ pc' = [pc EXCEPT ![p] = "returned"]
        /\ UNCHANGED <<op, size, read, got, open, rowsErr, hook>>
    BY <1>3 DEF QueryFails, Go
  <2>3. Types'
    BY <1>1, <2>1, <2>2 DEF Types, PCs, Errs
  <2>4. Only(p)
    BY <1>1, <2>1, <2>2 DEF Types, Only
  <2>5. Sound(p)'
    BY <1>1, <2>1, <2>2 DEF Types, Sound, Rows, Progress, Answer
  <2> QED  BY <2>3, <2>4, <2>5, OnlyInv
<1> QED  BY <1>2, <1>3

\* Closing rows leaves them closed; the first error stays.
LEMMA CloseRowsTypes ==
  ASSUME Types, NEW p \in Proc, NEW e \in {"nil", "ctxErr", "driverErr"}, CloseRows(p, e)
  PROVE  /\ open' \in [Proc -> BOOLEAN] /\ rowsErr' \in [Proc -> Errs]
         /\ open'[p] = FALSE /\ rowsErr'[p] = IF open[p] THEN e ELSE rowsErr[p]
         /\ \A q \in Proc \ {p} : open'[q] = open[q] /\ rowsErr'[q] = rowsErr[q]
  BY DEF Types, CloseRows, Errs

LEMMA ContextEndsInv == ASSUME SelectsInv, NEW p \in Proc, ContextEnds(p) PROVE SelectsInv'
<1>1. Types /\ Sound(p) /\ CloseRows(p, "ctxErr") /\ open[p]
      /\ UNCHANGED <<pc, op, size, read, got, err, hook>>
  BY DEF SelectsInv, ContextEnds
<1>2. /\ open' \in [Proc -> BOOLEAN] /\ rowsErr' \in [Proc -> Errs]
      /\ open'[p] = FALSE /\ rowsErr'[p] = "ctxErr"
      /\ \A q \in Proc \ {p} : open'[q] = open[q] /\ rowsErr'[q] = rowsErr[q]
  BY <1>1, CloseRowsTypes
<1>3. Types' /\ Only(p)
  BY <1>1, <1>2 DEF Types, Only
<1>4. Sound(p)'
  BY <1>1, <1>2 DEF Sound, Rows, Progress, Answer
<1> QED  BY <1>3, <1>4, OnlyInv

LEMMA NextEndsInv == ASSUME SelectsInv, NEW p \in Proc, NextEnds(p) PROVE SelectsInv'
<1>1. /\ Types /\ Sound(p) /\ pc[p] = "next" /\ Go(p, "close")
      /\ Ends(p, IF rowsErr'[p] = "nil" THEN "noRows" ELSE rowsErr'[p])
      /\ UNCHANGED <<op, size, read, got, hook>>
  BY DEF SelectsInv, NextEnds
<1>2. /\ open' \in [Proc -> BOOLEAN] /\ rowsErr' \in [Proc -> Errs]
      /\ open'[p] = FALSE
      /\ rowsErr'[p] \in {"nil", "ctxErr", "driverErr"}
      /\ rowsErr'[p] = "nil" => read[p] = size[p]
      /\ \A q \in Proc \ {p} : open'[q] = open[q] /\ rowsErr'[q] = rowsErr[q]
  <2>1. CASE ~open[p] /\ UNCHANGED <<open, rowsErr>>
    BY <1>1, <2>1 DEF Types, Sound, Rows
  <2>2. CASE open[p] /\ read[p] = size[p] /\ CloseRows(p, "nil")
    BY <1>1, <2>2, CloseRowsTypes
  <2>3. CASE open[p] /\ CloseRows(p, "driverErr")
    BY <1>1, <2>3, CloseRowsTypes
  <2> QED  BY <2>1, <2>2, <2>3 DEF NextEnds
<1>3. /\ err' \in [Proc -> Errs]
      /\ err'[p] = IF rowsErr'[p] = "nil" THEN "noRows" ELSE rowsErr'[p]
      /\ \A q \in Proc \ {p} : err'[q] = err[q]
  BY <1>1, <1>2 DEF Types, Ends, Errs
<1>4. pc' \in [Proc -> PCs] /\ pc'[p] = "close" /\ \A q \in Proc \ {p} : pc'[q] = pc[q]
  BY <1>1 DEF Types, Go, PCs
<1>5. Types' /\ Only(p)
  BY <1>1, <1>2, <1>3, <1>4 DEF Types, Only
<1>6. Sound(p)'
  <2>1. Rows(p)' /\ Progress(p)'
    BY <1>1, <1>2, <1>4 DEF Sound, Rows, Progress
  <2>2. got[p] = read[p] /\ (op[p] \in Single => got[p] = 0) /\ hook[p] = "nil"
    BY <1>1 DEF Sound, Progress
  <2>3. Answer(p)'
    BY <1>1, <1>2, <1>3, <1>4, <2>2 DEF Answer, Single
  <2> QED  BY <2>1, <2>3 DEF Sound
<1> QED  BY <1>5, <1>6, OnlyInv

\* Where a goroutine is, and what it is about to return, after a step.
LEMMA GoTypes ==
  ASSUME Types, NEW p \in Proc, NEW where \in PCs, Go(p, where)
  PROVE  /\ pc' \in [Proc -> PCs] /\ pc'[p] = where
         /\ \A q \in Proc \ {p} : pc'[q] = pc[q]
  BY DEF Types, Go

LEMMA EndsTypes ==
  ASSUME Types, NEW p \in Proc, NEW e \in Errs, Ends(p, e)
  PROVE  /\ err' \in [Proc -> Errs] /\ err'[p] = e
         /\ \A q \in Proc \ {p} : err'[q] = err[q]
  BY DEF Types, Ends

\* A row is scanned: one more of those there are.
LEMMA ReadTypes ==
  ASSUME Types, NEW p \in Proc, read[p] < size[p], read' = [read EXCEPT ![p] = read[p] + 1]
  PROVE  /\ read' \in [Proc -> 0 .. MaxRows] /\ read'[p] = read[p] + 1
         /\ \A q \in Proc \ {p} : read'[q] = read[q]
<1>1. read[p] \in 0 .. MaxRows /\ size[p] \in 0 .. MaxRows
  BY DEF Types
<1>2. read[p] + 1 \in 0 .. MaxRows
  BY <1>1, RowsAssumption
<1> QED  BY <1>2 DEF Types

LEMMA FillTypes ==
  ASSUME Types, NEW p \in Proc, Fill(p)
  PROVE  /\ got' \in [Proc -> 0 .. MaxRows] /\ got'[p] = 1
         /\ \A q \in Proc \ {p} : got'[q] = got[q]
  BY RowsAssumption DEF Types, Fill

LEMMA NextScansInv ==
  ASSUME SelectsInv, NEW p \in Proc, NextScans(p) \/ ScanFailsToClose(p)
  PROVE  SelectsInv'
<1>1. /\ Types /\ Sound(p) /\ pc[p] = "next" /\ open[p]
      /\ UNCHANGED <<op, size, hook>>
  BY DEF SelectsInv, NextScans, ScanFailsToClose
<1>2. /\ read' \in [Proc -> 0 .. MaxRows] /\ read'[p] = read[p] + 1
      /\ \A q \in Proc \ {p} : read'[q] = read[q]
  BY <1>1, ReadTypes DEF NextScans, ScanFailsToClose
<1>3. /\ "scanErr" \in Errs /\ "driverErr" \in Errs
      /\ "close" \in PCs /\ "hook" \in PCs
  BY DEF Errs, PCs
<1>4. /\ got[p] = read[p] /\ (op[p] \in Single => got[p] = 0)
      /\ hook[p] = "nil" /\ rowsErr[p] = "nil"
      /\ size[p] > 0
  <2>1. /\ got[p] = read[p] /\ (op[p] \in Single => got[p] = 0)
        /\ hook[p] = "nil" /\ rowsErr[p] = "nil"
    BY <1>1 DEF Sound, Progress, Rows
  <2>2. read[p] < size[p] /\ read[p] \in 0 .. MaxRows /\ size[p] \in 0 .. MaxRows
    BY <1>1 DEF NextScans, ScanFailsToClose, Types
  <2> QED  BY <2>1, <2>2, RowsAssumption
<1>5. CASE /\ Ends(p, "scanErr") /\ Go(p, "close") /\ UNCHANGED <<open, rowsErr>>
           /\ UNCHANGED got \/ (op[p] \in Single /\ Fill(p))
  <2>1. /\ got' \in [Proc -> 0 .. MaxRows]
        /\ op[p] \notin Single => got'[p] = got[p]
        /\ \A q \in Proc \ {p} : got'[q] = got[q]
    BY <1>1, <1>5, FillTypes DEF Types
  <2>2. /\ pc' \in [Proc -> PCs] /\ pc'[p] = "close" /\ \A q \in Proc \ {p} : pc'[q] = pc[q]
        /\ err' \in [Proc -> Errs] /\ err'[p] = "scanErr" /\ \A q \in Proc \ {p} : err'[q] = err[q]
    BY <1>1, <1>3, <1>5, GoTypes, EndsTypes
  <2>3. Types' /\ Only(p)
    BY <1>1, <1>2, <1>5, <2>1, <2>2 DEF Types, Only
  <2>4. Sound(p)'
    BY <1>1, <1>2, <1>4, <1>5, <2>1, <2>2 DEF Sound, Rows, Progress, Answer, Single
  <2> QED  BY <2>3, <2>4, OnlyInv
<1>6. CASE Go(p, "hook") /\ UNCHANGED err
           /\ IF op[p] \in Single THEN Fill(p) /\ CloseRows(p, "nil")
                                  ELSE UNCHANGED <<got, open, rowsErr>>
  <2>1. /\ open' \in [Proc -> BOOLEAN] /\ rowsErr' \in [Proc -> Errs]
        /\ rowsErr'[p] = "nil" /\ open'[p] \in BOOLEAN
        /\ \A q \in Proc \ {p} : open'[q] = open[q] /\ rowsErr'[q] = rowsErr[q]
        /\ got' \in [Proc -> 0 .. MaxRows]
        /\ got'[p] = IF op[p] \in Single THEN 1 ELSE got[p]
        /\ \A q \in Proc \ {p} : got'[q] = got[q]
    <3>1. CASE op[p] \in Single
      BY <1>1, <1>4, <1>6, <3>1, CloseRowsTypes, FillTypes
    <3>2. CASE op[p] \notin Single
      BY <1>1, <1>4, <1>6, <3>2 DEF Types
    <3> QED  BY <3>1, <3>2
  <2>2. pc' \in [Proc -> PCs] /\ pc'[p] = "hook" /\ \A q \in Proc \ {p} : pc'[q] = pc[q]
    BY <1>1, <1>3, <1>6, GoTypes
  <2>3. Types' /\ Only(p)
    BY <1>1, <1>2, <1>6, <2>1, <2>2 DEF Types, Only
  <2>4. open'[p] \/ op[p] \in Single
    BY <1>1, <1>6
  <2>5. Rows(p)'
    BY <1>1, <2>1, <2>2, <2>4 DEF Rows
  <2>6. Progress(p)' /\ Answer(p)'
    BY <1>1, <1>2, <1>4, <2>1, <2>2 DEF Progress, Answer
  <2> QED  BY <2>3, <2>5, <2>6, OnlyInv DEF Sound
<1>7. CASE ScanFailsToClose(p)
  <2>1. /\ CloseRows(p, "driverErr") /\ Ends(p, "driverErr") /\ Go(p, "close")
        /\ op[p] \in Single /\ Fill(p)
    BY <1>7 DEF ScanFailsToClose
  <2>2. /\ open' \in [Proc -> BOOLEAN] /\ rowsErr' \in [Proc -> Errs]
        /\ open'[p] = FALSE /\ rowsErr'[p] = "driverErr"
        /\ \A q \in Proc \ {p} : open'[q] = open[q] /\ rowsErr'[q] = rowsErr[q]
    BY <1>1, <2>1, CloseRowsTypes
  <2>3. /\ pc' \in [Proc -> PCs] /\ pc'[p] = "close" /\ \A q \in Proc \ {p} : pc'[q] = pc[q]
        /\ err' \in [Proc -> Errs] /\ err'[p] = "driverErr" /\ \A q \in Proc \ {p} : err'[q] = err[q]
    BY <1>1, <1>3, <2>1, GoTypes, EndsTypes
  <2>4. /\ got' \in [Proc -> 0 .. MaxRows] /\ got'[p] = 1
        /\ \A q \in Proc \ {p} : got'[q] = got[q]
    BY <1>1, <2>1, FillTypes
  <2>5. Types' /\ Only(p)
    BY <1>1, <1>2, <2>2, <2>3, <2>4 DEF Types, Only
  <2>6. Sound(p)'
    BY <1>1, <1>2, <1>4, <2>1, <2>2, <2>3, <2>4 DEF Sound, Rows, Progress, Answer, Single
  <2> QED  BY <2>5, <2>6, OnlyInv
<1> QED  BY <1>5, <1>6, <1>7 DEF NextScans

LEMMA AfterFindInv == ASSUME SelectsInv, NEW p \in Proc, AfterFind(p) PROVE SelectsInv'
<1>1. /\ Types /\ Sound(p) /\ pc[p] = "hook" /\ UNCHANGED <<op, size, read, open, rowsErr>>
      /\ hook' = [hook EXCEPT ![p] = "nil"]
      /\ "nil" \in Errs /\ "close" \in PCs /\ "next" \in PCs
  BY DEF SelectsInv, AfterFind, Errs, PCs
<1>2. /\ hook' \in [Proc -> Errs] /\ hook'[p] = "nil"
      /\ \A q \in Proc \ {p} : hook'[q] = hook[q]
  BY <1>1 DEF Types
<1>3. CASE op[p] \in Single
  <2>1. Ends(p, "nil") /\ Go(p, "close") /\ UNCHANGED got
    BY <1>3 DEF AfterFind
  <2>2. /\ pc' \in [Proc -> PCs] /\ pc'[p] = "close" /\ \A q \in Proc \ {p} : pc'[q] = pc[q]
        /\ err' \in [Proc -> Errs] /\ err'[p] = "nil" /\ \A q \in Proc \ {p} : err'[q] = err[q]
    BY <1>1, <2>1, GoTypes, EndsTypes
  <2>3. Types' /\ Only(p)
    BY <1>1, <1>2, <2>1, <2>2 DEF Types, Only
  <2>4. got'[p] = 1
    BY <1>1, <1>3, <2>1 DEF Sound, Progress
  <2>5. Sound(p)'
    BY <1>1, <1>2, <1>3, <2>1, <2>2, <2>4 DEF Sound, Rows, Progress, Answer, Single
  <2> QED  BY <2>3, <2>5, OnlyInv
<1>4. CASE op[p] \notin Single
  <2>1. UNCHANGED err /\ Go(p, "next") /\ got' = [got EXCEPT ![p] = got[p] + 1]
    BY <1>4 DEF AfterFind, Collect
  <2>2. got[p] + 1 = read[p] /\ read[p] \in 0 .. MaxRows
    BY <1>1, <1>4 DEF Types, Sound, Progress
  <2>3. /\ got' \in [Proc -> 0 .. MaxRows] /\ got'[p] = read[p]
        /\ \A q \in Proc \ {p} : got'[q] = got[q]
    BY <1>1, <2>1, <2>2 DEF Types
  <2>4. pc' \in [Proc -> PCs] /\ pc'[p] = "next" /\ \A q \in Proc \ {p} : pc'[q] = pc[q]
    BY <1>1, <2>1, GoTypes
  <2>5. Types' /\ Only(p)
    BY <1>1, <1>2, <2>1, <2>3, <2>4 DEF Types, Only
  <2>6. Rows(p)'
    BY <1>1, <1>4, <2>4 DEF Sound, Rows
  <2>7. Progress(p)' /\ Answer(p)'
    BY <1>1, <1>2, <1>4, <2>3, <2>4 DEF Progress, Answer
  <2> QED  BY <2>5, <2>6, <2>7, OnlyInv DEF Sound
<1> QED  BY <1>3, <1>4

LEMMA AfterFindFailsInv == ASSUME SelectsInv, NEW p \in Proc, AfterFindFails(p) PROVE SelectsInv'
<1>1. PICK e \in {"noRows", "hookErr", "panic"} : Ends(p, e) /\ hook' = [hook EXCEPT ![p] = e]
  BY DEF AfterFindFails
<1>2. /\ Types /\ Sound(p) /\ pc[p] = "hook" /\ Go(p, "close")
      /\ UNCHANGED <<op, size, read, got, open, rowsErr>>
      /\ e \in Errs /\ e # "nil" /\ "close" \in PCs
  BY DEF SelectsInv, AfterFindFails, Errs, PCs
<1>3. /\ pc' \in [Proc -> PCs] /\ pc'[p] = "close" /\ \A q \in Proc \ {p} : pc'[q] = pc[q]
      /\ err' \in [Proc -> Errs] /\ err'[p] = e /\ \A q \in Proc \ {p} : err'[q] = err[q]
  BY <1>1, <1>2, GoTypes, EndsTypes
<1>4. hook' \in [Proc -> Errs] /\ hook'[p] = e /\ \A q \in Proc \ {p} : hook'[q] = hook[q]
  BY <1>1, <1>2 DEF Types
<1>5. Types' /\ Only(p)
  BY <1>2, <1>3, <1>4 DEF Types, Only
<1>6. Sound(p)'
  BY <1>2, <1>3, <1>4 DEF Sound, Rows, Progress, Answer, Single
<1> QED  BY <1>5, <1>6, OnlyInv

LEMMA CallerStopsInv == ASSUME SelectsInv, NEW p \in Proc, CallerStops(p) PROVE SelectsInv'
<1>1. /\ Types /\ Sound(p) /\ pc[p] = "next" /\ op[p] = "SelectRows"
      /\ Ends(p, "nil") /\ Go(p, "close")
      /\ UNCHANGED <<op, size, read, got, open, rowsErr, hook>>
      /\ "nil" \in Errs /\ "close" \in PCs
  BY DEF SelectsInv, CallerStops, Errs, PCs
<1>2. /\ pc' \in [Proc -> PCs] /\ pc'[p] = "close" /\ \A q \in Proc \ {p} : pc'[q] = pc[q]
      /\ err' \in [Proc -> Errs] /\ err'[p] = "nil" /\ \A q \in Proc \ {p} : err'[q] = err[q]
  BY <1>1, GoTypes, EndsTypes
<1>3. Types' /\ Only(p)
  BY <1>1, <1>2 DEF Types, Only
<1>4. Sound(p)'
  BY <1>1, <1>2 DEF Sound, Rows, Progress, Answer
<1> QED  BY <1>3, <1>4, OnlyInv

LEMMA ReturnsInv == ASSUME SelectsInv, NEW p \in Proc, Returns(p) PROVE SelectsInv'
<1> DEFINE e == IF op[p] = "SelectAllFrom" /\ err[p] = "noRows" THEN "nil" ELSE err[p]
<1>1. /\ Types /\ Sound(p) /\ pc[p] = "close" /\ Go(p, "returned")
      /\ UNCHANGED <<op, size, read, got, hook>>
      /\ "driverErr" \in Errs /\ "returned" \in PCs /\ e \in Errs
  BY DEF SelectsInv, Returns, Errs, PCs, Types
<1>2. PICK x \in {e, "driverErr"} :
         /\ Ends(p, x)
         /\ CloseRows(p, "nil") \/ CloseRows(p, "driverErr")
         /\ op[p] # "SelectAllFrom" => x = err[p]
         /\ op[p] = "SelectAllFrom" /\ x = "nil" => err[p] \in {"nil", "noRows"}
         /\ op[p] = "SelectAllFrom" => x # "noRows"
  BY DEF Returns
<1> HIDE DEF e
<1>3. /\ open' \in [Proc -> BOOLEAN] /\ rowsErr' \in [Proc -> Errs]
      /\ open'[p] = FALSE /\ rowsErr'[p] \in {"nil", "ctxErr", "driverErr"}
      /\ \A q \in Proc \ {p} : open'[q] = open[q] /\ rowsErr'[q] = rowsErr[q]
  BY <1>1, <1>2, CloseRowsTypes DEF Sound, Rows
<1>4. /\ pc' \in [Proc -> PCs] /\ pc'[p] = "returned" /\ \A q \in Proc \ {p} : pc'[q] = pc[q]
      /\ err' \in [Proc -> Errs] /\ err'[p] = x /\ \A q \in Proc \ {p} : err'[q] = err[q]
  BY <1>1, <1>2, GoTypes, EndsTypes
<1>5. Types' /\ Only(p)
  BY <1>1, <1>3, <1>4 DEF Types, Only
<1>6. Rows(p)' /\ Progress(p)'
  BY <1>1, <1>3, <1>4 DEF Sound, Rows, Progress
<1>7. Answer(p)'
  BY <1>1, <1>2, <1>4 DEF Sound, Answer
<1> QED  BY <1>5, <1>6, <1>7, OnlyInv DEF Sound

-----------------------------------------------------------------------------

LEMMA SelectsInit == Init => SelectsInv
<1> SUFFICES ASSUME Init PROVE SelectsInv
  OBVIOUS
<1>1. Types
  BY RowsAssumption DEF Init, Types, PCs, Ops, Errs
<1>2. \A p \in Proc : Sound(p)
  BY DEF Init, Sound, Rows, Progress, Answer
<1> QED  BY <1>1, <1>2 DEF SelectsInv

LEMMA SelectsNext == ASSUME SelectsInv, [Next]_vars PROVE SelectsInv'
<1>1. CASE UNCHANGED vars
  BY <1>1 DEF vars, SelectsInv, Types, Sound, Rows, Progress, Answer
<1> QED
  BY <1>1, CallInv, QueryInv, ContextEndsInv, NextEndsInv, NextScansInv, AfterFindInv,
     AfterFindFailsInv, CallerStopsInv, ReturnsInv DEF Next, Step

\* SelectsInv holds in every reachable state.
THEOREM SelectsInvariant == Spec => []SelectsInv
  BY SelectsInit, SelectsNext, PTL DEF Spec

\* A selector that has returned holds no connection.
THEOREM RowsClosedCorrect == Spec => []RowsClosed
<1>1. SelectsInv => RowsClosed
  BY DEF SelectsInv, Sound, Rows, RowsClosed, Returned
<1> QED  BY <1>1, SelectsInvariant, PTL

\* SelectAllFrom never returns ErrNoRows, and nil only with all rows.
THEOREM NilMeansAllCorrect == Spec => []NilMeansAll
<1>1. SelectsInv => NilMeansAll
  BY DEF SelectsInv, Sound, Answer, NilMeansAll, Returned
<1> QED  BY <1>1, SelectsInvariant, PTL

\* SelectOneTo returns nil only with a row in the struct that AfterFind has let
\* through, ErrNoRows only with the struct untouched, and passes on whatever
\* AfterFind refuses with.
THEOREM OneRowOrErrorCorrect == Spec => []OneRowOrError
<1>1. SelectsInv => OneRowOrError
  BY DEF SelectsInv, Sound, Progress, Answer, OneRowOrError, Returned, Single
<1> QED  BY <1>1, SelectsInvariant, PTL

-----------------------------------------------------------------------------
\* The pool: no goroutine opens rows unless a connection is free.

PoolOK == Cardinality(Busy) <= PoolSize

LEMMA BusyFinite == IsFiniteSet(Busy) /\ Cardinality(Busy) \in Nat
<1>1. Busy \in SUBSET Proc
  BY DEF Busy
<1>2. IsFiniteSet(Busy)
  BY <1>1, ProcAssumption, FS_Subset
<1> QED  BY <1>2, FS_CardinalityType

LEMMA FewerBusy ==
  ASSUME PoolOK, Busy' \in SUBSET Busy
  PROVE  PoolOK'
<1>1. Cardinality(Busy') <= Cardinality(Busy) /\ IsFiniteSet(Busy')
  BY BusyFinite, FS_Subset
<1>2. Cardinality(Busy') \in Nat
  BY <1>1, FS_CardinalityType
<1> QED  BY <1>1, <1>2, BusyFinite, PoolAssumption DEF PoolOK

LEMMA PoolNext == ASSUME Types, PoolOK, [Next]_vars PROVE PoolOK'
<1>1. ASSUME NEW p \in Proc, QuerySucceeds(p) PROVE PoolOK'
  <2>1. Busy' = Busy \cup {p}
    BY <1>1 DEF Types, QuerySucceeds, Busy
  <2>2. Cardinality(Busy \cup {p}) = IF p \in Busy THEN Cardinality(Busy) ELSE Cardinality(Busy) + 1
    BY BusyFinite, FS_AddElement
  <2>3. Cardinality(Busy) < PoolSize
    BY <1>1 DEF QuerySucceeds
  <2> QED  BY <2>1, <2>2, <2>3, BusyFinite, PoolAssumption DEF PoolOK
<1>2. ASSUME \A q \in Proc : open'[q] => open[q] PROVE PoolOK'
  BY <1>2, FewerBusy DEF Busy
<1>3. ASSUME NEW p \in Proc, NEW e, CloseRows(p, e) PROVE PoolOK'
  BY <1>2, <1>3 DEF CloseRows, Types
<1>4. CASE UNCHANGED open
  BY <1>2, <1>4
<1>5. ASSUME NEW p \in Proc,
             ContextEnds(p) \/ NextEnds(p) \/ NextScans(p) \/ ScanFailsToClose(p) \/ Returns(p)
      PROVE  PoolOK'
  BY <1>3, <1>4, <1>5 DEF ContextEnds, NextEnds, NextScans, ScanFailsToClose, Returns
<1>6. ASSUME NEW p \in Proc,
             \/ \E o \in Ops : Call(p, o)
             \/ QueryFails(p) \/ AfterFind(p) \/ AfterFindFails(p) \/ CallerStops(p)
      PROVE  PoolOK'
  BY <1>4, <1>6 DEF Call, QueryFails, AfterFind, AfterFindFails, CallerStops
<1> QED  BY <1>1, <1>4, <1>5, <1>6 DEF Next, Step, vars

\* Every variable keeps its type, and the pool is never exceeded.
THEOREM TypesAndPoolCorrect == Spec => []TypeOK
<1>1. Init => PoolOK
  <2> SUFFICES ASSUME Init PROVE PoolOK
    OBVIOUS
  <2>1. Busy = {}
    BY DEF Init, Busy
  <2> QED  BY <2>1, FS_EmptySet, PoolAssumption DEF PoolOK
<1>2. SelectsInv /\ PoolOK /\ [Next]_vars => PoolOK'
  BY PoolNext DEF SelectsInv
<1>3. SelectsInv /\ PoolOK => TypeOK
  BY DEF SelectsInv, Types, PoolOK, TypeOK
<1> QED  BY <1>1, <1>2, <1>3, SelectsInvariant, PTL DEF Spec
=============================================================================
