---------------------------- MODULE NestingProofs ----------------------------
(***************************************************************************)
(* Proofs about Nesting, for any number of goroutines and connections and  *)
(* any depth of calls inside calls.                                        *)
(***************************************************************************)
EXTENDS Nesting, FiniteSetTheorems, TLAPS

\* Where a call holds a connection; a row is left while its AfterFind runs.
Fits(c) ==
    /\ c.conn => \/ c.op = "InTransaction" /\ c.at \in {"f", "commit", "unwind"}
                 \/ c.op = "SelectAllFrom" /\ c.at \in {"next", "hook"}
                 \/ c.op = "SelectOneTo" /\ c.at = "next"
                 \/ c.op = "Insert" /\ c.at = "exec"
    /\ c.op = "SelectAllFrom" /\ c.at = "hook" => c.rows > 0

\* Calls inside a call were made by the caller's code, where reform calls it.
GoodStack(s) ==
    /\ s \in Seq(Frames) /\ Len(s) <= MaxDepth
    /\ \A i \in 1 .. Len(s) : Fits(s[i])
    /\ \A i \in 1 .. Len(s) : i < Len(s) => s[i].at \in {"f", "calls", "hook"}

StackInv == stack \in [Proc -> Seq(Frames)] /\ \A p \in Proc : GoodStack(stack[p])

PoolInv == free \in Nat /\ free + Cardinality(Held) = PoolSize

NestingInv == StackInv /\ PoolInv

\* The calls of p that hold a connection, if s is its stack.
HeldIn(p, s) == {c \in {p} \X (1 .. MaxDepth) : c[2] <= Len(s) /\ s[c[2]].conn}

-----------------------------------------------------------------------------
LEMMA HeldFinite == IsFiniteSet(Held) /\ Cardinality(Held) \in Nat
<1>1. IsFiniteSet(1 .. MaxDepth)
  BY FS_Interval, NestingAssumption
<1>2. IsFiniteSet(Proc \X (1 .. MaxDepth))
  BY <1>1, FS_Product, NestingAssumption
<1>3. IsFiniteSet(Held)
  BY <1>2, FS_Subset DEF Held
<1> QED  BY <1>3, FS_CardinalityType

\* One goroutine's stack changes: what all hold changes as what it holds.
LEMMA Change ==
    ASSUME StackInv, NEW p \in Proc, NEW s, GoodStack(s),
           stack' = [stack EXCEPT ![p] = s]
    PROVE  /\ StackInv'
           /\ Held' = (Held \ HeldIn(p, stack[p])) \cup HeldIn(p, s)
           /\ HeldIn(p, stack[p]) \subseteq Held
<1>1. stack' \in [Proc -> Seq(Frames)] /\ stack'[p] = s
  BY DEF StackInv, GoodStack
<1>2. \A q \in Proc : q # p => stack'[q] = stack[q]
  BY DEF StackInv
<1>3. StackInv'
  BY <1>1, <1>2 DEF StackInv, GoodStack
<1>4. Held' = (Held \ HeldIn(p, stack[p])) \cup HeldIn(p, s)
  <2>1. ASSUME NEW q \in Proc, NEW i \in 1 .. MaxDepth
        PROVE  <<q, i>> \in Held' <=> <<q, i>> \in (Held \ HeldIn(p, stack[p])) \cup HeldIn(p, s)
    <3>1. CASE q = p
      BY <3>1, <1>1 DEF Held, HeldIn
    <3>2. CASE q # p
      BY <3>2, <1>2 DEF Held, HeldIn
    <3> QED  BY <3>1, <3>2
  <2> QED  BY <2>1 DEF Held, HeldIn
<1>5. HeldIn(p, stack[p]) \subseteq Held
  BY DEF Held, HeldIn
<1> QED  BY <1>3, <1>4, <1>5

\* What the innermost call holds, and those around it.
TopHeld(p, s) == IF s[Len(s)].conn THEN {<<p, Len(s)>>} ELSE {}
Outer(p, s) == {c \in HeldIn(p, s) : c[2] < Len(s)}

LEMMA Innermost ==
    ASSUME NEW p, NEW s \in Seq(Frames), s # << >>, Len(s) <= MaxDepth
    PROVE  /\ HeldIn(p, s) = Outer(p, s) \cup TopHeld(p, s)
           /\ <<p, Len(s)>> \notin Outer(p, s)
<1>1. Len(s) \in 1 .. MaxDepth
  BY NestingAssumption
<1>2. ASSUME NEW i \in 1 .. MaxDepth
      PROVE  <<p, i>> \in HeldIn(p, s) <=> <<p, i>> \in Outer(p, s) \cup TopHeld(p, s)
  <2>1. CASE i = Len(s)
    BY <2>1, <1>1 DEF HeldIn, Outer, TopHeld
  <2>2. CASE i # Len(s)
    BY <2>2, <1>1 DEF HeldIn, Outer, TopHeld
  <2> QED  BY <2>1, <2>2
<1>3. HeldIn(p, s) \subseteq {p} \X (1 .. MaxDepth)
  BY DEF HeldIn
<1>4. Outer(p, s) \cup TopHeld(p, s) \subseteq {p} \X (1 .. MaxDepth)
  BY <1>1, <1>3 DEF Outer, TopHeld
<1>5. <<p, Len(s)>> \notin Outer(p, s)
  BY <1>1 DEF Outer
<1> QED  BY <1>2, <1>3, <1>4, <1>5

-----------------------------------------------------------------------------
\* What giving a connection back, taking one and keeping it does to the pool.

LEMMA Keeps ==
    ASSUME PoolInv, free' = free, Held' = Held
    PROVE  PoolInv'
BY DEF PoolInv

LEMMA GivesBack ==
    ASSUME PoolInv, NEW c, c \in Held, Held' = Held \ {c}, free' = free + 1
    PROVE  PoolInv'
<1>1. Cardinality(Held') = Cardinality(Held) - 1
  BY HeldFinite, FS_RemoveElement
<1> QED  BY <1>1, HeldFinite DEF PoolInv

LEMMA Takes ==
    ASSUME PoolInv, NEW c, c \notin Held, Held' = Held \cup {c}, free > 0, free' = free - 1
    PROVE  PoolInv'
<1>1. Cardinality(Held') = Cardinality(Held) + 1
  BY HeldFinite, FS_AddElement
<1> QED  BY <1>1, HeldFinite DEF PoolInv

\* The frame of the innermost call is replaced.
LEMMA GotoHeld ==
    ASSUME StackInv, NEW p \in Proc, stack[p] # << >>, NEW c \in Frames, Fits(c), Goto(p, c)
    PROVE  /\ StackInv'
           /\ Held' = (Held \ {<<p, Len(stack[p])>>})
                         \cup (IF c.conn THEN {<<p, Len(stack[p])>>} ELSE {})
           /\ <<p, Len(stack[p])>> \in Held <=> Top(p).conn
<1> DEFINE old == stack[p]
           s == [old EXCEPT ![Len(old)] = c]
<1>1. old \in Seq(Frames) /\ Len(old) <= MaxDepth /\ GoodStack(old)
  BY DEF StackInv, GoodStack
<1>2. s \in Seq(Frames) /\ Len(s) = Len(old) /\ s[Len(s)] = c
  BY <1>1
<1>3. \A i \in 1 .. Len(old) : i < Len(old) => s[i] = old[i]
  BY <1>1
<1>4. GoodStack(s)
  BY <1>1, <1>2, <1>3 DEF GoodStack
<1>5. stack' = [stack EXCEPT ![p] = s]
  BY DEF Goto, StackInv
<1>6. /\ StackInv'
      /\ Held' = (Held \ HeldIn(p, old)) \cup HeldIn(p, s)
      /\ HeldIn(p, old) \subseteq Held
  BY <1>4, <1>5, Change
<1>7. Outer(p, s) = Outer(p, old)
  BY <1>1, <1>2, <1>3 DEF Outer, HeldIn
<1>8. /\ HeldIn(p, s) = Outer(p, old) \cup (IF c.conn THEN {<<p, Len(old)>>} ELSE {})
      /\ HeldIn(p, old) = Outer(p, old) \cup TopHeld(p, old)
      /\ <<p, Len(old)>> \notin Outer(p, old)
  BY <1>1, <1>2, <1>7, Innermost DEF TopHeld
<1>9. <<p, Len(old)>> \in Held <=> Top(p).conn
  BY <1>1, NestingAssumption DEF Held, Top
<1>10. TopHeld(p, old) \subseteq {<<p, Len(old)>>}
  BY DEF TopHeld
<1>11. <<p, Len(old)>> \in Held => TopHeld(p, old) = {<<p, Len(old)>>}
  BY <1>9 DEF TopHeld, Top
<1>12. Held' = (Held \ {<<p, Len(old)>>}) \cup (IF c.conn THEN {<<p, Len(old)>>} ELSE {})
  BY <1>6, <1>8, <1>10, <1>11
<1> QED  BY <1>6, <1>9, <1>12

LEMMA GotoKeeps ==
    ASSUME NestingInv, NEW p \in Proc, stack[p] # << >>, NEW c \in Frames, Fits(c), Goto(p, c),
           c.conn = Top(p).conn, free' = free
    PROVE  NestingInv'
<1>1. Held' = Held
  BY GotoHeld DEF NestingInv
<1> QED  BY <1>1, GotoHeld, Keeps DEF NestingInv

LEMMA GotoReleases ==
    ASSUME NestingInv, NEW p \in Proc, stack[p] # << >>, NEW c \in Frames, Fits(c), Goto(p, c),
           c.conn = FALSE, Release(Top(p))
    PROVE  NestingInv'
<1>1. CASE Top(p).conn
  <2>1. Held' = Held \ {<<p, Len(stack[p])>>} /\ <<p, Len(stack[p])>> \in Held
    BY <1>1, GotoHeld DEF NestingInv
  <2> QED  BY <1>1, <2>1, GotoHeld, GivesBack DEF NestingInv, Release
<1>2. CASE ~Top(p).conn
  <2>1. Held' = Held
    BY <1>2, GotoHeld DEF NestingInv
  <2> QED  BY <1>2, <2>1, GotoHeld, Keeps DEF NestingInv, Release
<1> QED  BY <1>1, <1>2

\* The innermost call returns.
LEMMA PopReleases ==
    ASSUME NestingInv, NEW p \in Proc, stack[p] # << >>, Pop(p), Release(Top(p))
    PROVE  NestingInv'
<1> DEFINE old == stack[p]
           s == SubSeq(old, 1, Len(old) - 1)
<1>1. old \in Seq(Frames) /\ Len(old) \in 1 .. MaxDepth /\ GoodStack(old)
  BY NestingAssumption DEF NestingInv, StackInv, GoodStack
<1>2. s \in Seq(Frames) /\ Len(s) = Len(old) - 1 /\ \A i \in 1 .. Len(s) : s[i] = old[i]
  BY <1>1
<1>3. GoodStack(s)
  <2>1. Len(s) <= MaxDepth /\ Len(s) < Len(old)
    BY <1>1, <1>2, NestingAssumption
  <2>2. \A i \in 1 .. Len(s) : i \in 1 .. Len(old) /\ i < Len(old) /\ s[i] = old[i]
    BY <1>1, <1>2
  <2> QED  BY <1>1, <1>2, <2>1, <2>2 DEF GoodStack
<1>4. stack' = [stack EXCEPT ![p] = s]
  BY DEF Pop, NestingInv, StackInv
<1>5. /\ StackInv'
      /\ Held' = (Held \ HeldIn(p, old)) \cup HeldIn(p, s)
      /\ HeldIn(p, old) \subseteq Held
  BY <1>3, <1>4, Change DEF NestingInv
<1>6. HeldIn(p, s) = Outer(p, old)
  BY <1>1, <1>2 DEF Outer, HeldIn
<1>7. /\ HeldIn(p, old) = Outer(p, old) \cup TopHeld(p, old)
      /\ <<p, Len(old)>> \notin Outer(p, old)
  BY <1>1, Innermost
<1>8. CASE Top(p).conn
  <2>1. TopHeld(p, old) = {<<p, Len(old)>>}
    BY <1>8 DEF TopHeld, Top
  <2>2. Held' = Held \ {<<p, Len(old)>>} /\ <<p, Len(old)>> \in Held
    BY <2>1, <1>5, <1>6, <1>7
  <2> QED  BY <1>8, <2>2, <1>5, GivesBack DEF NestingInv, Release
<1>9. CASE ~Top(p).conn
  <2>1. TopHeld(p, old) = {}
    BY <1>9 DEF TopHeld, Top
  <2>2. Held' = Held
    BY <2>1, <1>5, <1>6, <1>7
  <2> QED  BY <1>9, <2>2, <1>5, Keeps DEF NestingInv, Release
<1> QED  BY <1>8, <1>9

\* A call is made: it holds nothing yet, and those around it what they held.
LEMMA Pushes ==
    ASSUME NestingInv, NEW p \in Proc, NEW s, GoodStack(s), stack' = [stack EXCEPT ![p] = s],
           Len(s) = Len(stack[p]) + 1, ~s[Len(s)].conn,
           \A i \in 1 .. Len(stack[p]) : s[i].conn = stack[p][i].conn,
           free' = free
    PROVE  NestingInv'
<1> DEFINE old == stack[p]
<1>1. old \in Seq(Frames) /\ Len(old) \in Nat /\ Len(s) \in Nat
  BY DEF NestingInv, StackInv, GoodStack
<1>2. ASSUME NEW i \in 1 .. MaxDepth
      PROVE  <<p, i>> \in HeldIn(p, s) <=> <<p, i>> \in HeldIn(p, old)
  <2>1. CASE i <= Len(old)
    BY <2>1, <1>1 DEF HeldIn
  <2>2. CASE i > Len(old)
    BY <2>2, <1>1 DEF HeldIn
  <2> QED  BY <2>1, <2>2, <1>1
<1>3. HeldIn(p, s) = HeldIn(p, old)
  BY <1>2 DEF HeldIn
<1>4. StackInv' /\ Held' = Held
  BY <1>3, Change DEF NestingInv
<1> QED  BY <1>4, Keeps DEF NestingInv

LEMMA CallStep ==
    ASSUME NestingInv, NEW p \in Proc, NEW o \in Ops, Call(p, o)
    PROVE  NestingInv'
<1> DEFINE s == <<New(o)>>
<1>1. New(o) \in Frames /\ Fits(New(o)) /\ ~New(o).conn
  BY NestingAssumption DEF New, Frames, Fits, Places, Ops
<1>2. GoodStack(s) /\ Len(s) = 1 /\ s[1] = New(o)
  BY <1>1, NestingAssumption DEF GoodStack
<1>3. Len(s) = Len(stack[p]) + 1 /\ stack' = [stack EXCEPT ![p] = s] /\ free' = free
  BY <1>2 DEF Call
<1>4. ~s[Len(s)].conn /\ \A i \in 1 .. Len(stack[p]) : s[i].conn = stack[p][i].conn
  BY <1>1, <1>2 DEF Call
<1> HIDE DEF s
<1> QED  BY <1>2, <1>3, <1>4, Pushes

LEMMA CallInsideStep ==
    ASSUME NestingInv, NEW p \in Proc, NEW o \in Ops, CallInside(p, o)
    PROVE  NestingInv'
<1> DEFINE old == stack[p]
           n == Len(old)
           c == [Top(p) EXCEPT !.called = TRUE]
           t == [old EXCEPT ![n] = c]
           s == Append(t, New(o))
<1>1. old \in Seq(Frames) /\ n \in 1 .. MaxDepth /\ n < MaxDepth /\ GoodStack(old)
  BY NestingAssumption DEF NestingInv, StackInv, GoodStack, CallInside
<1>2. New(o) \in Frames /\ Fits(New(o)) /\ ~New(o).conn
  BY NestingAssumption DEF New, Frames, Fits, Places, Ops
<1>3. Top(p) \in Frames /\ Fits(Top(p)) /\ Top(p).at \in {"f", "calls", "hook"}
  BY <1>1 DEF Top, GoodStack, CallInside
<1>4. c \in Frames /\ Fits(c) /\ c.at = Top(p).at /\ c.conn = Top(p).conn
  BY <1>3 DEF Frames, Fits
<1>5. t \in Seq(Frames) /\ Len(t) = n /\ t[n] = c /\ \A i \in 1 .. n : i # n => t[i] = old[i]
  BY <1>1, <1>4
<1>6. /\ s \in Seq(Frames) /\ Len(s) = n + 1 /\ s[n + 1] = New(o)
      /\ \A i \in 1 .. n : s[i] = t[i]
  BY <1>1, <1>2, <1>5
<1>7. \A i \in 1 .. n : Fits(s[i]) /\ s[i].at \in {"f", "calls", "hook"} /\ s[i].conn = old[i].conn
  <2>1. ASSUME NEW i \in 1 .. n
        PROVE  Fits(s[i]) /\ s[i].at \in {"f", "calls", "hook"} /\ s[i].conn = old[i].conn
    <3>1. CASE i = n
      BY <3>1, <1>3, <1>4, <1>5, <1>6 DEF Top
    <3>2. CASE i # n
      BY <3>2, <1>1, <1>5, <1>6 DEF GoodStack
    <3> QED  BY <3>1, <3>2
  <2> QED  BY <2>1
<1>8. GoodStack(s)
  <2>1. Len(s) <= MaxDepth /\ \A i \in 1 .. Len(s) : i \in 1 .. n \/ i = n + 1
    BY <1>1, <1>6, NestingAssumption
  <2>2. \A i \in 1 .. Len(s) : i < Len(s) => i \in 1 .. n
    BY <1>1, <1>6
  <2> QED  BY <2>1, <2>2, <1>2, <1>6, <1>7 DEF GoodStack
<1>9. stack' = [stack EXCEPT ![p] = s]
  <2>1. t = [old EXCEPT ![n].called = TRUE]
    BY <1>1 DEF Top
  <2> QED  BY <2>1 DEF CallInside, NestingInv, StackInv
<1>10. Len(s) = Len(stack[p]) + 1 /\ ~s[Len(s)].conn /\ free' = free
  BY <1>1, <1>2, <1>6 DEF CallInside
<1>11. \A i \in 1 .. Len(stack[p]) : s[i].conn = stack[p][i].conn
  BY <1>7
<1> HIDE DEF s
<1> QED  BY <1>8, <1>9, <1>10, <1>11, Pushes

LEMMA ContextEndsStep ==
    ASSUME NestingInv, NEW p \in Proc, NEW i \in 1 .. MaxDepth, ContextEnds(p, i)
    PROVE  NestingInv'
<1> DEFINE old == stack[p]
           c == [old[i] EXCEPT !.conn = FALSE]
           s == [old EXCEPT ![i] = c]
<1>1. old \in Seq(Frames) /\ i \in 1 .. Len(old) /\ GoodStack(old) /\ old[i].conn
  BY DEF NestingInv, StackInv, GoodStack, ContextEnds
<1>2. old[i] \in Frames /\ Fits(old[i])
  BY <1>1 DEF GoodStack
<1>3. c \in Frames /\ Fits(c) /\ c.at = old[i].at /\ ~c.conn
  BY <1>2 DEF Frames, Fits
<1>4. /\ s \in Seq(Frames) /\ Len(s) = Len(old) /\ s[i] = c
      /\ \A j \in 1 .. Len(old) : j # i => s[j] = old[j]
  BY <1>1, <1>3
<1>5. GoodStack(s)
  BY <1>1, <1>3, <1>4 DEF GoodStack
<1>6. stack' = [stack EXCEPT ![p] = s]
  <2>1. s = [old EXCEPT ![i].conn = FALSE]
    BY <1>1
  <2> QED  BY <2>1 DEF ContextEnds, NestingInv, StackInv
<1>7. HeldIn(p, s) = HeldIn(p, old) \ {<<p, i>>}
  <2>1. ASSUME NEW j \in 1 .. MaxDepth
        PROVE  <<p, j>> \in HeldIn(p, s) <=> <<p, j>> \in HeldIn(p, old) \ {<<p, i>>}
    <3>1. CASE j = i
      BY <3>1, <1>3, <1>4 DEF HeldIn
    <3>2. CASE j # i
      BY <3>2, <1>4, <1>1 DEF HeldIn
    <3> QED  BY <3>1, <3>2
  <2> QED  BY <2>1 DEF HeldIn
<1>8. <<p, i>> \in HeldIn(p, old)
  BY <1>1 DEF HeldIn
<1>9. StackInv' /\ Held' = Held \ {<<p, i>>} /\ <<p, i>> \in Held
  BY <1>5, <1>6, <1>7, <1>8, Change DEF NestingInv
<1> QED  BY <1>9, GivesBack DEF NestingInv, ContextEnds

-----------------------------------------------------------------------------
\* The steps of the innermost call.

LEMMA TopGood ==
    ASSUME NestingInv, NEW p \in Proc, stack[p] # << >>
    PROVE  Top(p) \in Frames /\ Fits(Top(p))
BY DEF NestingInv, StackInv, GoodStack, Top

LEMMA AcquireStep ==
    ASSUME NestingInv, NEW p \in Proc, Acquire(p)
    PROVE  NestingInv'
<1> DEFINE c == [Moved(p, CASE Top(p).op = "InTransaction" -> "f"
                            [] Top(p).op = "Insert" -> "exec"
                            [] OTHER -> "next") EXCEPT !.conn = TRUE]
<1>1. stack[p] # << >> /\ Top(p).at = "wait" /\ free > 0 /\ free' = free - 1 /\ Goto(p, c)
  BY DEF Acquire
<1>2. Top(p) \in Frames /\ ~Top(p).conn
  BY <1>1, TopGood DEF Fits, Frames
<1>3. c \in Frames /\ Fits(c) /\ c.conn
  BY <1>2 DEF Frames, Fits, Moved, Places, Ops
<1> HIDE DEF c
<1>4. StackInv' /\ Held' = Held \cup {<<p, Len(stack[p])>>} /\ <<p, Len(stack[p])>> \notin Held
  BY <1>1, <1>2, <1>3, GotoHeld DEF NestingInv
<1> QED  BY <1>1, <1>4, Takes DEF NestingInv

LEMMA WaitEndsStep ==
    ASSUME NestingInv, NEW p \in Proc, WaitEnds(p)
    PROVE  NestingInv'
<1>1. Top(p) \in Frames /\ ~Top(p).conn
  BY TopGood DEF WaitEnds, Fits, Frames
<1> QED  BY <1>1, PopReleases DEF WaitEnds, Release

\* The step of a call that goes to another place and keeps what it holds.
LEMMA MovedKeeps ==
    ASSUME NestingInv, NEW p \in Proc, stack[p] # << >>, NEW place \in Places,
           Fits(Moved(p, place)), Goto(p, Moved(p, place)), free' = free
    PROVE  NestingInv'
<1>1. Moved(p, place) \in Frames /\ Moved(p, place).conn = Top(p).conn
  BY TopGood DEF Moved, Frames
<1> QED  BY <1>1, GotoKeeps

\* The same for one that gives it back.
LEMMA MovedReleases ==
    ASSUME NestingInv, NEW p \in Proc, stack[p] # << >>, NEW place \in Places,
           Top(p).op # "SelectAllFrom",
           Goto(p, [Moved(p, place) EXCEPT !.conn = FALSE]), Release(Top(p))
    PROVE  NestingInv'
<1> DEFINE c == [Moved(p, place) EXCEPT !.conn = FALSE]
<1>1. c \in Frames /\ Fits(c) /\ c.conn = FALSE
  BY TopGood DEF Moved, Frames, Fits
<1> HIDE DEF c
<1>2. Goto(p, c)
  BY DEF c
<1> QED  BY <1>1, <1>2, GotoReleases

LEMMA RunStep ==
    ASSUME NestingInv, NEW p \in Proc, Run(p)
    PROVE  NestingInv'
<1>1. stack[p] # << >> /\ Top(p) \in Frames /\ Fits(Top(p))
  BY TopGood DEF Run, FReturns, Commit, CallsDone, Unwind, NextRow, AfterFind, CloseRows,
                 Scan, OneReturns, BeforeInsert, Exec, At
<1>2. ASSUME NEW place \in Places
      PROVE  Moved(p, place) = [Top(p) EXCEPT !.at = place, !.called = FALSE]
  BY DEF Moved
<1>3. CASE FReturns(p)
  <2>1. Fits(Moved(p, "commit")) /\ Fits(Moved(p, "unwind"))
    BY <1>1, <1>3 DEF FReturns, At, Moved, Fits, Frames
  <2> QED  BY <1>1, <1>3, <2>1, MovedKeeps DEF FReturns, Places
<1>4. CASE Commit(p)
  <2>1. Fits(Moved(p, "unwind"))
    BY <1>1, <1>4 DEF Commit, At, Moved, Fits, Frames
  <2>2. Top(p).op # "SelectAllFrom"
    BY <1>4 DEF Commit, At
  <2>3. CASE Goto(p, [Moved(p, "calls") EXCEPT !.conn = FALSE]) /\ Release(Top(p))
    BY <1>1, <2>2, <2>3, MovedReleases DEF Places
  <2>4. CASE Goto(p, [Moved(p, "unwind") EXCEPT !.conn = FALSE]) /\ Release(Top(p))
    BY <1>1, <2>2, <2>4, MovedReleases DEF Places
  <2>5. CASE Goto(p, Moved(p, "unwind")) /\ UNCHANGED free
    BY <1>1, <2>1, <2>5, MovedKeeps DEF Places
  <2> QED  BY <1>4, <2>3, <2>4, <2>5 DEF Commit
<1>5. CASE CallsDone(p)
  <2>1. Fits(Moved(p, "unwind"))
    BY <1>1, <1>5 DEF CallsDone, At, Moved, Fits, Frames
  <2> QED  BY <1>1, <1>5, <2>1, MovedKeeps DEF CallsDone, Places
<1>6. CASE Unwind(p)
  BY <1>1, <1>6, PopReleases DEF Unwind
<1>7. CASE NextRow(p)
  <2>1. Fits(Moved(p, "hook"))
    BY <1>1, <1>7 DEF NextRow, At, Moved, Fits, Frames
  <2> QED  BY <1>1, <1>7, <2>1, MovedKeeps DEF NextRow, Places
<1>8. CASE AfterFind(p)
  <2> DEFINE c == [Moved(p, "next") EXCEPT !.rows = @ - 1]
  <2>1. Top(p).rows \in 1 .. MaxRows
    BY <1>1, <1>8 DEF AfterFind, At, Fits, Frames
  <2>2. Top(p).op = "SelectAllFrom" /\ Top(p).rows - 1 \in 0 .. MaxRows
    BY <1>8, <2>1, NestingAssumption DEF AfterFind, At
  <2>3. c = [Top(p) EXCEPT !.at = "next", !.called = FALSE, !.rows = Top(p).rows - 1]
    BY <1>1 DEF Moved, Frames
  <2>4. c \in Frames /\ c.conn = Top(p).conn /\ c.op = "SelectAllFrom" /\ c.at = "next"
    BY <1>1, <2>2, <2>3 DEF Frames, Places
  <2>5. Fits(c)
    BY <2>4 DEF Fits
  <2>6. Goto(p, c) /\ free' = free
    BY <1>8 DEF AfterFind
  <2> HIDE DEF c
  <2> QED  BY <1>1, <2>4, <2>5, <2>6, GotoKeeps
<1>9. CASE CloseRows(p)
  BY <1>1, <1>9, PopReleases DEF CloseRows
<1>10. CASE Scan(p)
  <2>1. Top(p).op # "SelectAllFrom" /\ Release(Top(p))
    BY <1>10 DEF Scan, At
  <2>2. CASE Goto(p, [Moved(p, "hook") EXCEPT !.conn = FALSE])
    BY <1>1, <2>1, <2>2, MovedReleases DEF Places
  <2>3. CASE Pop(p)
    BY <1>1, <2>1, <2>3, PopReleases
  <2> QED  BY <1>10, <2>2, <2>3 DEF Scan
<1>11. CASE OneReturns(p)
  BY <1>1, <1>11, PopReleases DEF OneReturns
<1>12. CASE BeforeInsert(p)
  <2>1. ~Top(p).conn /\ Fits(Moved(p, "wait"))
    BY <1>1, <1>12 DEF BeforeInsert, At, Moved, Fits, Frames
  <2>2. CASE Goto(p, Moved(p, "wait"))
    BY <1>1, <1>12, <2>1, <2>2, MovedKeeps DEF BeforeInsert, Places
  <2>3. CASE Pop(p)
    BY <1>1, <1>12, <2>1, <2>3, PopReleases DEF BeforeInsert, Release
  <2> QED  BY <1>12, <2>2, <2>3 DEF BeforeInsert
<1>13. CASE Exec(p)
  BY <1>1, <1>13, PopReleases DEF Exec
<1> QED  BY <1>3, <1>4, <1>5, <1>6, <1>7, <1>8, <1>9, <1>10, <1>11, <1>12, <1>13 DEF Run

-----------------------------------------------------------------------------
LEMMA NestingInit == Init => NestingInv
<1> SUFFICES ASSUME Init PROVE NestingInv
  OBVIOUS
<1>1. GoodStack(<< >>)
  BY NestingAssumption DEF GoodStack
<1>2. StackInv
  BY <1>1 DEF StackInv, Init
<1>3. Held = {}
  BY DEF Held, Init
<1>4. PoolInv
  BY <1>3, FS_EmptySet, NestingAssumption DEF PoolInv, Init
<1> QED  BY <1>2, <1>4 DEF NestingInv

LEMMA NestingStep == NestingInv /\ [Next]_vars => NestingInv'
<1> SUFFICES ASSUME NestingInv, [Next]_vars PROVE NestingInv'
  OBVIOUS
<1>1. CASE UNCHANGED vars
  BY <1>1 DEF vars, NestingInv, StackInv, PoolInv, Held
<1>2. ASSUME NEW p \in Proc, NEW o \in Ops, Call(p, o)
      PROVE  NestingInv'
  BY <1>2, CallStep
<1>3. ASSUME NEW p \in Proc, NEW o \in Ops, CallInside(p, o)
      PROVE  NestingInv'
  BY <1>3, CallInsideStep
<1>4. ASSUME NEW p \in Proc, NEW i \in 1 .. MaxDepth, ContextEnds(p, i)
      PROVE  NestingInv'
  BY <1>4, ContextEndsStep
<1>5. ASSUME NEW p \in Proc, Acquire(p) \/ WaitEnds(p) \/ Run(p)
      PROVE  NestingInv'
  BY <1>5, AcquireStep, WaitEndsStep, RunStep
<1> QED  BY <1>1, <1>2, <1>3, <1>4, <1>5 DEF Next

\* Connections are where calls hold them, and every connection is in the pool
\* or held by one call (db.go:86-113, querier_selects.go:54-120).
THEOREM NestingInvariant == Spec => []NestingInv
<1> QED  BY NestingInit, NestingStep, PTL DEF Spec

\* No connection is lost or given back twice, however calls are nested and
\* however they end (the deferred functions of db.go:93, querier_selects.go:101).
THEOREM NothingLost == Spec => []TypeOK
<1>1. NestingInv => TypeOK
  BY DEF NestingInv, StackInv, PoolInv, GoodStack, TypeOK
<1> QED  BY <1>1, NestingInvariant, PTL

\* A call waits while it holds a connection inside f and inside an AfterFind of
\* SelectAllFrom only (db.go:100, querier_selects.go:110).
THEOREM WaitsHoldingNothingCorrect == Spec => []WaitsHoldingNothing
<1>1. NestingInv => WaitsHoldingNothing
  <2> SUFFICES ASSUME NestingInv, NEW p \in Proc, stack[p] # << >>, Top(p).at = "wait",
                      ~InsideOpen(p), NEW i \in DOMAIN stack[p]
               PROVE  ~stack[p][i].conn
    BY DEF WaitsHoldingNothing
  <2>1. stack[p] \in Seq(Frames) /\ GoodStack(stack[p]) /\ i \in 1 .. Len(stack[p])
    BY DEF NestingInv, StackInv
  <2>2. Fits(stack[p][i])
    BY <2>1 DEF GoodStack
  <2>3. CASE i = Len(stack[p])
    BY <2>2, <2>3 DEF Fits, Top
  <2>4. CASE i < Len(stack[p])
    <3>1. stack[p][i].at \in {"f", "calls", "hook"}
      BY <2>1, <2>4 DEF GoodStack
    <3>2. i \in 1 .. Len(stack[p]) - 1
      BY <2>1, <2>4
    <3> QED  BY <2>2, <3>1, <3>2 DEF Fits, InsideOpen
  <2> QED  BY <2>1, <2>3, <2>4
<1> QED  BY <1>1, NestingInvariant, PTL
=============================================================================
