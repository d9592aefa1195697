---------------------------- MODULE RoutingProofs ----------------------------
(***************************************************************************)
(* Proofs about Routing, for any number of Queriers, replicas and writes.  *)
(*                                                                         *)
(* What keeps a Querier from going back in time is that it has seen no     *)
(* more than its own connection has applied, and that its statements go    *)
(* nowhere else once it has no replicas to choose from.                    *)
(***************************************************************************)
EXTENDS Routing, TLAPS

Ordered == \A r \in Replica : applied[r] <= applied[Master]

\* What a Querier is, by what it or its origin was made as.
Shape(q) ==
    /\ origin[q] \in {"tx", "master", "read"} => querier[q].slaves = << >>
    /\ origin[q] # "read" => querier[q].conn = Master
    /\ querier[q].inTransaction => origin[q] = "tx"

\* What it has seen and done so far.
Session(q) ==
    /\ last[q] <= applied[querier[q].conn]
    /\ origin[q] = "none" => last[q] = 0
    /\ stale[q] => origin[q] = "db"
    /\ misled[q] => origin[q] = "read"

RoutingInv ==
    /\ TypeOK
    /\ Ordered
    /\ origin[DB] = "db"
    /\ \A q \in Querier : Shape(q) /\ Session(q)

-----------------------------------------------------------------------------

\* newQuerier makes a Querier of its arguments.
LEMMA NewQuerier ==
  ASSUME NEW c \in Server, NEW s \in Seq(Replica), NEW b \in BOOLEAN
  PROVE  /\ newQuerier(c, s, b) \in Queriers
         /\ newQuerier(c, s, b).conn = c
         /\ newQuerier(c, s, b).slaves = s
         /\ newQuerier(c, s, b).inTransaction = b
  BY DEF newQuerier, Queriers

LEMMA QuerierFields ==
  ASSUME TypeOK, NEW q \in Querier
  PROVE  /\ querier[q].conn \in Server
         /\ querier[q].slaves \in Seq(Replica)
         /\ querier[q].inTransaction \in BOOLEAN
         /\ querier[q].inTransaction => querier[q].slaves = << >>
  BY DEF TypeOK, Queriers

\* A statement goes to the Querier's connection, or is a SELECT and goes to a
\* replica of a Querier that has some.
LEMMA Targets ==
  ASSUME TypeOK, NEW q \in Querier, NEW isSelect \in BOOLEAN,
         NEW s \in selectDBTXContext(q, isSelect)
  PROVE  \/ s = querier[q].conn
         \/ s \in Replica /\ isSelect /\ querier[q].slaves # << >>
<1>1. querier[q].slaves \in Seq(Replica)
  BY QuerierFields
<1>2. \A i \in DOMAIN querier[q].slaves : querier[q].slaves[i] \in Replica
  BY <1>1
<1> QED  BY <1>2 DEF selectDBTXContext

\* Making a Querier of a fresh name that starts with what it has seen so far.
LEMMA MakeInv ==
  ASSUME RoutingInv, NEW n \in Fresh, NEW record \in Queriers,
         NEW from \in Origins \ {"none"}, NEW l \in 0 .. MaxWrites,
         Make(n, record, from), last' = [last EXCEPT ![n] = l],
         UNCHANGED <<applied, stale, misled>>,
         l <= applied[record.conn],
         from \in {"tx", "master", "read"} => record.slaves = << >>,
         record.inTransaction => from = "tx",
         from # "read" => record.conn = Master
  PROVE  RoutingInv'
<1>1. n \in Querier /\ origin[n] = "none" /\ n # DB
  BY DEF Fresh, RoutingInv
<1>2. /\ querier' \in [Querier -> Queriers] /\ origin' \in [Querier -> Origins]
      /\ last' \in [Querier -> 0 .. MaxWrites]
  BY <1>1 DEF RoutingInv, TypeOK, Make
<1>3. /\ querier'[n] = record /\ origin'[n] = from /\ last'[n] = l
      /\ \A q \in Querier \ {n} :
            querier'[q] = querier[q] /\ origin'[q] = origin[q] /\ last'[q] = last[q]
  BY <1>1 DEF RoutingInv, TypeOK, Make
<1>4. TypeOK'
  BY <1>2, <1>3 DEF RoutingInv, TypeOK
<1>5. Ordered' /\ origin'[DB] = "db"
  BY <1>1, <1>3, NamesAssumption DEF RoutingInv, Ordered
<1>6. ASSUME NEW q \in Querier PROVE Shape(q)' /\ Session(q)'
  <2>1. CASE q = n
    <3>1. ~stale[n] /\ ~misled[n]
      BY <1>1 DEF RoutingInv, Session
    <3> QED  BY <1>3, <2>1, <3>1 DEF Shape, Session
  <2>2. CASE q # n
    BY <1>3, <2>2 DEF RoutingInv, Shape, Session
  <2> QED  BY <2>1, <2>2
<1> QED  BY <1>4, <1>5, <1>6 DEF RoutingInv

LEMMA NothingSeen ==
  ASSUME RoutingInv, NEW n \in Fresh
  PROVE  last = [last EXCEPT ![n] = 0]
  BY DEF RoutingInv, TypeOK, Session, Fresh

LEMMA DeriveInv == ASSUME RoutingInv, NEW n \in Fresh, Derive(n) PROVE RoutingInv'
<1>1. TypeOK /\ DB \in Querier /\ origin[DB] = "db" /\ Master \in Server
  BY NamesAssumption DEF RoutingInv, Server
<1>2. << >> \in Seq(Replica) /\ 0 \in 0 .. MaxWrites /\ applied \in [Server -> 0 .. MaxWrites]
  BY MaxWritesAssumption, <1>1 DEF TypeOK
<1>3. \A s \in Server : 0 <= applied[s]
  BY <1>2, MaxWritesAssumption
<1>4. ASSUME NEW q \in Querier, WithTag(q, n) PROVE RoutingInv'
  <2>1. querier[q] \in Queriers /\ origin[q] \in Origins \ {"none"} /\ last[q] \in 0 .. MaxWrites
    BY <1>4 DEF WithTag, RoutingInv, TypeOK
  <2>2. Make(n, querier[q], origin[q]) /\ last' = [last EXCEPT ![n] = last[q]]
        /\ UNCHANGED <<applied, stale, misled>>
    BY <1>4 DEF WithTag
  <2>3. Shape(q) /\ last[q] <= applied[querier[q].conn]
    BY DEF RoutingInv, Session
  <2> QED  BY <1>1, <2>1, <2>2, <2>3, QuerierFields, MakeInv DEF Shape
<1>5. ASSUME NEW q \in Querier, QuerierForRead(q, n) PROVE RoutingInv'
  <2> DEFINE s == querier[q].slaves
             record == newQuerier(s[1], << >>, FALSE)
  <2>1. s \in Seq(Replica) /\ s # << >>
    BY <1>1, <1>5, QuerierFields DEF QuerierForRead
  <2>2. s[1] \in Server
    BY <2>1 DEF Server
  <2>3. record \in Queriers /\ record.conn = s[1] /\ record.slaves = << >> /\ ~record.inTransaction
    BY <1>2, <2>2, NewQuerier
  <2>4. Make(n, record, "read") /\ UNCHANGED <<applied, last, stale, misled>>
    BY <1>5 DEF QuerierForRead
  <2> HIDE DEF s, record
  <2>5. "read" \in Origins \ {"none"}
    BY DEF Origins
  <2>6. last' = [last EXCEPT ![n] = 0]
    BY <2>4, NothingSeen
  <2> QED  BY <1>2, <1>3, <2>2, <2>3, <2>4, <2>5, <2>6, MakeInv
<1>6. CASE MasterQuerier(n)
  <2> DEFINE record == newQuerier(querier[DB].conn, << >>, FALSE)
  <2>1. querier[DB].conn = Master /\ last[DB] <= applied[Master]
    BY <1>1 DEF RoutingInv, Shape, Session
  <2>2. record \in Queriers /\ record.conn = Master /\ record.slaves = << >> /\ ~record.inTransaction
    BY <1>1, <1>2, <2>1, NewQuerier
  <2>3. Make(n, record, "master") /\ last' = [last EXCEPT ![n] = last[DB]]
        /\ UNCHANGED <<applied, stale, misled>>
    BY <1>6 DEF MasterQuerier
  <2> HIDE DEF record
  <2>4. "master" \in Origins \ {"none"} /\ last[DB] \in 0 .. MaxWrites
    BY <1>1 DEF Origins, TypeOK
  <2> QED  BY <2>1, <2>2, <2>3, <2>4, MakeInv
<1>7. CASE Begin(n)
  <2> DEFINE record == newQuerier(Master, << >>, TRUE)
  <2>1. record \in Queriers /\ record.conn = Master /\ record.slaves = << >>
    BY <1>1, <1>2, NewQuerier
  <2>2. Make(n, record, "tx") /\ UNCHANGED <<applied, last, stale, misled>>
    BY <1>7 DEF Begin
  <2> HIDE DEF record
  <2>3. "tx" \in Origins \ {"none"}
    BY DEF Origins
  <2>4. last' = [last EXCEPT ![n] = 0]
    BY <2>2, NothingSeen
  <2> QED  BY <1>1, <1>2, <1>3, <2>1, <2>2, <2>3, <2>4, MakeInv
<1> QED  BY <1>4, <1>5, <1>6, <1>7 DEF Derive

\* More replicas for the DB: its own Querier only, and only its choice.
LEMMA AddSlavesInv == ASSUME RoutingInv, NEW r \in Replica, AddSlaves(r) PROVE RoutingInv'
<1> DEFINE conn == querier[DB].conn
           slaves == Append(querier[DB].slaves, r)
           inTx == querier[DB].inTransaction
           record == newQuerier(conn, slaves, inTx)
<1>1. DB \in Querier /\ TypeOK /\ origin[DB] = "db"
  BY NamesAssumption DEF RoutingInv
<1>2. slaves \in Seq(Replica) /\ conn \in Server /\ inTx \in BOOLEAN
  BY <1>1, QuerierFields
<1>3. ~inTx /\ conn = Master
  BY <1>1 DEF RoutingInv, Shape
<1>4. querier' = [querier EXCEPT ![DB] = record]
  BY DEF AddSlaves
<1> HIDE DEF conn, slaves, inTx
<1>5. record \in Queriers /\ record.conn = Master /\ ~record.inTransaction
  BY <1>2, <1>3, NewQuerier
<1> HIDE DEF record
<1>6. /\ querier'[DB] = record /\ querier' \in [Querier -> Queriers]
      /\ \A q \in Querier \ {DB} : querier'[q] = querier[q]
  BY <1>1, <1>4, <1>5 DEF TypeOK
<1>7. UNCHANGED <<applied, origin, last, stale, misled>>
  BY DEF AddSlaves
<1>8. TypeOK'
  BY <1>1, <1>5, <1>6, <1>7 DEF TypeOK
<1>9. ASSUME NEW q \in Querier PROVE Shape(q)' /\ Session(q)'
  <2>1. CASE q = DB
    <3>1. querier[DB].conn = Master
      BY <1>1 DEF RoutingInv, Shape
    <3> QED  BY <1>1, <1>5, <1>6, <1>7, <2>1, <3>1 DEF RoutingInv, Shape, Session
  <2>2. CASE q # DB
    BY <1>6, <1>7, <2>2 DEF RoutingInv, Shape, Session
  <2> QED  BY <2>1, <2>2
<1> QED  BY <1>7, <1>8, <1>9 DEF RoutingInv, Ordered

-----------------------------------------------------------------------------

\* A read sees what the Querier's connection has applied or, with replicas,
\* something a replica has: only the Queriers of the DB may go back in time.
LEMMA ReadInv ==
  ASSUME RoutingInv, NEW q \in Querier, NEW isSelect \in BOOLEAN, Read(q, isSelect)
  PROVE  RoutingInv'
<1>1. PICK s \in selectDBTXContext(q, isSelect) :
          /\ last'  = [last EXCEPT ![q] = applied[s]]
          /\ stale' = [stale EXCEPT ![q] = stale[q] \/ applied[s] < last[q]]
  BY DEF Read
<1>2. TypeOK /\ Shape(q) /\ Session(q) /\ origin[q] # "none"
      /\ UNCHANGED <<querier, applied, origin, misled>>
  BY DEF RoutingInv, Read
<1>3. s \in Server /\ (s = querier[q].conn \/ (s \in Replica /\ querier[q].slaves # << >>))
  BY <1>2, Targets, QuerierFields DEF Server
<1>4. origin[q] \in {"db", "tx", "master", "read"}
  BY <1>2 DEF TypeOK, Origins
<1>5. applied[s] \in 0 .. MaxWrites /\ applied[querier[q].conn] \in 0 .. MaxWrites
      /\ last[q] \in 0 .. MaxWrites
  BY <1>2, <1>3, QuerierFields DEF TypeOK
<1>6. s = querier[q].conn \/ (origin[q] = "db" /\ applied[s] <= applied[querier[q].conn])
  BY <1>2, <1>3, <1>4 DEF RoutingInv, Ordered, Shape
<1>7. /\ applied[s] <= applied[querier[q].conn]
      /\ applied[s] < last[q] => origin[q] = "db"
  BY <1>2, <1>5, <1>6, MaxWritesAssumption DEF Session
<1>8. TypeOK'
  BY <1>1, <1>2, <1>5 DEF TypeOK
<1>9. ASSUME NEW p \in Querier PROVE Shape(p)' /\ Session(p)'
  <2>1. Shape(p) /\ Session(p)
    BY DEF RoutingInv
  <2>2. Shape(p)'
    BY <1>2, <2>1 DEF Shape
  <2>3. CASE p = q
    <3>1. last'[p] = applied[s] /\ stale'[p] = (stale[q] \/ applied[s] < last[q])
      BY <1>1, <1>2, <2>3 DEF TypeOK
    <3> QED  BY <1>2, <1>7, <2>1, <2>2, <2>3, <3>1 DEF Session
  <2>4. CASE p # q
    BY <1>1, <1>2, <2>1, <2>2, <2>4 DEF Session, TypeOK
  <2> QED  BY <2>3, <2>4
<1> QED  BY <1>2, <1>8, <1>9 DEF RoutingInv, Ordered

\* A write reaches the master, or a replica that refuses it.
LEMMA WriteInv ==
  ASSUME RoutingInv, NEW q \in Querier, NEW isSelect \in BOOLEAN, Write(q, isSelect)
  PROVE  RoutingInv'
<1>1. PICK s \in selectDBTXContext(q, isSelect) :
          IF s = Master
          THEN /\ applied' = [applied EXCEPT ![Master] = applied[Master] + 1]
               /\ last'    = [last EXCEPT ![q] = applied[Master] + 1]
               /\ UNCHANGED misled
          ELSE /\ misled' = [misled EXCEPT ![q] = misled[q] \/ ~isSelect]
               /\ UNCHANGED <<applied, last>>
  BY DEF Write
<1>2. TypeOK /\ Shape(q) /\ Session(q) /\ origin[q] # "none" /\ applied[Master] < MaxWrites
      /\ UNCHANGED <<querier, origin, stale>>
  BY DEF RoutingInv, Write
<1>3. \/ s = querier[q].conn
      \/ s \in Replica /\ isSelect /\ querier[q].slaves # << >>
  BY <1>2, Targets
<1>4. CASE s = Master
  <2>1. querier[q].conn = Master
    BY <1>2, <1>3, <1>4, NamesAssumption DEF Shape
  <2>2. applied[Master] \in Nat /\ applied[Master] + 1 \in 0 .. MaxWrites
    BY <1>2, MaxWritesAssumption DEF TypeOK, Server
  <2>3. /\ applied' \in [Server -> 0 .. MaxWrites] /\ applied'[Master] = applied[Master] + 1
        /\ \A r \in Server \ {Master} : applied'[r] = applied[r]
    BY <1>1, <1>2, <1>4, <2>2 DEF TypeOK, Server
  <2>4. /\ last' \in [Querier -> 0 .. MaxWrites] /\ last'[q] = applied[Master] + 1
        /\ \A p \in Querier \ {q} : last'[p] = last[p]
    BY <1>1, <1>2, <1>4, <2>2 DEF TypeOK
  <2>5. misled' = misled
    BY <1>1, <1>4
  <2>6. TypeOK'
    BY <1>2, <2>3, <2>4, <2>5 DEF TypeOK
  <2>7. Ordered'
    <3> SUFFICES ASSUME NEW r \in Replica PROVE applied'[r] <= applied'[Master]
      BY DEF Ordered
    <3>1. r \in Server \ {Master} /\ applied[r] \in 0 .. MaxWrites /\ applied[r] <= applied[Master]
      BY <1>2, NamesAssumption DEF RoutingInv, Ordered, TypeOK, Server
    <3> QED  BY <2>2, <2>3, <3>1, MaxWritesAssumption
  <2>8. ASSUME NEW p \in Querier PROVE Shape(p)' /\ Session(p)'
    <3>1. Shape(p) /\ Session(p) /\ querier[p].conn \in Server
      BY <1>2, QuerierFields DEF RoutingInv
    <3>2. Shape(p)'
      BY <1>2, <3>1 DEF Shape
    <3>3. last'[p] <= applied'[querier[p].conn]
      <4>1. CASE p = q
        BY <2>1, <2>2, <2>3, <2>4, <4>1, MaxWritesAssumption
      <4>2. CASE p # q
        <5>1. /\ last[p] \in 0 .. MaxWrites /\ applied[querier[p].conn] \in 0 .. MaxWrites
              /\ last[p] <= applied[querier[p].conn]
          BY <1>2, <3>1 DEF TypeOK, Session
        <5> QED  BY <2>2, <2>3, <2>4, <3>1, <4>2, <5>1, MaxWritesAssumption
      <4> QED  BY <4>1, <4>2
    <3>4. origin[p] = "none" => p # q
      BY <1>2
    <3> QED  BY <1>2, <2>4, <2>5, <3>1, <3>2, <3>3, <3>4 DEF Session
  <2> QED  BY <1>2, <2>6, <2>7, <2>8 DEF RoutingInv
<1>5. CASE s # Master
  <2>1. isSelect \/ origin[q] = "read"
    BY <1>2, <1>3, <1>5 DEF Shape
  <2>2. UNCHANGED <<applied, last>> /\ misled' = [misled EXCEPT ![q] = misled[q] \/ ~isSelect]
    BY <1>1, <1>5
  <2>3. TypeOK'
    BY <1>2, <2>2 DEF TypeOK
  <2>4. ASSUME NEW p \in Querier PROVE Shape(p)' /\ Session(p)'
    <3>1. Shape(p) /\ Session(p)
      BY DEF RoutingInv
    <3>2. misled'[p] = IF p = q THEN misled[q] \/ ~isSelect ELSE misled[p]
      BY <1>2, <2>2 DEF TypeOK
    <3> QED  BY <1>2, <2>1, <2>2, <3>1, <3>2 DEF Shape, Session
  <2> QED  BY <1>2, <2>2, <2>3, <2>4 DEF RoutingInv, Ordered
<1> QED  BY <1>4, <1>5

LEMMA ReplicateInv == ASSUME RoutingInv, NEW r \in Replica, Replicate(r) PROVE RoutingInv'
<1>1. /\ TypeOK /\ UNCHANGED <<querier, origin, last, stale, misled>>
      /\ r \in Server /\ Master \in Server
  BY DEF Replicate, RoutingInv, Server
<1>2. applied[r] \in Nat /\ applied[Master] \in 0 .. MaxWrites /\ applied[r] < applied[Master]
  BY <1>1, MaxWritesAssumption DEF Replicate, TypeOK
<1>3. /\ applied' \in [Server -> 0 .. MaxWrites] /\ applied'[r] = applied[r] + 1
      /\ \A s \in Server \ {r} : applied'[s] = applied[s]
  BY <1>1, <1>2, MaxWritesAssumption DEF Replicate, TypeOK
<1>4. TypeOK'
  BY <1>1, <1>3 DEF TypeOK
<1>5. Ordered'
  BY <1>1, <1>2, <1>3, NamesAssumption, MaxWritesAssumption DEF RoutingInv, Ordered, Server
<1>6. ASSUME NEW q \in Querier PROVE Shape(q)' /\ Session(q)'
  <2>1. Shape(q) /\ Session(q) /\ querier[q].conn \in Server
    BY <1>1, QuerierFields DEF RoutingInv
  <2>2. last[q] \in 0 .. MaxWrites /\ applied[querier[q].conn] \in 0 .. MaxWrites
    BY <1>1, <2>1 DEF TypeOK
  <2>3. last[q] <= applied'[querier[q].conn]
    BY <1>2, <1>3, <2>1, <2>2, MaxWritesAssumption DEF Session
  <2> QED  BY <1>1, <2>1, <2>3 DEF Shape, Session
<1> QED  BY <1>1, <1>4, <1>5, <1>6 DEF RoutingInv

-----------------------------------------------------------------------------

LEMMA RoutingInit == Init => RoutingInv
<1> SUFFICES ASSUME Init PROVE RoutingInv
  OBVIOUS
<1>1. Master \in Server /\ << >> \in Seq(Replica) /\ 0 \in 0 .. MaxWrites
  BY MaxWritesAssumption DEF Server
<1> DEFINE record == newQuerier(Master, << >>, FALSE)
<1>2. record \in Queriers /\ record.conn = Master /\ record.slaves = << >> /\ ~record.inTransaction
  BY <1>1, NewQuerier
<1>3. querier = [q \in Querier |-> record]
  BY DEF Init
<1> HIDE DEF record
<1>4. TypeOK
  BY <1>1, <1>2, <1>3 DEF Init, TypeOK, Origins
<1>5. Ordered /\ origin[DB] = "db"
  BY <1>1, NamesAssumption DEF Init, Ordered, Server
<1>6. ASSUME NEW q \in Querier PROVE Shape(q) /\ Session(q)
  <2>1. querier[q] = record /\ origin[q] \in {"db", "none"}
    BY <1>3 DEF Init
  <2>2. last[q] = 0 /\ applied[Master] = 0 /\ stale[q] = FALSE /\ misled[q] = FALSE
    BY <1>1 DEF Init
  <2> QED  BY <1>2, <2>1, <2>2 DEF Shape, Session
<1> QED  BY <1>4, <1>5, <1>6 DEF RoutingInv

LEMMA RoutingNext == ASSUME RoutingInv, [Next]_vars PROVE RoutingInv'
<1>1. CASE UNCHANGED vars
  BY <1>1 DEF vars, RoutingInv, TypeOK, Ordered, Shape, Session
<1> QED
  BY <1>1, AddSlavesInv, DeriveInv, ReadInv, WriteInv, ReplicateInv DEF Next

\* RoutingInv holds in every reachable state.
THEOREM RoutingInvariant == Spec => []RoutingInv
  BY RoutingInit, RoutingNext, PTL DEF Spec

\* Every variable keeps its type, and the Querier of a TX has no replicas.
THEOREM RoutingTypesCorrect == Spec => []TypeOK
  BY RoutingInvariant, PTL DEF RoutingInv

\* A Querier of a TX or of MasterQuerier never goes back in time.
THEOREM PinnedToMasterCorrect == Spec => []PinnedToMaster
<1>1. RoutingInv => PinnedToMaster
  BY DEF RoutingInv, PinnedToMaster, Session
<1> QED  BY <1>1, RoutingInvariant, PTL

\* Nor does a Querier of QuerierForRead.
THEOREM ReplicaReadsCorrect == Spec => []ReplicaReadsAreMonotonic
<1>1. RoutingInv => ReplicaReadsAreMonotonic
  BY DEF RoutingInv, ReplicaReadsAreMonotonic, Session
<1> QED  BY <1>1, RoutingInvariant, PTL

\* Statements other than SELECT reach the master, but for those Queriers.
THEOREM WritesReachMasterCorrect == Spec => []WritesReachMaster
<1>1. RoutingInv => WritesReachMaster
  BY DEF RoutingInv, WritesReachMaster, Session
<1> QED  BY <1>1, RoutingInvariant, PTL
=============================================================================
