------------------------------- MODULE Routing -------------------------------
(***************************************************************************)
(* Where the statements of a DB with replicas go (querier.go, db.go).      *)
(*                                                                         *)
(* A DB embeds one Querier on the master; AddSlaves gives it replicas.     *)
(* Further Queriers are derived from it and from each other: WithTag and   *)
(* WithContext copy one with the replicas known by then, MasterQuerier     *)
(* drops them, QuerierForRead moves to the first replica, Begin ties a new *)
(* one to a transaction.  Outside a transaction a statement that begins    *)
(* with SELECT goes to a random replica; all others go to the Querier's    *)
(* own connection.                                                         *)
(*                                                                         *)
(* The servers are reduced to how many writes each of them has applied:    *)
(* replicas follow the master in order, each at its own pace, and refuse   *)
(* writes.  A write of a transaction counts when it is executed.           *)
(***************************************************************************)
EXTENDS Naturals, Sequences

CONSTANTS
    Querier,    \* names of Queriers
    DB,         \* the Querier the DB embeds
    Replica, Master,
    MaxWrites   \* bound: writes executed in a behaviour

ASSUME NamesAssumption == DB \in Querier /\ Master \notin Replica
ASSUME MaxWritesAssumption == MaxWrites \in Nat

VARIABLES
    querier,    \* the Queriers derived so far, see Queriers
    applied,    \* how many writes a server has applied
    origin,     \* history: what a Querier, or what it was copied from, is
    last,       \* history: the version a Querier read or wrote last
    stale,      \* history: it once read a version older than that
    misled      \* history: a statement that is no SELECT went to a replica

vars == <<querier, applied, origin, last, stale, misled>>

Server   == Replica \cup {Master}
Queriers == [conn : Server, slaves : Seq(Replica), inTransaction : BOOLEAN]
Origins  == {"none", "db", "master", "read", "tx"}

\* newQuerier: fields ctx, tag, Dialect and Logger do not matter here.
newQuerier(conn, slaves, inTx) ==
    [conn |-> conn, slaves |-> slaves, inTransaction |-> inTx]

Fresh == {q \in Querier : origin[q] = "none"}

Init ==
    /\ querier = [q \in Querier |-> newQuerier(Master, << >>, FALSE)]
    /\ applied = [s \in Server |-> 0]
    /\ origin  = [q \in Querier |-> IF q = DB THEN "db" ELSE "none"]
    /\ last    = [q \in Querier |-> 0]
    /\ stale   = [q \in Querier |-> FALSE]
    /\ misled  = [q \in Querier |-> FALSE]

Make(n, record, from) ==
    /\ querier' = [querier EXCEPT ![n] = record]
    /\ origin'  = [origin EXCEPT ![n] = from]

-----------------------------------------------------------------------------
\* Deriving Queriers

\* Bound: a replica is added once.
AddSlaves(r) ==
    /\ \A i \in DOMAIN querier[DB].slaves : querier[DB].slaves[i] # r
    /\ querier' = [querier EXCEPT ![DB] =
                      newQuerier(@.conn, Append(@.slaves, r), @.inTransaction)]
    /\ UNCHANGED <<applied, origin, last, stale, misled>>

\* WithTag and WithContext; the copy continues the session of its origin.
WithTag(q, n) ==
    /\ origin[q] # "none"
    /\ Make(n, querier[q], origin[q])
    /\ last' = [last EXCEPT ![n] = last[q]]
    /\ UNCHANGED <<applied, stale, misled>>

\* Mutant: the replicas stay.
MasterQuerierKeeping(n) ==
    /\ Make(n, newQuerier(querier[DB].conn, querier[DB].slaves, FALSE), "master")
    /\ last' = [last EXCEPT ![n] = last[DB]]
    /\ UNCHANGED <<applied, stale, misled>>

MasterQuerier(n) ==
    /\ Make(n, newQuerier(querier[DB].conn, << >>, FALSE), "master")
    /\ last' = [last EXCEPT ![n] = last[DB]]
    /\ UNCHANGED <<applied, stale, misled>>

\* Mutant: the new Querier gets all replicas and chooses for every statement.
QuerierForReadAny(q, n) ==
    LET s == querier[q].slaves IN
    /\ origin[q] # "none" /\ ~querier[q].inTransaction /\ s # << >>
    /\ Make(n, newQuerier(s[1], s, FALSE), "read")
    /\ UNCHANGED <<applied, last, stale, misled>>

\* In a transaction, or without replicas, it returns the Querier itself.
QuerierForRead(q, n) ==
    LET s == querier[q].slaves IN
    /\ origin[q] # "none" /\ ~querier[q].inTransaction /\ s # << >>
    /\ Make(n, newQuerier(s[1], << >>, FALSE), "read")
    /\ UNCHANGED <<applied, last, stale, misled>>

Begin(n) ==
    /\ Make(n, newQuerier(Master, << >>, TRUE), "tx")
    /\ UNCHANGED <<applied, last, stale, misled>>

-----------------------------------------------------------------------------
\* Statements

\* Mutant: the statement is not looked at.
selectAny(q, isSelect) ==
    LET s == querier[q].slaves IN
    IF querier[q].inTransaction \/ s = << >>
    THEN {querier[q].conn}
    ELSE {s[i] : i \in DOMAIN s}

\* selectDBTXContext: the servers a statement may be sent to.
selectDBTXContext(q, isSelect) ==
    LET s == querier[q].slaves IN
    IF querier[q].inTransaction \/ s = << >> \/ ~isSelect
    THEN {querier[q].conn}
    ELSE {s[i] : i \in DOMAIN s}

\* A statement that reads: Query, QueryRow, Exec.
Read(q, isSelect) ==
    /\ origin[q] # "none"
    /\ \E s \in selectDBTXContext(q, isSelect) :
          /\ last'  = [last EXCEPT ![q] = applied[s]]
          /\ stale' = [stale EXCEPT ![q] = stale[q] \/ applied[s] < last[q]]
    /\ UNCHANGED <<querier, applied, origin, misled>>

\* A statement that writes; one may begin with SELECT (SELECT nextval(...)).
Write(q, isSelect) ==
    /\ origin[q] # "none" /\ applied[Master] < MaxWrites
    /\ \E s \in selectDBTXContext(q, isSelect) :
          IF s = Master
          THEN /\ applied' = [applied EXCEPT ![Master] = applied[Master] + 1]
               /\ last'    = [last EXCEPT ![q] = applied[Master] + 1]
               /\ UNCHANGED misled
          ELSE /\ misled' = [misled EXCEPT ![q] = misled[q] \/ ~isSelect]
               /\ UNCHANGED <<applied, last>>
    /\ UNCHANGED <<querier, origin, stale>>

Replicate(r) ==
    /\ applied[r] < applied[Master]
    /\ applied' = [applied EXCEPT ![r] = applied[r] + 1]
    /\ UNCHANGED <<querier, origin, last, stale, misled>>

Derive(n) ==
    \/ \E q \in Querier : WithTag(q, n) \/ QuerierForRead(q, n)
    \/ MasterQuerier(n) \/ Begin(n)

Next ==
    \/ \E r \in Replica : AddSlaves(r) \/ Replicate(r)
    \/ \E n \in Fresh : Derive(n)
    \/ \E q \in Querier, isSelect \in BOOLEAN : Read(q, isSelect) \/ Write(q, isSelect)

Spec == Init /\ [][Next]_vars

-----------------------------------------------------------------------------
\* Every variable has its type; the Querier of a TX has no replicas.
TypeOK ==
    /\ querier \in [Querier -> Queriers]
    /\ \A q \in Querier : querier[q].inTransaction => querier[q].slaves = << >>
    /\ applied \in [Server -> 0 .. MaxWrites]
    /\ origin \in [Querier -> Origins]
    /\ last \in [Querier -> 0 .. MaxWrites]
    /\ stale \in [Querier -> BOOLEAN]
    /\ misled \in [Querier -> BOOLEAN]

\* "When in transaction write and read from master" (master_slave_test.go:94):
\* whatever chain of copies a Querier of a TX or of MasterQuerier comes from,
\* and whenever replicas are added, it never reads anything older than what it,
\* or what it was copied from, has written or read before.
PinnedToMaster ==
    \A q \in Querier : origin[q] \in {"tx", "master"} => ~stale[q]

\* A Querier made by QuerierForRead, and every copy of it, reads from one
\* replica: it may lag behind, but it never goes back in time, as a Querier
\* that chooses a replica for every statement does.
ReplicaReadsAreMonotonic ==
    \A q \in Querier : origin[q] = "read" => ~stale[q]

\* A statement that does not begin with SELECT reaches the master through
\* every Querier but those of QuerierForRead.
WritesReachMaster ==
    \A q \in Querier : misled[q] => origin[q] = "read"
=============================================================================
