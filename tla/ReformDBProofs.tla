--------------------------- MODULE ReformDBProofs ---------------------------
(***************************************************************************)
(* Proofs about ReformDB, for any schemas, files, flags and bounds.        *)
(***************************************************************************)
EXTENDS ReformDB, TLAPS

\* A struct is left to be written while its file is being written.
TypeInv == TypeOK /\ (pc = "write" => next < Len(structs))

-----------------------------------------------------------------------------
\* Lemmas about the operators

LEMMA QueriesOfType ==
    ASSUME NEW i \in DOMAIN input, input \in Seq(Files)
    PROVE  /\ QueriesOf(i) \in Seq(Queries)
           /\ input[i].statements > 0 =>
                 QueriesOf(i) # << >> /\ QueriesOf(i)[1][1] = i
<1>1. input[i] \in Files /\ i \in Nat
  OBVIOUS
<1>2. input[i].statements \in Nat
  BY <1>1 DEF Files
<1>3. CASE split \/ input[i].statements = 0
  <2> DEFINE n == input[i].statements
             s == [k \in 1 .. n |-> <<i, k>>]
  <2>1. QueriesOf(i) = s
    BY <1>3 DEF QueriesOf
  <2>2. s \in Seq(Queries) /\ Len(s) = n
    BY <1>1, <1>2 DEF Queries
  <2>3. n > 0 => s # << >> /\ s[1] = <<i, 1>>
    BY <1>2, <2>2
  <2> QED  BY <2>1, <2>2, <2>3
<1>4. CASE ~(split \/ input[i].statements = 0)
  BY <1>1, <1>4 DEF QueriesOf, Queries
<1> QED  BY <1>3, <1>4

LEMMA KeyOfType ==
    ASSUME NEW d \in Defs
    PROVE  KeyOf(d) \in Column \cup {NoColumn} /\ (KeyOf(d) # NoColumn => KeyOf(d) \in d.key)
BY DEF KeyOf, Defs

LEMMA StructOfType ==
    ASSUME NEW t \in Table, NEW d \in Defs, NEW k \in Column \cup {NoColumn}
    PROVE  StructOf(t, d, k) \in Structs
<1>1. d.columns \in SUBSET Column
  BY DEF Defs
<1>2. \A c \in d.columns : goType(c, c \in d.null) \in {"plain", "pointer", "slice"}
  BY DEF goType
<1>3. [c \in d.columns |-> goType(c, c \in d.null)] \in Types
  BY <1>1, <1>2 DEF Types
<1> QED  BY <1>3 DEF StructOf, Structs

-----------------------------------------------------------------------------
\* Types

Directories == [FileName -> [state : FileStates, struct : SUBSET Structs, tidy : BOOLEAN]]

LEMMA OlderType == [FileName -> Older] \subseteq Directories
<1>1. Older \subseteq [state : FileStates, struct : SUBSET Structs, tidy : BOOLEAN]
  <2> SUFFICES ASSUME NEW file \in Older
               PROVE  file \in [state : FileStates, struct : SUBSET Structs, tidy : BOOLEAN]
    OBVIOUS
  <2>1. PICK st \in {"absent", "old", "broken"} : file = Content(st, {})
    BY DEF Older
  <2>2. st \in FileStates /\ {} \in SUBSET Structs
    BY <2>1 DEF FileStates
  <2> QED  BY <2>1, <2>2 DEF Content
<1> QED  BY <1>1 DEF Directories

LEMMA LaidType ==
    ASSUME NEW F \in Directories, NEW S \in SUBSET FileName
    PROVE  /\ [f \in FileName |-> Laid(F[f])] \in Directories
           /\ [f \in FileName |-> IF f \in S THEN Laid(F[f]) ELSE F[f]] \in Directories
<1>1. \A f \in FileName : Laid(F[f]) \in [state : FileStates, struct : SUBSET Structs, tidy : BOOLEAN]
  BY DEF Laid, Directories
<1> QED  BY <1>1 DEF Directories

LEMMA TypeInit == Init => TypeInv
<1> SUFFICES ASSUME Init PROVE TypeInv
  OBVIOUS
<1>1. input \in Seq(Files) /\ split \in BOOLEAN /\ dialect \in {"sqlite3", "standard"}
  <2>1. CASE command = "init"
    <3>1. split = FALSE /\ input = << >> /\ dialect \in {"sqlite3", "standard"}
      BY <2>1, Zenon DEF Init
    <3>2. << >> \in Seq(Files)
      OBVIOUS
    <3> QED  BY <3>1, <3>2, Zenon
  <2>2. CASE command # "init"
    BY <2>2, InputsAssumption DEF Init
  <2> QED  BY <2>1, <2>2
<1>2. schema \in [Table -> Defs]
  BY InputsAssumption DEF Init, Defs
<1>3. files \in Directories /\ before \in [FileName -> Older] /\ gofmtF \in BOOLEAN
  <2>1. before = files
    BY DEF Init
  <2>2. files \in [FileName -> Older] /\ gofmtF \in BOOLEAN
    <3>1. CASE command = "init"
      BY <3>1, Zenon DEF Init
    <3>2. CASE command # "init"
      <4>1. files = [f \in FileName |-> Content("absent", {})] /\ gofmtF = TRUE
        BY <3>2, Zenon DEF Init
      <4>2. Content("absent", {}) \in Older
        BY DEF Older
      <4> QED  BY <4>1, <4>2
    <3> QED  BY <3>1, <3>2
  <2> QED  BY <2>1, <2>2, OlderType
<1>4. seen \in Defs
  BY DEF Init, Defs
<1>5. /\ pc = "ping" /\ clock = 0 /\ pings = 0 /\ command \in {"exec", "query", "init"}
      /\ wait \in 0 .. MaxWait /\ session = << >> /\ busy = FALSE /\ queries = << >>
      /\ next = 0 /\ todo = {} /\ cur \in Table /\ key = NoColumn /\ structs = << >>
      /\ exit = "none" /\ executed = << >> /\ listing = {} /\ altered = {} /\ alters = 0
      /\ drops = 0 /\ failed = {}
  BY DEF Init
<1>6. drops \in 0 .. MaxDrops /\ alters \in 0 .. MaxAlter /\ key \in Column \cup {NoColumn}
  BY <1>5, ReformDBAssumption
<1>7. /\ session \in Seq(Queries) /\ queries \in Seq(Queries) /\ executed \in Seq(Queries)
      /\ structs \in Seq(Structs)
  BY <1>5
<1> QED  BY <1>1, <1>2, <1>3, <1>4, <1>5, <1>6, <1>7 DEF TypeInv, TypeOK, Directories

LEMMA TypeStep == TypeInv /\ [Next]_vars => TypeInv'
<1> SUFFICES ASSUME TypeInv, [Next]_vars PROVE TypeInv'
  OBVIOUS
<1> USE DEF TypeInv
<1>1. CASE UNCHANGED vars
  BY <1>1 DEF vars, flags, conn, work, server, TypeOK
<1>2. CASE PingSucceeds
  BY <1>2 DEF PingSucceeds, Goto, flags, conn, work, server, TypeOK
<1>3. CASE PingFails
  <2>1. clock' \in Nat /\ pings' \in Nat
    BY <1>3, ReformDBAssumption DEF PingFails, TypeOK
  <2>2. CASE FatalPing
    BY <1>3, <2>1, <2>2 DEF PingFails, FatalPing, Exit, flags, conn, work, server, TypeOK
  <2>3. CASE Goto("sleep")
    BY <1>3, <2>1, <2>3 DEF PingFails, Goto, flags, conn, work, server, TypeOK
  <2> QED  BY <1>3, <2>2, <2>3 DEF PingFails
<1>4. CASE Sleep
  BY <1>4 DEF Sleep, Goto, flags, conn, work, server, TypeOK
<1>5. CASE ReadFile
  <2>1. next + 1 \in DOMAIN input
    BY <1>5 DEF ReadFile, TypeOK
  <2>2. queries' \in Seq(Queries)
    BY <1>5, <2>1, QueriesOfType DEF ReadFile, TypeOK
  <2> QED  BY <1>5, <2>2 DEF ReadFile, flags, conn, server, TypeOK
<1>6. CASE ReadFails
  BY <1>6 DEF ReadFails, FatalFile, Exit, flags, conn, work, server, TypeOK
<1>7. CASE ReadDone
  BY <1>7 DEF ReadDone, Goto, flags, conn, work, server, TypeOK
<1>8. CASE Execute
  <2>1. queries[next + 1] \in Queries
    BY <1>8 DEF Execute, TypeOK
  <2>2. session' \in Seq(Queries) /\ executed' \in Seq(Queries)
    BY <1>8, <2>1 DEF Execute, RunsOn, TypeOK
  <2>3. CASE command = "query"
    BY <1>8, <2>2, <2>3 DEF Execute, Goto, flags, server, TypeOK
  <2>4. CASE command # "query"
    <3>1. next' \in Nat
      BY <1>8, <2>4 DEF Execute, TypeOK
    <3> QED  BY <1>8, <2>2, <2>4, <3>1 DEF Execute, Goto, flags, server, TypeOK
  <2> QED  BY <2>3, <2>4
<1>9. CASE ExecuteFails
  <2>1. queries[next + 1] \in Queries
    BY <1>9 DEF ExecuteFails, TypeOK
  <2>2. session' \in Seq(Queries) /\ executed' \in Seq(Queries)
    <3>1. CASE UNCHANGED <<session, executed>>
      BY <3>1 DEF TypeOK
    <3>2. CASE RunsOn(queries[next + 1])
      BY <2>1, <3>2 DEF RunsOn, TypeOK
    <3> QED  BY <1>9, <3>1, <3>2 DEF ExecuteFails
  <2> QED  BY <1>9, <2>2 DEF ExecuteFails, FatalDB, Exit, flags, conn, work, server, TypeOK
<1>10. CASE RowsDone
  <2>1. next' \in Nat
    BY <1>10 DEF RowsDone, TypeOK
  <2> QED  BY <1>10, <2>1 DEF RowsDone, Goto, flags, server, TypeOK
<1>11. CASE RowsFail
  BY <1>11 DEF RowsFail, FatalDB, Exit, flags, conn, work, server, TypeOK
<1>12. CASE ExecDone
  BY <1>12 DEF ExecDone, Exit, flags, conn, work, server, TypeOK
<1>13. CASE SchemaFails
  BY <1>13 DEF SchemaFails, FatalDB, Exit, flags, conn, work, server, TypeOK
<1>14. CASE Tables
  BY <1>14 DEF Tables, Goto, flags, conn, work, server, TypeOK
<1>15. CASE KeyRows
  BY <1>15, KeyOfType DEF KeyRows, Fatalf, Exit, Goto, flags, conn, work, server, TypeOK
<1>16. CASE Columns
  <2>1. structs' \in Seq(Structs)
    BY <1>16, StructOfType DEF Columns, TypeOK
  <2> QED  BY <1>16, <2>1 DEF Columns, Goto, flags, conn, work, server, TypeOK
<1>17. CASE InfoRows
  <2>1. structs' \in Seq(Structs)
    <3>1. StructOf(cur, seen, KeyOf(seen)) \in Structs
      BY StructOfType, KeyOfType DEF TypeOK
    <3>2. structs' = structs \/ structs' = Append(structs, StructOf(cur, seen, KeyOf(seen)))
      BY <1>17 DEF InfoRows
    <3> DEFINE new == StructOf(cur, seen, KeyOf(seen))
    <3>3. structs \in Seq(Structs) /\ new \in Structs
      BY <3>1 DEF TypeOK
    <3> HIDE DEF new
    <3>4. structs' = structs \/ structs' = Append(structs, new)
      BY <3>2 DEF new
    <3> QED  BY <3>3, <3>4
  <2> QED  BY <1>17, <2>1 DEF InfoRows, Fatalf, Exit, Goto, flags, conn, work, server, TypeOK
<1>18. CASE SchemaDone
  BY <1>18 DEF SchemaDone, Goto, flags, conn, work, server, TypeOK
<1>19. ASSUME NEW t \in Table, QueryTable(t) PROVE TypeInv'
  BY <1>19 DEF QueryTable, Goto, flags, conn, work, server, TypeOK
<1>20. ASSUME NEW t \in Table, SkipTable(t) PROVE TypeInv'
  BY <1>20 DEF SkipTable, flags, conn, work, server, TypeOK
<1>21. CASE Create
  <2>1. files' \in Directories
    BY <1>21 DEF Create, Content, FileStates, Directories, TypeOK
  <2> QED  BY <1>21, <2>1 DEF Create, Goto, flags, conn, work, server, TypeOK, Directories
<1>22. CASE Write
  <2>1. structs[next + 1] \in Structs
    BY <1>22 DEF Write, TypeOK
  <2>2. files' \in Directories
    BY <1>22, <2>1 DEF Write, Content, FileStates, Directories, TypeOK
  <2>3. next' \in Nat /\ pc' = "create" /\ UNCHANGED <<exit, failed>>
    BY <1>22 DEF Write, Goto, TypeOK
  <2> QED
    BY <1>22, <2>2, <2>3 DEF Write, flags, conn, server, TypeOK, Directories
<1>23. CASE WriteFails
  BY <1>23 DEF WriteFails, FatalFile, Exit, flags, conn, work, server, TypeOK
<1>24. CASE Gofmt \/ GofmtFails
  <2>1. files \in Directories
    BY DEF TypeOK, Directories
  <2>2. files' \in Directories
    <3>1. CASE Gofmt
      BY <2>1, <3>1, LaidType DEF Gofmt
    <3>2. CASE GofmtFails
      BY <2>1, <3>2, LaidType DEF GofmtFails
    <3> QED  BY <1>24, <3>1, <3>2
  <2> QED
    BY <1>24, <2>2
    DEF Gofmt, GofmtFails, FatalFile, Exit, flags, conn, work, server, TypeOK, Directories
<1>25. CASE Drop
  BY <1>25, ReformDBAssumption DEF Drop, flags, work, server, TypeOK
<1>26. CASE Alter
  <2>1. schema' \in [Table -> Defs] /\ altered' \subseteq Table
    <3>1. PICK t \in Table : \E d \in {s[t] : s \in Schemas} \ {schema[t]} :
              schema' = [schema EXCEPT ![t] = d] /\ altered' = altered \cup {t}
      BY <1>26 DEF Alter
    <3>2. \A s \in Schemas : s[t] \in Defs
      BY InputsAssumption
    <3> QED  BY <3>1, <3>2 DEF TypeOK
  <2>2. alters' \in 0 .. MaxAlter
    BY <1>26, ReformDBAssumption, SMTT(30) DEF Alter, TypeOK
  <2> QED  BY <1>26, <2>1, <2>2 DEF Alter, flags, conn, work, TypeOK
<1>27. CASE Kill
  BY <1>27 DEF Kill, Exit, flags, conn, work, server, TypeOK
<1> QED
  BY <1>1, <1>2, <1>3, <1>4, <1>5, <1>6, <1>7, <1>8, <1>9, <1>10, <1>11, <1>12, <1>13, <1>14,
     <1>15, <1>16, <1>17, <1>18, <1>19, <1>20, <1>21, <1>22, <1>23, <1>24, <1>25, <1>26, <1>27
  DEF Next, Program, getDB, readFiles, cmdQuery, cmdInit

-----------------------------------------------------------------------------
\* What the steps of one command leave alone

ExecPlaces == {"read", "exec", "rows"}
InitPlaces == {"tables", "key", "keyRows", "infoRows", "columns", "create", "write"}

\* A step that fails says so when it exits; no later step is a ping.
Proceeds ==
    \/ pc' # "exited" /\ exit' = exit /\ failed' = failed
    \/ pc' = "exited" /\ exit' \in {"ok", "fatal"}
       /\ failed' \in {failed, failed \cup {"database"}, failed \cup {"file"}}

LEMMA InitFrame ==
    ASSUME cmdInit \/ Alter
    PROVE  /\ pc \in InitPlaces /\ pc' \in InitPlaces \cup {"exited"}
           /\ UNCHANGED <<flags, clock, pings, session, queries, executed, drops>>
           /\ Proceeds
<1> USE DEF InitPlaces, Proceeds, Exit, Goto, flags, work, conn
<1>1. CASE SchemaFails
  BY <1>1 DEF SchemaFails, FatalDB
<1>2. CASE Tables
  BY <1>2 DEF Tables
<1>3. CASE KeyRows
  BY <1>3 DEF KeyRows, Fatalf
<1>4. CASE Columns
  BY <1>4 DEF Columns
<1>5. CASE InfoRows
  BY <1>5 DEF InfoRows, Fatalf
<1>6. CASE SchemaDone
  BY <1>6 DEF SchemaDone
<1>7. ASSUME NEW t \in Table, QueryTable(t)
      PROVE  /\ pc \in InitPlaces /\ pc' \in InitPlaces \cup {"exited"}
             /\ UNCHANGED <<flags, clock, pings, session, queries, executed, drops>>
             /\ Proceeds
  BY <1>7 DEF QueryTable
<1>8. ASSUME NEW t \in Table, SkipTable(t)
      PROVE  /\ pc \in InitPlaces /\ pc' \in InitPlaces \cup {"exited"}
             /\ UNCHANGED <<flags, clock, pings, session, queries, executed, drops>>
             /\ Proceeds
  BY <1>8 DEF SkipTable
<1>9. CASE Create
  BY <1>9 DEF Create
<1>10. CASE Write
  BY <1>10 DEF Write
<1>11. CASE WriteFails
  BY <1>11 DEF WriteFails, FatalFile
<1>12. CASE Gofmt \/ GofmtFails
  BY <1>12 DEF Gofmt, GofmtFails, FatalFile
<1>13. CASE Alter
  BY <1>13 DEF Alter
<1> QED
  BY <1>1, <1>2, <1>3, <1>4, <1>5, <1>6, <1>7, <1>8, <1>9, <1>10, <1>11, <1>12, <1>13 DEF cmdInit

LEMMA ExecFrame ==
    ASSUME readFiles \/ cmdQuery \/ Drop
    PROVE  /\ pc \in ExecPlaces /\ pc' \in ExecPlaces \cup {"exited"}
           /\ UNCHANGED <<flags, clock, pings, todo, cur, seen, key, structs, server, files, listing>>
           /\ Proceeds
<1> USE DEF ExecPlaces, Proceeds, Exit, Goto, flags, work, conn, server
<1>1. CASE ReadFile
  BY <1>1 DEF ReadFile
<1>2. CASE ReadFails
  BY <1>2 DEF ReadFails, FatalFile
<1>3. CASE ReadDone
  BY <1>3 DEF ReadDone
<1>4. CASE Execute
  BY <1>4 DEF Execute
<1>5. CASE ExecuteFails
  BY <1>5 DEF ExecuteFails, FatalDB
<1>6. CASE RowsDone
  BY <1>6 DEF RowsDone
<1>7. CASE RowsFail
  BY <1>7 DEF RowsFail, FatalDB
<1>8. CASE ExecDone
  BY <1>8 DEF ExecDone
<1>9. CASE Drop
  BY <1>9 DEF Drop
<1> QED
  BY <1>1, <1>2, <1>3, <1>4, <1>5, <1>6, <1>7, <1>8, <1>9 DEF readFiles, cmdQuery

-----------------------------------------------------------------------------
\* The Ping loop

PingInv ==
    /\ pc = "ping" => pings <= clock /\ clock <= wait + 1
    /\ pc = "sleep" => pings <= clock + 1 /\ clock <= wait
    /\ pings <= clock + 1 /\ clock <= wait + 1 + PingTime
    /\ failed # {} => pc = "exited"
    /\ "ping" \in failed => clock >= wait

LEMMA PingInit == Init => PingInv
<1> SUFFICES ASSUME Init PROVE PingInv
  OBVIOUS
<1>1. /\ pc = "ping" /\ clock = 0 /\ pings = 0 /\ failed = {} /\ wait \in Nat /\ PingTime \in Nat
  BY ReformDBAssumption DEF Init
<1> QED  BY <1>1 DEF PingInv

LEMMA PingStep == TypeInv /\ PingInv /\ [Next]_vars => PingInv'
<1> SUFFICES ASSUME TypeInv, PingInv, [Next]_vars PROVE PingInv'
  OBVIOUS
<1>1. clock \in Nat /\ pings \in Nat /\ wait \in Nat /\ PingTime \in Nat
  BY ReformDBAssumption DEF TypeInv, TypeOK
<1>2. CASE UNCHANGED vars
  BY <1>2 DEF PingInv, vars, flags
<1>3. CASE PingSucceeds
  BY <1>1, <1>3 DEF PingSucceeds, Goto, flags, PingInv
<1>4. CASE PingFails
  <2>1. PICK d \in 0 .. PingTime : clock' = clock + d
    BY <1>4 DEF PingFails
  <2>2. pings' = pings + 1 /\ wait' = wait /\ pc = "ping" /\ failed = {}
    BY <1>4 DEF PingFails, flags, PingInv
  <2>3. pings' <= clock' + 1 /\ clock' <= wait + 1 + PingTime
    BY <1>1, <2>1, <2>2 DEF PingInv
  <2>4. CASE DeadlineMayHavePassed /\ FatalPing
    BY <1>1, <2>1, <2>2, <2>3, <2>4 DEF DeadlineMayHavePassed, FatalPing, Exit, PingInv
  <2>5. CASE DeadlineMayNotHavePassed /\ Goto("sleep")
    BY <1>1, <2>1, <2>2, <2>3, <2>5 DEF DeadlineMayNotHavePassed, Goto, PingInv
  <2> QED  BY <1>4, <2>4, <2>5 DEF PingFails
<1>5. CASE Sleep
  BY <1>1, <1>5 DEF Sleep, Goto, flags, PingInv
<1>6. CASE cmdInit \/ Alter
  <2>1. pc' \notin {"ping", "sleep"} /\ UNCHANGED <<clock, pings, wait>> /\ Proceeds /\ failed = {}
    BY <1>6, InitFrame DEF InitPlaces, flags, PingInv
  <2> QED  BY <1>1, <2>1 DEF Proceeds, PingInv
<1>7. CASE readFiles \/ cmdQuery \/ Drop
  <2>1. pc' \notin {"ping", "sleep"} /\ UNCHANGED <<clock, pings, wait>> /\ Proceeds /\ failed = {}
    BY <1>7, ExecFrame DEF ExecPlaces, flags, PingInv
  <2> QED  BY <1>1, <2>1 DEF Proceeds, PingInv
<1>8. CASE Kill
  BY <1>1, <1>8 DEF Kill, Exit, flags, PingInv
<1> QED
  BY <1>2, <1>3, <1>4, <1>5, <1>6, <1>7, <1>8 DEF Next, Program, getDB

-----------------------------------------------------------------------------
\* exec and query

\* The first n files could be read, and those with statements gave a query.
ReadUpTo(n) ==
    \A i \in 1 .. n :
        /\ input[i].readable
        /\ input[i].statements > 0 => \E j \in DOMAIN queries : queries[j][1] = i

\* The queries executed are the first of those read.
Prefix == Len(executed) <= Len(queries) /\ \A j \in 1 .. Len(executed) : executed[j] = queries[j]

ExecInv ==
    /\ pc # "exited" => exit = "none"
    /\ pc \in {"ping", "sleep"} => next = 0
    /\ pc \in {"ping", "sleep"} \/ command = "init" => queries = << >> /\ executed = << >>
    /\ command = "init" => pc \notin ExecPlaces
    /\ command # "init" => pc \notin InitPlaces
    /\ pc = "read" => executed = << >> /\ next <= Len(input) /\ ReadUpTo(next)
    /\ pc \in {"exec", "rows"} => ReadUpTo(Len(input))
    /\ pc = "exec" => Len(executed) = next
    /\ pc = "rows" => Len(executed) = next + 1
    /\ Prefix
    /\ executed # << >> => ReadUpTo(Len(input))
    /\ exit = "ok" /\ command # "init" => Len(executed) = Len(queries) /\ ReadUpTo(Len(input))
    /\ drops = 0 => session = executed

LEMMA ExecInit == Init => ExecInv
<1> SUFFICES ASSUME Init PROVE ExecInv
  OBVIOUS
<1>1. /\ pc = "ping" /\ next = 0 /\ exit = "none" /\ session = << >>
      /\ queries = << >> /\ executed = << >>
  BY DEF Init
<1> QED  BY <1>1 DEF ExecInv, ExecPlaces, InitPlaces, Prefix

\* The next query is executed: what is executed stays a part of what was read.
LEMMA RunsOnNext ==
    ASSUME TypeInv, ExecInv, pc = "exec", next < Len(queries), RunsOn(queries[next + 1]),
           UNCHANGED <<queries, drops>>
    PROVE  /\ Prefix' /\ Len(executed') = next + 1 /\ executed' # << >>
           /\ drops' = 0 => session' = executed'
<1>1. /\ executed \in Seq(Queries) /\ session \in Seq(Queries) /\ next \in Nat
      /\ queries \in Seq(Queries) /\ queries[next + 1] \in Queries /\ Len(executed) = next
  BY DEF TypeInv, TypeOK, ExecInv
<1>2. executed' = Append(executed, queries[next + 1]) /\ session' = Append(session, queries[next + 1])
  BY DEF RunsOn
<1>3. Prefix'
  <2>1. Len(executed') <= Len(queries)
    BY <1>1, <1>2
  <2>2. \A j \in 1 .. Len(executed') : executed'[j] = queries[j]
    BY <1>1, <1>2 DEF ExecInv, Prefix
  <2> QED  BY <2>1, <2>2 DEF Prefix
<1>4. Len(executed') = next + 1 /\ executed' # << >>
  BY <1>1, <1>2
<1>5. drops' = 0 => session' = executed'
  BY <1>2 DEF ExecInv
<1> QED  BY <1>3, <1>4, <1>5

LEMMA ExecStep == TypeInv /\ ExecInv /\ [Next]_vars => ExecInv'
<1> SUFFICES ASSUME TypeInv, ExecInv, [Next]_vars PROVE ExecInv'
  OBVIOUS
<1> USE DEF ExecPlaces, InitPlaces
<1>1. /\ next \in Nat /\ drops \in Nat /\ input \in Seq(Files) /\ queries \in Seq(Queries)
      /\ executed \in Seq(Queries) /\ session \in Seq(Queries)
      /\ command \in {"exec", "query", "init"}
  BY ReformDBAssumption DEF TypeInv, TypeOK
<1>2. CASE UNCHANGED vars
  BY <1>2 DEF ExecInv, Prefix, ReadUpTo, vars, flags, conn, work
<1>3. CASE PingSucceeds
  BY <1>1, <1>3 DEF PingSucceeds, Goto, ExecInv, Prefix, ReadUpTo, flags, conn, work
<1>4. CASE PingFails
  BY <1>1, <1>4
  DEF PingFails, FatalPing, Exit, Goto, ExecInv, Prefix, ReadUpTo, flags, conn, work
<1>5. CASE Sleep
  BY <1>1, <1>5 DEF Sleep, Goto, ExecInv, Prefix, ReadUpTo, flags, conn, work
<1>6. CASE cmdInit \/ Alter
  <2>1. command = "init" /\ pc \in InitPlaces
    BY <1>1, <1>6, InitFrame DEF ExecInv
  <2>2. /\ pc' \notin ExecPlaces /\ pc' \notin {"ping", "sleep"}
        /\ UNCHANGED <<command, input, session, queries, executed, drops>> /\ Proceeds
    BY <1>6, InitFrame DEF flags
  <2> QED  BY <1>1, <2>1, <2>2 DEF ExecInv, Prefix, ReadUpTo, Proceeds
<1>7. CASE ReadFile
  <2> DEFINE new == QueriesOf(next + 1)
  <2>1. next + 1 \in DOMAIN input
    BY <1>1, <1>7 DEF ReadFile
  <2>2. new \in Seq(Queries)
        /\ (input[next + 1].statements > 0 => new # << >> /\ new[1][1] = next + 1)
    BY <1>1, <2>1, QueriesOfType
  <2>3. /\ queries' = queries \o new /\ next' = next + 1 /\ pc' = "read" /\ input[next + 1].readable
        /\ pc = "read" /\ UNCHANGED <<input, executed, session, drops, exit, command>>
    BY <1>7 DEF ReadFile, flags, conn
  <2> HIDE DEF new
  <2>4. Len(queries') = Len(queries) + Len(new)
        /\ \A j \in DOMAIN queries : j \in DOMAIN queries' /\ queries'[j] = queries[j]
    BY <1>1, <2>2, <2>3
  <2>5. ReadUpTo(next)
    BY <2>3 DEF ExecInv
  <2>6. ReadUpTo(next)'
    <3> SUFFICES ASSUME NEW i \in 1 .. next + 1
                 PROVE  /\ input[i].readable
                        /\ input[i].statements > 0 => \E j \in DOMAIN queries' : queries'[j][1] = i
      BY <2>3 DEF ReadUpTo
    <3>1. CASE i = next + 1
      <4>1. input[i].readable
        BY <2>3, <3>1
      <4>2. ASSUME input[i].statements > 0 PROVE \E j \in DOMAIN queries' : queries'[j][1] = i
        <5>1. new # << >> /\ new[1][1] = i
          BY <2>2, <3>1, <4>2
        <5>2. Len(queries) + 1 \in DOMAIN queries' /\ queries'[Len(queries) + 1] = new[1]
          BY <1>1, <2>2, <2>3, <5>1
        <5> QED  BY <5>1, <5>2
      <4> QED  BY <4>1, <4>2
    <3>2. CASE i # next + 1
      <4>1. i \in 1 .. next
        BY <1>1, <3>2
      <4> QED  BY <2>4, <2>5, <4>1 DEF ReadUpTo
    <3> QED  BY <3>1, <3>2
  <2>7. executed' = << >> /\ next' <= Len(input) /\ exit' = "none" /\ command # "init"
    BY <1>1, <2>1, <2>3 DEF ExecInv
  <2> QED  BY <1>1, <2>3, <2>6, <2>7 DEF ExecInv, Prefix
<1>8. CASE ReadFails
  BY <1>1, <1>8 DEF ReadFails, FatalFile, Exit, ExecInv, Prefix, ReadUpTo, flags, conn, work
<1>9. CASE ReadDone
  BY <1>1, <1>9 DEF ReadDone, Goto, ExecInv, Prefix, ReadUpTo, flags, conn, work
<1>10. CASE Execute
  <2>1. /\ pc = "exec" /\ next < Len(queries) /\ RunsOn(queries[next + 1])
        /\ UNCHANGED <<queries, drops, input, command, exit>>
        /\ \/ pc' = "rows" /\ next' = next
           \/ pc' = "exec" /\ next' = next + 1
    BY <1>10 DEF Execute, Goto, flags
  <2>2. /\ Prefix' /\ Len(executed') = next + 1 /\ executed' # << >>
        /\ drops' = 0 => session' = executed'
    BY <2>1, RunsOnNext
  <2>3. ReadUpTo(Len(input))'
    BY <2>1 DEF ExecInv, ReadUpTo
  <2>4. exit' = "none" /\ command' # "init"
    BY <2>1 DEF ExecInv
  <2> QED  BY <1>1, <2>1, <2>2, <2>3, <2>4 DEF ExecInv
<1>11. CASE ExecuteFails
  <2>1. /\ pc = "exec" /\ next < Len(queries) /\ pc' = "exited" /\ exit' = "fatal"
        /\ UNCHANGED <<queries, drops, input, command>>
        /\ \/ UNCHANGED <<session, executed>>
           \/ RunsOn(queries[next + 1])
    BY <1>11 DEF ExecuteFails, FatalDB, Exit, flags, work
  <2>2. Prefix' /\ (drops' = 0 => session' = executed')
    BY <2>1, RunsOnNext DEF ExecInv, Prefix
  <2>3. ReadUpTo(Len(input))' /\ command' # "init"
    BY <2>1 DEF ExecInv, ReadUpTo
  <2> QED  BY <2>1, <2>2, <2>3 DEF ExecInv
<1>12. CASE RowsDone
  BY <1>1, <1>12 DEF RowsDone, Goto, ExecInv, Prefix, ReadUpTo, flags
<1>13. CASE RowsFail
  BY <1>1, <1>13 DEF RowsFail, FatalDB, Exit, ExecInv, Prefix, ReadUpTo, flags, conn, work
<1>14. CASE ExecDone
  BY <1>1, <1>14 DEF ExecDone, Exit, ExecInv, Prefix, ReadUpTo, flags, conn, work
<1>15. CASE Drop
  BY <1>1, <1>15 DEF Drop, ExecInv, Prefix, ReadUpTo, flags, work
<1>16. CASE Kill
  BY <1>1, <1>16 DEF Kill, Exit, ExecInv, Prefix, ReadUpTo, flags, conn, work
<1> QED
  BY <1>2, <1>3, <1>4, <1>5, <1>6, <1>7, <1>8, <1>9, <1>10, <1>11, <1>12, <1>13, <1>14, <1>15,
     <1>16
  DEF Next, Program, getDB, readFiles, cmdQuery

LEMMA ExecInvCorrect == TypeInv /\ ExecInv => ExecutesInOrder
<1> SUFFICES ASSUME TypeInv, ExecInv PROVE ExecutesInOrder
  OBVIOUS
<1>1. /\ input \in Seq(Files) /\ queries \in Seq(Queries) /\ executed \in Seq(Queries)
      /\ Len(executed) \in Nat /\ Len(executed) <= Len(queries)
  BY DEF TypeInv, TypeOK, ExecInv, Prefix
<1>2. executed = SubSeq(queries, 1, Len(executed))
  BY <1>1 DEF ExecInv, Prefix
<1>3. executed # << >> => \A i \in DOMAIN input : input[i].readable
  BY <1>1 DEF ExecInv, ReadUpTo
<1>4. exit = "ok" => executed = queries
  <2>1. CASE command = "init"
    BY <2>1 DEF ExecInv
  <2>2. CASE command # "init"
    BY <1>1, <2>2 DEF ExecInv, Prefix
  <2> QED  BY <2>1, <2>2
<1>5. exit = "ok" /\ command # "init" => \A i \in DOMAIN input :
          input[i].statements > 0 => \E j \in DOMAIN queries : queries[j][1] = i
  BY <1>1 DEF ExecInv, ReadUpTo
<1>6. drops = 0 => session = executed
  BY DEF ExecInv
<1> QED  BY <1>1, <1>2, <1>3, <1>4, <1>5, <1>6 DEF ExecutesInOrder

-----------------------------------------------------------------------------
\* init: what is read of the schema

Reading == {"key", "keyRows", "infoRows", "columns"}
InitOk  == exit = "ok" /\ command = "init"
Listed  == {structs[i].table : i \in DOMAIN structs}

\* A struct is that of its table, unless another client has altered the table.
TrueStruct(s) ==
    \/ s.table \in altered
    \/ s = StructOf(s.table, schema[s.table], KeyOf(schema[s.table])) /\ Exists(s.table)

SchemaInv ==
    /\ pc \in {"ping", "sleep", "tables"} \cup ExecPlaces => structs = << >>
    /\ pc \in Reading \cup {"create", "write"} \/ InitOk =>
          todo \subseteq listing /\ Listed = listing \ todo
    /\ pc \in {"create", "write"} \/ InitOk => todo = {}
    /\ Listed \subseteq listing
    /\ \A i \in DOMAIN structs : TrueStruct(structs[i])
    /\ pc \in {"keyRows", "infoRows", "columns"} => cur \in todo
    /\ pc \in {"keyRows", "infoRows"} => cur \in altered \/ seen = schema[cur]
    /\ pc = "columns" => cur \in altered \/ key = KeyOf(schema[cur])
    /\ pc \in Reading => \A t \in todo : t \in altered \/ Exists(t)
    /\ dialect = "standard" => \A t \in Table : schema[t].key \cap schema[t].null = {}

LEMMA SchemaInit == Init => SchemaInv
<1> SUFFICES ASSUME Init PROVE SchemaInv
  OBVIOUS
<1>1. pc = "ping" /\ exit = "none" /\ structs = << >>
  BY DEF Init
<1>2. dialect = "standard" => \A t \in Table : schema[t].key \cap schema[t].null = {}
  <2>1. CASE command = "init"
    BY <2>1, Zenon DEF Init
  <2>2. CASE command # "init"
    <3>1. schema = [t \in Table |-> [columns |-> {}, null |-> {}, key |-> {}]]
      BY <2>2 DEF Init
    <3> QED  BY <3>1
  <2> QED  BY <2>1, <2>2
<1> QED  BY <1>1, <1>2 DEF SchemaInv, Reading, InitOk, Listed

\* Steps that leave what was read alone.
LEMMA SchemaFrame ==
    ASSUME SchemaInv, UNCHANGED <<structs, todo, listing, schema, altered, dialect, command>>,
           \/ pc' = "exited" /\ (InitOk' => pc = "create")
           \/ pc' \in {"ping", "sleep", "tables"} \cup ExecPlaces /\ structs = << >> /\ ~InitOk'
           \/ pc' \in {"create", "write"} /\ pc \in {"create", "write"} /\ ~InitOk'
    PROVE  SchemaInv'
BY DEF SchemaInv, Reading, ExecPlaces, Listed, TrueStruct, Exists

\* A struct is made for the table that is looked at.
LEMMA SchemaAppend ==
    ASSUME TypeInv, SchemaInv, pc \in Reading, cur \in todo, NEW s \in Structs,
           s.table = cur, TrueStruct(s),
           structs' = Append(structs, s), todo' = todo \ {cur}, pc' = "key", ~InitOk',
           UNCHANGED <<listing, schema, altered, dialect>>
    PROVE  SchemaInv'
<1>1. structs \in Seq(Structs)
  BY DEF TypeInv, TypeOK
<1>2. Listed' = Listed \cup {cur}
  <2>1. ASSUME NEW t \in Listed PROVE t \in Listed'
    BY <1>1, <2>1 DEF Listed
  <2>2. cur \in Listed'
    <3>1. Len(structs) + 1 \in DOMAIN structs' /\ structs'[Len(structs) + 1] = s
      BY <1>1
    <3> QED  BY <3>1 DEF Listed
  <2>3. ASSUME NEW t \in Listed' PROVE t \in Listed \cup {cur}
    BY <1>1, <2>3 DEF Listed
  <2> QED  BY <2>1, <2>2, <2>3
<1>3. todo' \subseteq listing' /\ Listed' = listing' \ todo'
  BY <1>2 DEF SchemaInv
<1>4. (\A i \in DOMAIN structs : TrueStruct(structs[i]))'
  <2>1. \A i \in DOMAIN structs' : structs'[i] = s \/ \E j \in DOMAIN structs : structs'[i] = structs[j]
    BY <1>1
  <2>2. \A i \in DOMAIN structs' : TrueStruct(structs'[i])
    BY <2>1 DEF SchemaInv
  <2> QED  BY <2>2 DEF TrueStruct, Exists
<1>5. \A t \in todo' : t \in altered' \/ Exists(t)'
  BY DEF SchemaInv, Exists
<1> QED  BY <1>3, <1>4, <1>5 DEF SchemaInv, ExecPlaces, Reading

LEMMA SchemaStep == TypeInv /\ ExecInv /\ SchemaInv /\ [Next]_vars => SchemaInv'
<1> SUFFICES ASSUME TypeInv, ExecInv, SchemaInv, [Next]_vars PROVE SchemaInv'
  OBVIOUS
<1>1. CASE UNCHANGED vars
  BY <1>1 DEF vars, flags, work, server, SchemaInv, Reading, InitOk, Listed, TrueStruct, Exists
<1>2. CASE getDB \/ readFiles \/ cmdQuery \/ Drop
  <2>1. structs = << >> /\ pc # "exited" /\ pc \notin InitPlaces
    BY <1>2
    DEF SchemaInv, getDB, PingSucceeds, PingFails, Sleep, readFiles, ReadFile, ReadFails, ReadDone,
        cmdQuery, Execute, ExecuteFails, RowsDone, RowsFail, ExecDone, Drop, ExecPlaces, InitPlaces
  <2>2. UNCHANGED <<structs, todo, listing, schema, altered, dialect, command>>
    <3>1. CASE getDB
      BY <3>1 DEF getDB, PingSucceeds, PingFails, Sleep, flags, work, server
    <3>2. CASE readFiles \/ cmdQuery \/ Drop
      BY <3>2, ExecFrame DEF flags, server
    <3> QED  BY <1>2, <3>1, <3>2
  <2>3. \/ pc' = "exited" /\ ~InitOk'
        \/ pc' \in {"ping", "sleep", "tables"} \cup ExecPlaces /\ ~InitOk'
    <3>1. CASE getDB
      BY <3>1 DEF getDB, PingSucceeds, PingFails, Sleep, FatalPing, Exit, Goto, ExecInv, ExecPlaces,
                  InitOk
    <3>2. CASE readFiles \/ cmdQuery \/ Drop
      <4>1. command # "init" /\ pc \in ExecPlaces
        BY <3>2, ExecFrame DEF ExecInv
      <4> QED  BY <3>2, <4>1, ExecFrame DEF flags, InitOk
    <3> QED  BY <1>2, <3>1, <3>2
  <2> QED  BY <2>1, <2>2, <2>3, SchemaFrame
<1>3. CASE SchemaFails \/ WriteFails \/ Kill
  <2>1. /\ UNCHANGED <<structs, todo, listing, schema, altered, dialect, command>>
        /\ pc' = "exited" /\ ~InitOk'
    BY <1>3 DEF SchemaFails, FatalDB, WriteFails, FatalFile, Kill, Exit, InitOk, flags, work, server
  <2> QED  BY <2>1, SchemaFrame
<1>4. CASE Create \/ Write \/ Gofmt \/ GofmtFails
  <2>1. /\ UNCHANGED <<structs, todo, listing, schema, altered, dialect, command>>
        /\ \/ pc' = "exited" /\ pc = "create"
           \/ pc' \in {"create", "write"} /\ pc \in {"create", "write"} /\ exit' = exit
    BY <1>4 DEF Create, Write, Gofmt, GofmtFails, FatalFile, Exit, Goto, flags, work, server
  <2>2. pc # "exited" => exit = "none"
    BY DEF ExecInv
  <2> QED  BY <2>1, <2>2, SchemaFrame DEF InitOk
<1>5. CASE Tables
  <2>1. /\ pc' = "key" /\ todo' = {t \in Table : Exists(t)} /\ listing' = todo' /\ structs = << >>
        /\ UNCHANGED <<structs, schema, altered, dialect>>
        /\ exit' = "none"
    BY <1>5 DEF Tables, Goto, flags, work, server, SchemaInv, ExecInv
  <2>2. Listed' = {} /\ \A i \in DOMAIN structs' : FALSE
    BY <2>1 DEF Listed
  <2> QED  BY <2>1, <2>2 DEF SchemaInv, Reading, ExecPlaces, InitOk, Exists
<1>6. CASE KeyRows
  <2>1. CASE Fatalf
    <3>1. /\ UNCHANGED <<structs, todo, listing, schema, altered, dialect, command>>
          /\ pc' = "exited" /\ ~InitOk'
      BY <1>6, <2>1 DEF KeyRows, Fatalf, Exit, InitOk, flags, work, server
    <3> QED  BY <3>1, SchemaFrame
  <2>2. CASE ~Fatalf
    <3>1. /\ UNCHANGED <<structs, todo, listing, schema, altered, dialect, command, cur>>
          /\ pc = "keyRows" /\ pc' = "columns" /\ exit' = "none" /\ key' = KeyOf(seen)
      BY <1>6, <2>2 DEF KeyRows, Goto, flags, work, server, ExecInv
    <3> QED  BY <3>1 DEF SchemaInv, Reading, ExecPlaces, InitOk, Listed, TrueStruct, Exists
  <2> QED  BY <2>1, <2>2
<1>7. CASE Columns
  <2>1. /\ pc = "columns" /\ pc' = "key" /\ exit' = "none" /\ cur \in todo
        /\ structs' = Append(structs, StructOf(cur, schema[cur], key)) /\ todo' = todo \ {cur}
        /\ UNCHANGED <<listing, schema, altered, dialect>>
    BY <1>7 DEF Columns, Goto, flags, server, ExecInv, SchemaInv
  <2> DEFINE s == StructOf(cur, schema[cur], key)
  <2>2. s \in Structs
    BY StructOfType DEF TypeInv, TypeOK
  <2>3. s.table = cur
    BY DEF StructOf
  <2>4. TrueStruct(s)
    <3>1. cur \in altered \/ (key = KeyOf(schema[cur]) /\ Exists(cur))
      BY <2>1 DEF SchemaInv, Reading
    <3> QED  BY <2>3, <3>1 DEF TrueStruct
  <2>5. pc \in Reading /\ ~InitOk'
    BY <2>1 DEF Reading, InitOk
  <2> HIDE DEF s
  <2>6. structs' = Append(structs, s)
    BY <2>1 DEF s
  <2> QED  BY <2>1, <2>2, <2>3, <2>4, <2>5, <2>6, SchemaAppend
<1>8. CASE InfoRows
  <2>1. CASE Fatalf
    <3>1. /\ UNCHANGED <<structs, todo, listing, schema, altered, dialect, command>>
          /\ pc' = "exited" /\ ~InitOk'
      BY <1>8, <2>1 DEF InfoRows, Fatalf, Exit, Goto, InitOk, flags, server
    <3> QED  BY <3>1, SchemaFrame
  <2>2. CASE ~Fatalf
    <3>1. /\ pc = "infoRows" /\ pc' = "key" /\ exit' = "none" /\ cur \in todo
          /\ structs' = Append(structs, StructOf(cur, seen, KeyOf(seen))) /\ todo' = todo \ {cur}
          /\ UNCHANGED <<listing, schema, altered, dialect>>
      BY <1>8, <2>2 DEF InfoRows, Goto, flags, server, ExecInv, SchemaInv
    <3> DEFINE s == StructOf(cur, seen, KeyOf(seen))
    <3>2. s \in Structs
      BY StructOfType, KeyOfType DEF TypeInv, TypeOK
    <3>3. s.table = cur
      BY DEF StructOf
    <3>4. TrueStruct(s)
      <4>1. cur \in altered \/ (seen = schema[cur] /\ Exists(cur))
        BY <3>1 DEF SchemaInv, Reading
      <4> QED  BY <3>3, <4>1 DEF TrueStruct
    <3>5. pc \in Reading /\ ~InitOk'
      BY <3>1 DEF Reading, InitOk
    <3> HIDE DEF s
    <3>6. structs' = Append(structs, s)
      BY <3>1 DEF s
    <3> QED  BY <3>1, <3>2, <3>3, <3>4, <3>5, <3>6, SchemaAppend
  <2> QED  BY <2>1, <2>2
<1>9. CASE SchemaDone
  <2>1. /\ UNCHANGED <<structs, todo, listing, schema, altered, dialect>>
        /\ pc = "key" /\ pc' = "create" /\ todo = {} /\ exit' = exit
    BY <1>9 DEF SchemaDone, Goto, flags, work, server
  <2> QED  BY <2>1 DEF SchemaInv, Reading, ExecPlaces, InitOk, Listed, TrueStruct, Exists
<1>10. ASSUME NEW t \in Table, QueryTable(t) PROVE SchemaInv'
  <2>1. /\ UNCHANGED <<structs, todo, listing, schema, altered, dialect>>
        /\ pc = "key" /\ pc' \in {"keyRows", "infoRows"} /\ exit' = "none"
        /\ cur' = t /\ t \in todo /\ seen' = schema[t]
    BY <1>10 DEF QueryTable, Goto, flags, server, ExecInv
  <2> QED  BY <2>1 DEF SchemaInv, Reading, ExecPlaces, InitOk, Listed, TrueStruct, Exists
<1>11. ASSUME NEW t \in Table, SkipTable(t) PROVE SchemaInv'
  <2>1. /\ UNCHANGED <<structs, schema, altered, dialect>>
        /\ pc = "key" /\ pc' = "key" /\ exit' = "none"
        /\ t \in todo /\ todo' = todo \ {t} /\ listing' = listing \ {t}
    BY <1>11 DEF SkipTable, flags, server, ExecInv
  <2>2. todo' \subseteq listing' /\ Listed' = listing' \ todo'
    BY <2>1 DEF SchemaInv, Reading, Listed
  <2> QED  BY <2>1, <2>2 DEF SchemaInv, Reading, ExecPlaces, InitOk, TrueStruct, Exists
<1>12. CASE Alter
  <2>1. PICK t \in Table : \E d \in {s[t] : s \in Schemas} \ {schema[t]} :
            /\ dialect = "standard" => d.key \cap d.null = {}
            /\ schema' = [schema EXCEPT ![t] = d]
            /\ altered' = altered \cup {t}
    BY <1>12 DEF Alter
  <2>2. PICK d : /\ dialect = "standard" => d.key \cap d.null = {}
                 /\ schema' = [schema EXCEPT ![t] = d]
                 /\ altered' = altered \cup {t}
    BY <2>1
  <2>3. /\ pc \in {"key", "keyRows", "columns"}
        /\ UNCHANGED <<pc, exit, structs, todo, listing, dialect, cur, seen, key>>
    BY <1>12 DEF Alter, flags, work
  <2>4. schema \in [Table -> Defs]
    BY DEF TypeInv, TypeOK
  <2>5. \A u : u # t => schema'[u] = schema[u]
    BY <2>2, <2>4
  <2>6. (\A i \in DOMAIN structs : TrueStruct(structs[i]))'
    BY <2>2, <2>3, <2>5 DEF SchemaInv, TrueStruct, Exists
  <2>7. (dialect = "standard" => \A u \in Table : schema[u].key \cap schema[u].null = {})'
    BY <2>2, <2>3, <2>4 DEF SchemaInv
  <2>8. (\A u \in todo : u \in altered \/ Exists(u))'
    BY <2>2, <2>3, <2>5 DEF SchemaInv, Reading, Exists
  <2>9. exit' = "none"
    BY <2>3 DEF ExecInv
  <2> QED
    BY <2>2, <2>3, <2>5, <2>6, <2>7, <2>8, <2>9 DEF SchemaInv, Reading, ExecPlaces, InitOk, Listed
<1> QED
  BY <1>1, <1>2, <1>3, <1>4, <1>5, <1>6, <1>7, <1>8, <1>9, <1>10, <1>11, <1>12
  DEF Next, Program, cmdInit

-----------------------------------------------------------------------------
\* init: what is written to the directory

FileOf(i)  == Lower[structs[i].table]
Own(f)     == \E i \in DOMAIN structs : FileOf(i) = f
Untouched  == files = before

\* The file of the i-th struct is complete, with that struct or that of another
\* table with the same file.
Written(i) ==
    \E j \in DOMAIN structs :
        /\ FileOf(j) = FileOf(i)
        /\ files[FileOf(i)].state = "whole" /\ files[FileOf(i)].struct = {structs[j]}

\* What gofmt has done by the end of the run to a file that init has not written.
LaidOut(f) ==
    /\ files[f] = Laid(before[f]) /\ gofmtF /\ pc = "exited"
    /\ \A i \in DOMAIN structs : Written(i)

FilesInv ==
    /\ pc \notin {"create", "write", "exited"} => Untouched
    /\ pc \in InitPlaces \ {"create", "write"} => next = 0
    /\ exit = "fatal" /\ "file" \notin failed => Untouched
    /\ \A f \in FileName : Own(f) \/ files[f] = before[f] \/ LaidOut(f)
    /\ \A f \in FileName : \A s \in files[f].struct :
          \E i \in DOMAIN structs : s = structs[i] /\ FileOf(i) = f
    /\ pc = "create" => next <= Len(structs) /\ \A i \in 1 .. next : Written(i)
    /\ pc = "write" => \A i \in 1 .. next : FileOf(i) = CurFile \/ Written(i)
    /\ InitOk => \A i \in DOMAIN structs : Written(i) /\ (gofmtF => files[FileOf(i)].tidy)

LEMMA OlderHasNoStruct ==
    ASSUME TypeInv, NEW f \in FileName
    PROVE  before[f].struct = {}
<1>1. before[f] \in Older
  BY DEF TypeInv, TypeOK
<1> QED  BY <1>1 DEF Older, Content

LEMMA LaidKeeps ==
    ASSUME NEW F \in [state : FileStates, struct : SUBSET Structs, tidy : BOOLEAN]
    PROVE  /\ Laid(F).state = F.state /\ Laid(F).struct = F.struct
           /\ F.tidy => Laid(F).tidy
           /\ F.state = "whole" => Laid(F).tidy
BY DEF Laid

LEMMA FilesInit == Init => FilesInv
<1> SUFFICES ASSUME Init PROVE FilesInv
  OBVIOUS
<1>1. pc = "ping" /\ exit = "none" /\ Untouched
  BY DEF Init, Untouched
<1>2. \A f \in FileName : files[f].struct = {}
  BY <1>1, TypeInit, OlderHasNoStruct DEF Untouched
<1> QED  BY <1>1, <1>2 DEF FilesInv, Untouched, InitPlaces, InitOk

\* Steps before the first file is touched.
LEMMA FilesFrame ==
    ASSUME TypeInv, Untouched, UNCHANGED <<files, before>>, ~InitOk',
           \/ pc' \notin InitPlaces
           \/ pc' \in InitPlaces \ {"create", "write"} /\ next' = 0
           \/ pc' = "create" /\ next' = 0 /\ structs' \in Seq(Structs)
    PROVE  FilesInv'
<1>1. Untouched'
  BY DEF Untouched
<1>2. \A f \in FileName : files'[f].struct = {}
  BY OlderHasNoStruct DEF Untouched
<1> QED  BY <1>1, <1>2 DEF FilesInv, Untouched, InitPlaces

LEMMA FilesStep ==
    TypeInv /\ PingInv /\ ExecInv /\ FilesInv /\ [Next]_vars => FilesInv'
<1> SUFFICES ASSUME TypeInv, PingInv, ExecInv, FilesInv, [Next]_vars PROVE FilesInv'
  OBVIOUS
<1>1. /\ next \in Nat /\ structs \in Seq(Structs) /\ Lower \in [Table -> FileName]
      /\ \A i \in DOMAIN structs : structs[i].table \in Table
      /\ command \in {"exec", "query", "init"}
      /\ files \in Directories
  <2>1. /\ next \in Nat /\ structs \in Seq(Structs) /\ command \in {"exec", "query", "init"}
        /\ files \in Directories
    BY DEF TypeInv, TypeOK, Directories
  <2>2. \A s \in Structs : s.table \in Table
    BY DEF Structs
  <2>3. \A i \in DOMAIN structs : structs[i] \in Structs
    BY <2>1
  <2> QED  BY <2>1, <2>2, <2>3, ReformDBAssumption
<1>2. pc # "exited" => exit = "none" /\ failed = {}
  BY DEF ExecInv, PingInv
<1>3. CASE UNCHANGED vars
  <2>1. UNCHANGED <<pc, next, exit, failed, command, structs, files, before, gofmtF>>
    BY <1>3 DEF vars, flags, work
  <2>2. \A i : Written(i) => Written(i)'
    BY <2>1 DEF Written, FileOf
  <2>3. (Untouched => Untouched') /\ InitOk' = InitOk /\ CurFile' = CurFile /\ \A i : FileOf(i)' = FileOf(i)
    BY <2>1 DEF Untouched, InitOk, CurFile, FileOf
  <2>4. \A f : (Own(f) => Own(f)') /\ (LaidOut(f) => LaidOut(f)')
    BY <2>1, <2>2 DEF Own, LaidOut, FileOf
  <2> QED  BY <2>1, <2>2, <2>3, <2>4 DEF FilesInv
<1>4. CASE getDB
  <2>1. pc \in {"ping", "sleep"} /\ UNCHANGED <<files, before, next>> /\ next = 0
    BY <1>4 DEF getDB, PingSucceeds, PingFails, Sleep, flags, work, ExecInv
  <2>2. pc' \in {"ping", "sleep", "tables", "read", "exited"} /\ ~InitOk'
    BY <1>2, <1>4
    DEF getDB, PingSucceeds, PingFails, Sleep, FatalPing, Exit, Goto, InitOk
  <2> QED  BY <2>1, <2>2, FilesFrame DEF FilesInv, InitPlaces
<1>5. CASE readFiles \/ cmdQuery \/ Drop
  <2>1. /\ pc \in ExecPlaces /\ pc' \in ExecPlaces \cup {"exited"}
        /\ UNCHANGED <<files, before, command>>
    BY <1>5, ExecFrame DEF flags
  <2>2. command # "init"
    BY <2>1 DEF ExecInv
  <2> QED  BY <2>1, <2>2, FilesFrame DEF FilesInv, InitPlaces, ExecPlaces, InitOk
<1>6. CASE SchemaFails \/ Tables \/ KeyRows \/ Columns \/ InfoRows \/ SchemaDone \/ Alter
           \/ \E t \in Table : QueryTable(t) \/ SkipTable(t)
  <2>1. /\ pc \in InitPlaces \ {"create", "write"}
        /\ UNCHANGED <<files, before, next>> /\ ~InitOk'
        /\ pc' \in (InitPlaces \ {"write"}) \cup {"exited"}
    <3>1. pc \in InitPlaces \ {"create", "write"}
      BY <1>6 DEF SchemaFails, Tables, KeyRows, Columns, InfoRows, SchemaDone, Alter, QueryTable,
                  SkipTable, InitPlaces
    <3>2. UNCHANGED <<files, before, next>>
      BY <1>6 DEF SchemaFails, Tables, KeyRows, Columns, InfoRows, SchemaDone, Alter, QueryTable,
                  SkipTable, flags, work
    <3>3. exit' \in {exit, "fatal"}
      BY <1>6 DEF SchemaFails, Tables, KeyRows, Columns, InfoRows, SchemaDone, Alter, QueryTable,
                  SkipTable, FatalDB, Fatalf, Exit, Goto
    <3>4. pc' \in (InitPlaces \ {"write"}) \cup {"exited"}
      BY <1>6, <3>1 DEF SchemaFails, Tables, KeyRows, Columns, InfoRows, SchemaDone, Alter,
                  QueryTable, SkipTable, FatalDB, Fatalf, Exit, Goto, InitPlaces
    <3> QED  BY <1>2, <3>1, <3>2, <3>3, <3>4 DEF InitOk, InitPlaces
  <2>2. structs' \in Seq(Structs)
    BY TypeStep DEF TypeInv, TypeOK
  <2> QED  BY <2>1, <2>2, FilesFrame DEF FilesInv, InitPlaces
<1>7. CASE Kill
  <2>1. /\ pc # "exited" /\ pc' = "exited" /\ exit' = "killed"
        /\ UNCHANGED <<files, before, structs>>
    BY <1>7 DEF Kill, Exit, flags, work
  <2> QED  BY <2>1 DEF FilesInv, LaidOut, InitPlaces, InitOk, Own, FileOf
<1>8. CASE WriteFails
  <2>1. /\ pc # "exited" /\ pc' = "exited" /\ exit' = "fatal" /\ "file" \in failed'
        /\ UNCHANGED <<files, before, structs>>
    BY <1>8 DEF WriteFails, FatalFile, Exit, flags, work
  <2> QED  BY <2>1 DEF FilesInv, LaidOut, InitPlaces, InitOk, Own, FileOf
<1>9. CASE Gofmt \/ GofmtFails
  <2>1. /\ pc = "create" /\ next = Len(structs) /\ pc' = "exited"
        /\ UNCHANGED <<before, gofmtF, structs>>
        /\ \/ exit' = "ok"
           \/ exit' = "fatal" /\ "file" \in failed'
    BY <1>9 DEF Gofmt, GofmtFails, FatalFile, Exit, flags, work
  <2>2. /\ \A i \in DOMAIN structs : Written(i)
        /\ \A i \in DOMAIN structs : FileOf(i) \in FileName /\ FileOf(i)' = FileOf(i)
    BY <1>1, <2>1 DEF FilesInv, FileOf
  <2>3. \A f \in FileName : files'[f] = files[f] \/ (gofmtF /\ files'[f] = Laid(files[f]))
    BY <1>9 DEF Gofmt, GofmtFails
  <2>4. \A f \in FileName : files'[f].state = files[f].state /\ files'[f].struct = files[f].struct
    BY <1>1, <2>3, LaidKeeps DEF Directories
  <2>5. (\A i \in DOMAIN structs : Written(i))'
    BY <2>1, <2>2, <2>4 DEF Written
  <2>6. \A f \in FileName : (Own(f) \/ files[f] = before[f] \/ LaidOut(f))'
    <3> SUFFICES ASSUME NEW f \in FileName, ~Own(f) PROVE (files[f] = before[f] \/ LaidOut(f))'
      BY <2>1, <2>2 DEF Own
    <3>1. files[f] = before[f]
      BY <2>1 DEF FilesInv, LaidOut
    <3> QED  BY <2>1, <2>3, <2>5, <3>1 DEF LaidOut
  <2>7. exit' = "ok" /\ gofmtF => \A i \in DOMAIN structs : files'[FileOf(i)].tidy
    <3> SUFFICES ASSUME exit' = "ok", gofmtF, NEW i \in DOMAIN structs
                 PROVE  files'[FileOf(i)].tidy
      OBVIOUS
    <3>1. CASE Gofmt
      <4>1. files'[FileOf(i)] = Laid(files[FileOf(i)]) /\ files[FileOf(i)].state = "whole"
        BY <2>2, <3>1 DEF Gofmt, Written
      <4> QED  BY <1>1, <2>2, <4>1, LaidKeeps DEF Directories
    <3>2. CASE GofmtFails
      BY <3>2 DEF GofmtFails, FatalFile, Exit
    <3> QED  BY <1>9, <3>1, <3>2
  <2>8. (\A f \in FileName : \A s \in files[f].struct :
            \E i \in DOMAIN structs : s = structs[i] /\ FileOf(i) = f)'
    BY <2>1, <2>2, <2>4 DEF FilesInv
  <2> QED  BY <2>1, <2>2, <2>5, <2>6, <2>7, <2>8 DEF FilesInv, InitPlaces, InitOk
<1>10. CASE Create
  <2>1. /\ pc = "create" /\ next < Len(structs) /\ pc' = "write" /\ exit' = "none"
        /\ files' = [files EXCEPT ![CurFile] = Content("partial", {})]
        /\ UNCHANGED <<structs, next, before>>
    BY <1>2, <1>10 DEF Create, Goto, flags, work
  <2>2. next + 1 \in DOMAIN structs /\ CurFile = FileOf(next + 1) /\ CurFile \in FileName
    BY <1>1, <2>1 DEF CurFile, FileOf
  <2>3. \A f \in FileName : f # CurFile => files'[f] = files[f]
    BY <1>1, <2>1 DEF Directories
  <2>4. files'[CurFile].struct = {}
    BY <1>1, <2>1, <2>2 DEF Directories, Content
  <2>5. \A f \in FileName : (Own(f) \/ files[f] = before[f])'
    BY <2>1, <2>2, <2>3 DEF FilesInv, LaidOut, Own, FileOf
  <2>6. (\A f \in FileName : \A s \in files[f].struct :
            \E i \in DOMAIN structs : s = structs[i] /\ FileOf(i) = f)'
    BY <2>1, <2>3, <2>4 DEF FilesInv, FileOf
  <2>7. (\A i \in 1 .. next : FileOf(i) = CurFile \/ Written(i))'
    <3> SUFFICES ASSUME NEW i \in 1 .. next PROVE (FileOf(i) = CurFile \/ Written(i))'
      BY <2>1
    <3>1. i \in DOMAIN structs /\ FileOf(i) \in FileName /\ Written(i)
      BY <1>1, <2>1 DEF FilesInv, FileOf
    <3>2. FileOf(i)' = FileOf(i) /\ CurFile' = CurFile
      BY <2>1 DEF FileOf, CurFile
    <3>3. CASE FileOf(i) # CurFile
      BY <2>1, <2>3, <3>1, <3>2, <3>3 DEF Written, FileOf
    <3> QED  BY <3>2, <3>3
  <2> QED  BY <2>1, <2>5, <2>6, <2>7 DEF FilesInv, InitPlaces, InitOk
<1>11. CASE Write
  <2>1. /\ pc = "write" /\ next < Len(structs) /\ pc' = "create" /\ exit' = "none"
        /\ files' = [files EXCEPT ![CurFile] = Content("whole", {structs[next + 1]})]
        /\ structs' = structs /\ next' = next + 1 /\ before' = before
    BY <1>2, <1>11 DEF Write, Goto, flags, TypeInv
  <2>2. next + 1 \in DOMAIN structs /\ CurFile = FileOf(next + 1) /\ CurFile \in FileName
    BY <1>1, <2>1 DEF CurFile, FileOf
  <2>3. \A f \in FileName : f # CurFile => files'[f] = files[f]
    BY <1>1, <2>1 DEF Directories
  <2>4. files'[CurFile].state = "whole" /\ files'[CurFile].struct = {structs[next + 1]}
    BY <1>1, <2>1, <2>2 DEF Directories, Content
  <2>5. \A f \in FileName : (Own(f) \/ files[f] = before[f])'
    BY <2>1, <2>2, <2>3 DEF FilesInv, LaidOut, Own, FileOf
  <2>6. (\A f \in FileName : \A s \in files[f].struct :
            \E i \in DOMAIN structs : s = structs[i] /\ FileOf(i) = f)'
    <3> SUFFICES ASSUME NEW f \in FileName, NEW s \in files'[f].struct
                 PROVE  \E i \in DOMAIN structs : s = structs[i] /\ FileOf(i) = f
      BY <2>1 DEF FileOf
    <3>1. CASE f = CurFile
      BY <2>2, <2>4, <3>1
    <3>2. CASE f # CurFile
      BY <2>3, <3>2 DEF FilesInv
    <3> QED  BY <3>1, <3>2
  <2>7. (\A i \in 1 .. next : Written(i))'
    <3> SUFFICES ASSUME NEW i \in 1 .. next + 1 PROVE Written(i)'
      BY <2>1
    <3>1. i \in DOMAIN structs /\ FileOf(i) \in FileName
      BY <1>1, <2>1 DEF FileOf
    <3>2. CASE FileOf(i) = CurFile
      BY <2>1, <2>2, <2>4, <3>2 DEF Written, FileOf
    <3>3. CASE FileOf(i) # CurFile
      <4>1. i \in 1 .. next
        BY <1>1, <2>2, <3>3
      <4>2. Written(i)
        BY <2>1, <3>3, <4>1 DEF FilesInv
      <4> QED  BY <2>1, <2>3, <3>1, <3>3, <4>2 DEF Written, FileOf
    <3> QED  BY <3>2, <3>3
  <2>8. next' <= Len(structs')
    BY <1>1, <2>1
  <2> QED  BY <2>1, <2>5, <2>6, <2>7, <2>8 DEF FilesInv, InitPlaces, InitOk
<1> QED
  BY <1>3, <1>4, <1>5, <1>6, <1>7, <1>8, <1>9, <1>10, <1>11 DEF Next, Program, cmdInit

LEMMA FilesMatch == TypeInv /\ ExecInv /\ SchemaInv /\ FilesInv => FilesMatchSchema
<1> SUFFICES ASSUME TypeInv, ExecInv, SchemaInv, FilesInv PROVE FilesMatchSchema
  OBVIOUS
<1>1. schema \in [Table -> Defs] /\ listing \subseteq Table
  BY DEF TypeInv, TypeOK
<1>2. ASSUME InitOk, NEW t \in listing
      PROVE  \E s \in files[Lower[t]].struct :
                /\ files[Lower[t]].state = "whole" /\ files[Lower[t]].struct = {s}
                /\ gofmtF => files[Lower[t]].tidy
                /\ s.table \in listing /\ Lower[s.table] = Lower[t]
                /\ s.table \notin altered => Matches(s, schema[s.table])
  <2>1. Listed = listing
    BY <1>2 DEF SchemaInv
  <2>2. PICK i \in DOMAIN structs : structs[i].table = t
    BY <2>1 DEF Listed
  <2>3. PICK j \in DOMAIN structs :
            /\ FileOf(j) = FileOf(i)
            /\ files[FileOf(i)].state = "whole" /\ files[FileOf(i)].struct = {structs[j]}
            /\ gofmtF => files[FileOf(i)].tidy
    BY <1>2 DEF FilesInv, Written
  <2> DEFINE s == structs[j]
  <2>4. /\ files[Lower[t]].state = "whole" /\ files[Lower[t]].struct = {s}
        /\ gofmtF => files[Lower[t]].tidy
        /\ Lower[s.table] = Lower[t]
    BY <2>2, <2>3 DEF FileOf
  <2>5. s.table \in listing /\ TrueStruct(s)
    BY <2>1 DEF Listed, SchemaInv
  <2>6. ASSUME s.table \notin altered PROVE Matches(s, schema[s.table])
    <3> DEFINE d == schema[s.table]
    <3>1. s = StructOf(s.table, d, KeyOf(d)) /\ d \in Defs
      BY <1>1, <2>5, <2>6 DEF TrueStruct
    <3>2. KeyOf(d) \in d.columns \/ KeyOf(d) = NoColumn
      BY <3>1, KeyOfType DEF Defs
    <3> HIDE DEF s, d
    <3>3. DOMAIN s.types = d.columns /\ s.pk = KeyOf(d)
      BY <3>1, <3>2 DEF StructOf
    <3> QED  BY <3>3 DEF Matches, d
  <2>7. s \in files[Lower[t]].struct
    BY <2>4
  <2> HIDE DEF s
  <2> QED  BY <2>4, <2>5, <2>6, <2>7
<1>3. ASSUME NEW f \in FileName
      PROVE  \/ \E t \in listing : Lower[t] = f
             \/ files[f] = before[f]
             \/ files[f] = Laid(before[f]) /\ gofmtF /\ pc = "exited" /\ AllWritten
  <2>1. CASE Own(f)
    BY <2>1 DEF SchemaInv, Listed, Own, FileOf
  <2>2. CASE LaidOut(f)
    BY <2>2 DEF LaidOut, Written, AllWritten, FileOf
  <2> QED  BY <2>1, <2>2 DEF FilesInv
<1>4. exit = "fatal" /\ "file" \notin failed => files = before
  BY DEF FilesInv, Untouched
<1> QED  BY <1>2, <1>3, <1>4 DEF FilesMatchSchema, InitOk

LEMMA GeneratorAccepts == TypeInv /\ SchemaInv /\ FilesInv => GeneratorAcceptsInit
<1> SUFFICES ASSUME TypeInv, SchemaInv, FilesInv, NEW f \in FileName, NEW s \in files[f].struct,
                    s.table \notin altered, s.pk \notin Bytes,
                    ~(dialect = "sqlite3" /\ s.pk \in schema[s.table].null)
             PROVE  Accepts(s)
  BY DEF GeneratorAcceptsInit
<1> DEFINE d == schema[s.table]
<1>1. PICK i \in DOMAIN structs : s = structs[i]
  BY DEF FilesInv
<1>2. s = StructOf(s.table, d, KeyOf(d)) /\ d.columns # {}
  BY <1>1 DEF SchemaInv, TrueStruct, Exists
<1>3. s.table \in Table /\ d \in Defs
  BY <1>1 DEF TypeInv, TypeOK, Structs
<1>4. dialect = "standard" => d.key \cap d.null = {}
  BY <1>3 DEF SchemaInv
<1>5. dialect \in {"sqlite3", "standard"}
  BY DEF TypeInv, TypeOK
<1>6. KeyOf(d) # NoColumn => KeyOf(d) \in d.key /\ KeyOf(d) \in d.columns
  BY <1>3, KeyOfType DEF Defs
<1>7. s.pk # NoColumn => s.pk = KeyOf(d)
  BY <1>2 DEF StructOf
<1>8. s.types = [c \in d.columns |-> goType(c, c \in d.null)]
  BY <1>2 DEF StructOf
<1>9. ASSUME s.pk # NoColumn PROVE s.types[s.pk] = "plain"
  <2>1. s.pk \in d.key /\ s.pk \in d.columns
    BY <1>6, <1>7, <1>9
  <2>2. s.pk \notin d.null
    BY <1>4, <1>5, <2>1
  <2>3. goType(s.pk, s.pk \in d.null) = "plain"
    BY <2>2 DEF goType
  <2> QED  BY <1>8, <2>1, <2>3
<1>10. DOMAIN s.types # {}
  BY <1>2, <1>8
<1> QED  BY <1>9, <1>10 DEF Accepts

-----------------------------------------------------------------------------
\* Theorems

IInv == TypeInv /\ PingInv /\ ExecInv /\ SchemaInv /\ FilesInv

\* The inductive invariant: what each place of the tool knows of the clock, of the
\* queries read and executed, of the schema read and of the files written.
THEOREM ReformDBInvariant == Spec => []IInv
<1>1. Init => IInv
  BY TypeInit, PingInit, ExecInit, SchemaInit, FilesInit DEF IInv
<1>2. IInv /\ [Next]_vars => IInv'
  BY TypeStep, PingStep, ExecStep, SchemaStep, FilesStep DEF IInv
<1> QED  BY <1>1, <1>2, PTL DEF Spec

\* Types, and rows are open exactly while the tool reads them: cmd_exec.go:74-89,
\* cmd_init.go:92-121, init_sqlite3.
THEOREM TypeCorrect == Spec => []TypeOK
<1>1. IInv => TypeOK
  BY DEF IInv, TypeInv
<1> QED  BY <1>1, ReformDBInvariant, PTL

\* The loop of getDB (main.go:65-77) tries once a second, and gives up neither
\* before -db-wait nor later than a second and a Ping after it, for any -db-wait
\* and any time a Ping takes.
THEOREM PingsUntilDeadlineCorrect == Spec => []PingsUntilDeadline
<1>1. IInv => PingsUntilDeadline
  BY DEF IInv, PingInv, PingsUntilDeadline
<1> QED  BY <1>1, ReformDBInvariant, PTL

\* exec and query (cmd_exec.go:47-98) execute the queries of any files in order,
\* each once, none after one that fails and none unless all files can be read.
THEOREM ExecutesInOrderCorrect == Spec => []ExecutesInOrder
<1>1. IInv => ExecutesInOrder
  BY ExecInvCorrect DEF IInv
<1> QED  BY <1>1, ReformDBInvariant, PTL

\* What init (cmd_init.go:178-255) leaves in the directory is a struct for every
\* table listed; all other files keep their text, and their layout too with
\* -gofmt=false; nothing is touched before the whole schema has been read.  For any
\* schema, any directory, and whatever other clients do.
THEOREM FilesMatchSchemaCorrect == Spec => []FilesMatchSchema
<1>1. IInv => FilesMatchSchema
  BY FilesMatch DEF IInv
<1> QED  BY <1>1, ReformDBInvariant, PTL

\* The generator (parse/file.go:89-117) accepts the structs init writes
\* (cmd_init.go:197-233), but for keys of bytes and keys SQLite lets be NULL.
THEOREM GeneratorAcceptsInitCorrect == Spec => []GeneratorAcceptsInit
<1>1. IInv => GeneratorAcceptsInit
  BY GeneratorAccepts DEF IInv
<1> QED  BY <1>1, ReformDBInvariant, PTL
=============================================================================
