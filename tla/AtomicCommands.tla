-------------------------- MODULE AtomicCommands --------------------------
(***************************************************************************)
(* What the commands of a Querier promise (querier_commands.go), without   *)
(* how: between the call and the answer there is one point at which the    *)
(* command acts on the table, at once and as its answer says, and that     *)
(* point is its answer.  Save is one upsert, though it sends an UPDATE and *)
(* an INSERT and other clients come between.  Until then the caller's      *)
(* hooks change the record in memory, and nothing else happens.            *)
(***************************************************************************)
CONSTANTS Id, NoId, Val, Absent

VARIABLES rows, busy, rec, err,
          acted   \* the command has sent the server a change, whoever sees it

shown == <<rows, busy, rec, err, acted>>

AtomicRow    == [a : Val, b : Val]
AtomicRecord == [id : Id \cup {NoId}, a : Val, b : Val]

AtomicInit ==
    /\ rows \in [Id -> AtomicRow \cup {Absent}]
    /\ busy = "none" /\ err = "none" /\ rec \in AtomicRecord /\ acted = FALSE

OtherClient ==
    /\ \E i \in Id, row \in AtomicRow \cup {Absent} : rows' = [rows EXCEPT ![i] = row]
    /\ UNCHANGED <<busy, rec, err, acted>>

Begin ==
    /\ busy = "none" /\ busy' # "none" /\ err' = "none" /\ acted' = FALSE
    /\ rec' \in AtomicRecord /\ UNCHANGED rows

\* Hooks may stamp "b" and give a record the primary key it lacks.
Hooked   == rec' \in AtomicRecord /\ rec'.a = rec.a
KeepsKey == rec.id # NoId => rec'.id = rec.id

Stamp == busy # "none" /\ Hooked /\ KeepsKey /\ UNCHANGED <<rows, busy, err, acted>>

-----------------------------------------------------------------------------
\* What an answer says of the table, before and after the point of the command

Puts(i, row) == rows' = [rows EXCEPT ![i] = row]

\* The record as it is in memory when the command returns is the row at its key.
PutsRecord == rec'.id # NoId /\ Puts(rec'.id, [a |-> rec'.a, b |-> rec'.b])

\* A driver that fails leaves the whole record or nothing, at a key that the
\* caller has not learned if the record had none.
MayPutRecord ==
    \/ UNCHANGED rows
    \/ \E i \in Id : rec'.id \in {i, NoId} /\ Puts(i, [a |-> rec'.a, b |-> rec'.b])

Taken   == rec'.id # NoId /\ rows[rec'.id] # Absent
Missing == rec'.id # NoId /\ rows[rec'.id] = Absent

\* INSERT makes a row of a key that is free; a duplicate key is one that is taken.
Inserts ==
    /\ err' = "nil"       => Missing /\ PutsRecord
    /\ err' = "duplicate" => Taken
    /\ err' = "driverErr" => MayPutRecord

Updates ==
    /\ err' = "nil"       => Taken /\ PutsRecord
    /\ err' = "driverErr" => MayPutRecord

\* The upsert: the key may be free or taken, unless Save was given none.
Upserts ==
    /\ err' = "nil"       => PutsRecord /\ (Missing \/ rec.id # NoId)
    /\ err' = "duplicate" => Taken
    /\ err' = "driverErr" => MayPutRecord

Deletes ==
    /\ err' = "nil"    => Taken /\ Puts(rec'.id, Absent)
    /\ err' = "noRows" => Missing

\* Rows a command may touch at all, also when the driver fails.
OnlyMakesRows   == \A i \in Id : rows[i] # Absent => rows'[i] = rows[i]
KeepsRows       == \A i \in Id : rows[i] = Absent <=> rows'[i] = Absent
OnlyRemovesRows == \A i \in Id : rows'[i] \in {rows[i], Absent}
NeverRemoves    == \A i \in Id : rows[i] # Absent => rows'[i] # Absent
OnlyRow(i)      == \A j \in Id : j # i => rows'[j] = rows[j]

Meaning ==
    /\ busy = "Insert" => Inserts
    /\ busy = "Update" => Updates
    /\ busy = "Save"   => Upserts
    /\ busy = "Delete" => Deletes
    /\ busy \in {"Insert", "InsertColumns", "InsertMulti"} => OnlyMakesRows
    /\ busy \in {"Update", "UpdateColumns", "UpdateView"}  => KeepsRows
    /\ busy \in {"Save", "SaveColumns"}                    => NeverRemoves
    /\ busy \in {"Delete", "DeleteFrom"}                   => OnlyRemovesRows
    /\ busy \in {"UpdateColumns", "SaveColumns", "Delete"} =>
          UNCHANGED rows \/ \E i \in Id : OnlyRow(i) /\ rec'.id \in {i, NoId}
    /\ busy = "InsertColumns" => UNCHANGED rows \/ \E i \in Id : OnlyRow(i)
    /\ busy # "InsertColumns" => KeepsKey

\* The command acts and answers.  Only an error of the driver leaves open whether it acted.
Answer ==
    /\ busy # "none" /\ busy' = "none" /\ err' # "none"
    /\ rows' \in [Id -> AtomicRow \cup {Absent}] /\ Hooked
    /\ acted' \in BOOLEAN /\ (acted' = FALSE => UNCHANGED rows)
    /\ err' \notin {"nil", "driverErr"} => acted' = FALSE
    /\ Meaning

AtomicNext == OtherClient \/ Begin \/ Stamp \/ Answer

Atomic == AtomicInit /\ [][AtomicNext]_shown
=============================================================================
