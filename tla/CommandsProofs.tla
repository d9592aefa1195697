--------------------------- MODULE CommandsProofs ---------------------------
(***************************************************************************)
(* Proofs about Commands, for any table, any dialect and any hooks.        *)
(***************************************************************************)
EXTENDS CommandsProperties, TLAPS

\* While a command is under way it has changed nothing yet: Save goes on to
\* its second statement only if the first one found no row.
Control ==
    /\ pc # "idle" => op \in Ops /\ wrote = {} /\ err = "none"
    /\ pc = "called" => refused = "nil"
    /\ pc = "insert" => /\ op \in {"Save", "SaveColumns"} /\ HasPK(rec)
                        /\ refused \in {"nil", "noRows"}
    /\ op = "none" => wrote = {}

Promises == NilMeansStored /\ ErrorsChangeNothing /\ HookAborts /\ SaveDecides

CommandsInv == TypeOK /\ Control /\ Promises

\* A command has been answered with e and the record r, having changed w.
Settles(e, r, w) ==
    /\ pc' = "idle" /\ op' = op /\ err' = e /\ rec' = r /\ wrote' = w
    /\ rows' \in [Id -> Row \cup {Absent}]

AtMostOne(w) == \A m, n \in w : m = n

\* The ways an INSERT, and an UPDATE, of record r with the columns S may end.
InsertOutcome(r, S) ==
    \/ \E i \in Id : /\ Settles("nil", Filled(r, i), {<<i, Inserted(r, S)>>})
                     /\ "id" \in S => i = r.id
    \/ \E w \in SUBSET Change : AtMostOne(w) /\ Settles("driverErr", r, w)
    \/ Settles("duplicate", r, {})

UpdateOutcome(r, S) ==
    \/ Settles("nil", r, {<<r.id, Updated(r, S, r.id)>>}) /\ Updated(r, S, r.id) \in Row
    \/ \E w \in SUBSET Change : AtMostOne(w) /\ Settles("driverErr", r, w)

-----------------------------------------------------------------------------
\* Rows and statements have their types.

LEMMA RowTypes ==
  ASSUME TypeOK, NEW r \in Record, NEW S
  PROVE  /\ Inserted(r, S) \in Row
         /\ \A i \in Present : Updated(r, S, i) \in Row
<1>1. Inserted(r, S) \in Row
  BY NamesAssumption DEF Inserted, Row, Record
<1>2. ASSUME NEW i \in Present PROVE Updated(r, S, i) \in Row
  <2>1. rows[i] \in Row
    BY <1>2 DEF TypeOK, Present
  <2>2. rows[i].a \in Val /\ rows[i].b \in Val /\ r.a \in Val /\ r.b \in Val
    BY <2>1 DEF Row, Record
  <2> QED  BY <2>2 DEF Updated, Row
<1> QED  BY <1>1, <1>2

LEMMA StoresTypes ==
  ASSUME TypeOK, NEW new \in SUBSET Change, Stores(new)
  PROVE  rows' \in [Id -> Row \cup {Absent}] /\ wrote' = wrote \cup new
<1>1. ASSUME NEW i \in Id
      PROVE  (IF \E n \in new : n[1] = i THEN (CHOOSE n \in new : n[1] = i)[2] ELSE rows[i])
                \in Row \cup {Absent}
  <2>1. CASE \E n \in new : n[1] = i
    <3>1. (CHOOSE n \in new : n[1] = i) \in new
      BY <2>1
    <3>2. \A n \in Change : n[2] \in Row \cup {Absent}
      BY DEF Change
    <3> QED  BY <2>1, <3>1, <3>2
  <2>2. CASE ~ \E n \in new : n[1] = i
    BY <1>1, <2>2 DEF TypeOK
  <2> QED  BY <2>1, <2>2
<1> QED  BY <1>1 DEF Stores

LEMMA HookTypes ==
  ASSUME TypeOK, NEW r \in Record
  PROVE  /\ \A h \in BeforeUpdate(r) : h \in Record /\ h.id = r.id
         /\ \A h \in BeforeInsert(r) : h \in Record /\ (HasPK(r) => h.id = r.id)
<1>1. \A v \in Val : [r EXCEPT !.b = v] \in Record /\ [r EXCEPT !.b = v].id = r.id
  BY DEF Record
<1>2. \A i \in Id : [r EXCEPT !.id = i] \in Record
  BY DEF Record
<1>3. \A h \in BeforeUpdate(r) : h \in Record /\ h.id = r.id
  <2> TAKE h \in BeforeUpdate(r)
  <2>1. PICK v \in Val : h = [r EXCEPT !.b = v]
    BY DEF BeforeUpdate
  <2> QED  BY <1>1, <2>1
<1>4. \A h \in BeforeInsert(r) : h \in Record /\ (HasPK(r) => h.id = r.id)
  <2> TAKE h \in BeforeInsert(r)
  <2>1. CASE h \in BeforeUpdate(r)
    BY <1>3, <2>1
  <2>2. CASE h \notin BeforeUpdate(r)
    BY <1>2, <2>2 DEF BeforeInsert
  <2> QED  BY <2>1, <2>2
<1> QED  BY <1>3, <1>4

LEMMA FilledType ==
  ASSUME NEW r \in Record, NEW i \in Id
  PROVE  /\ Filled(r, i) \in Record
         /\ Filled(r, i).a = r.a /\ Filled(r, i).b = r.b
         /\ ~HasPK(r) \/ r.id = i => Filled(r, i).id = i
  BY DEF Filled, Record

-----------------------------------------------------------------------------
\* What a statement leaves behind.

LEMMA AbortSettles ==
  ASSUME TypeOK, NEW r, NEW e, Abort(r, e)
  PROVE  Settles(e, r, wrote)
  BY DEF Abort, Return, Settles, TypeOK

LEMMA BreaksSettles ==
  ASSUME TypeOK, NEW r, NEW new \in SUBSET Change, Breaks(r, new)
  PROVE  \E w \in {wrote, wrote \cup new} : Settles("driverErr", r, w)
<1>1. CASE Stores(new)
  <2>1. rows' \in [Id -> Row \cup {Absent}] /\ wrote' = wrote \cup new
    BY <1>1, StoresTypes
  <2> QED  BY <2>1 DEF Breaks, Return, Settles
<1>2. CASE UNCHANGED <<rows, wrote>>
  BY <1>2 DEF Breaks, Return, Settles, TypeOK
<1> QED  BY <1>1, <1>2 DEF Breaks

LEMMA StoresSettles ==
  ASSUME TypeOK, NEW r, NEW new \in SUBSET Change,
         Stores(new), rec' = r, Return("nil")
  PROVE  Settles("nil", r, wrote \cup new)
  BY StoresTypes DEF Return, Settles

\* INSERT of one record: what it stored, if it says so, is under the key that
\* the record has now.
LEMMA InsertSettles ==
  ASSUME TypeOK, wrote = {}, NEW r \in Record, NEW S,
         "id" \in S => HasPK(r), insert(r, S)
  PROVE  InsertOutcome(r, S)
<1>1. ASSUME NEW i \in Id \ Present, "id" \in S => i = r.id,
             \/ Stores({<<i, Inserted(r, S)>>}) /\ rec' = Filled(r, i) /\ Return("nil")
             \/ Breaks(r, {<<i, Inserted(r, S)>>})
      PROVE  \/ Settles("nil", Filled(r, i), {<<i, Inserted(r, S)>>})
             \/ \E w \in SUBSET Change : AtMostOne(w) /\ Settles("driverErr", r, w)
  <2>1. {<<i, Inserted(r, S)>>} \in SUBSET Change
    BY RowTypes DEF Change
  <2> HIDE DEF Inserted
  <2>2. CASE Stores({<<i, Inserted(r, S)>>}) /\ rec' = Filled(r, i) /\ Return("nil")
    <3>1. Settles("nil", Filled(r, i), wrote \cup {<<i, Inserted(r, S)>>})
      BY <2>1, <2>2, StoresSettles
    <3> QED  BY <3>1
  <2>3. CASE Breaks(r, {<<i, Inserted(r, S)>>})
    <3>1. PICK w \in {wrote, wrote \cup {<<i, Inserted(r, S)>>}} : Settles("driverErr", r, w)
      BY <2>1, <2>3, BreaksSettles
    <3>2. w \in SUBSET Change /\ AtMostOne(w)
      BY <2>1, <3>1 DEF AtMostOne
    <3> QED  BY <3>1, <3>2
  <2> QED  BY <1>1, <2>2, <2>3
<1>2. CASE Abort(r, "driverErr")
  BY <1>2, AbortSettles DEF AtMostOne, InsertOutcome
<1>3. CASE Abort(r, "duplicate")
  BY <1>3, AbortSettles DEF InsertOutcome
<1> QED  BY <1>1, <1>2, <1>3 DEF insert, InsertOutcome

\* UPDATE of one record by its key.
LEMMA UpdateSettles ==
  ASSUME TypeOK, wrote = {}, NEW r \in Record, NEW S,
         r.id \in Id, update(r, S)
  PROVE  UpdateOutcome(r, S)
<1>1. CASE /\ r.id \in Present
           /\ \/ Stores({<<r.id, Updated(r, S, r.id)>>}) /\ rec' = r /\ Return("nil")
              \/ Breaks(r, {<<r.id, Updated(r, S, r.id)>>})
  <2>1. {<<r.id, Updated(r, S, r.id)>>} \in SUBSET Change /\ Updated(r, S, r.id) \in Row
    BY <1>1, RowTypes DEF Change
  <2>2. CASE Stores({<<r.id, Updated(r, S, r.id)>>}) /\ rec' = r /\ Return("nil")
    <3>1. Settles("nil", r, wrote \cup {<<r.id, Updated(r, S, r.id)>>})
      BY <2>1, <2>2, StoresSettles
    <3> QED  BY <2>1, <3>1 DEF UpdateOutcome
  <2>3. CASE Breaks(r, {<<r.id, Updated(r, S, r.id)>>})
    <3>1. PICK w \in {wrote, wrote \cup {<<r.id, Updated(r, S, r.id)>>}} : Settles("driverErr", r, w)
      BY <2>1, <2>3, BreaksSettles
    <3>2. w \in SUBSET Change /\ AtMostOne(w)
      BY <2>1, <3>1 DEF AtMostOne
    <3> QED  BY <3>1, <3>2 DEF UpdateOutcome
  <2> QED  BY <1>1, <2>2, <2>3 DEF UpdateOutcome
<1>2. CASE Abort(r, "driverErr")
  BY <1>2, AbortSettles DEF AtMostOne, UpdateOutcome
<1> QED  BY <1>1, <1>2 DEF update, UpdateOutcome

-----------------------------------------------------------------------------
\* What every action has to show when it answers.

LEMMA SettledInv ==
  ASSUME CommandsInv, op \in Ops, refused' \in HookErrs,
         NEW e \in Errs, NEW r \in Record, NEW w \in SUBSET Change,
         Settles(e, r, w),
         e = "nil" /\ op \in {"Insert", "Update", "Save"} =>
             w = {<<r.id, [a |-> r.a, b |-> r.b]>>},
         e \notin {"nil", "driverErr"} => w = {},
         op \notin {"InsertMulti", "UpdateView", "DeleteFrom"} => AtMostOne(w),
         refused' # "nil" /\ op \notin {"Save", "SaveColumns"} => e = refused' /\ w = {},
         refused' = "nil" /\ op \in {"Save", "SaveColumns"} => e \notin {"noRows", "noPK", "mixedPK"}
  PROVE  CommandsInv'
<1>1. TypeOK'
  BY DEF CommandsInv, TypeOK, Settles
<1>2. Control'
  BY DEF Control, Settles, Ops
<1>3. NilMeansStored'
  BY DEF NilMeansStored, Settles, Answered
<1>4. ErrorsChangeNothing'
  BY DEF ErrorsChangeNothing, Settles, Answered, AtMostOne
<1>5. HookAborts' /\ SaveDecides'
  BY DEF HookAborts, SaveDecides, Settles, Answered
<1> QED  BY <1>1, <1>2, <1>3, <1>4, <1>5 DEF CommandsInv, Promises

\* A hook refuses, or something is found wrong before any statement.
LEMMA AbortInv ==
  ASSUME CommandsInv, pc # "idle", refused' \in HookErrs,
         NEW e \in Errs \ {"nil"}, NEW r \in Record, Abort(r, e),
         refused' # "nil" /\ op \notin {"Save", "SaveColumns"} => e = refused',
         refused' = "nil" /\ op \in {"Save", "SaveColumns"} => e \notin {"noRows", "noPK", "mixedPK"}
  PROVE  CommandsInv'
<1>1. Settles(e, r, {}) /\ op \in Ops
  BY AbortSettles DEF CommandsInv, Control
<1> QED  BY <1>1, SettledInv DEF AtMostOne

LEMMA WholeRow ==
  ASSUME NEW r
  PROVE  /\ Inserted(r, Data) = [a |-> r.a, b |-> r.b]
         /\ Inserted(r, Column) = [a |-> r.a, b |-> r.b]
         /\ \A i : Updated(r, Data, i) = [a |-> r.a, b |-> r.b]
  BY DEF Inserted, Updated, Column, Data

\* INSERT of one record, after its hooks have agreed.
LEMMA InsertInv ==
  ASSUME CommandsInv, pc # "idle", NEW r \in Record, NEW S,
         "id" \in S => HasPK(r), insert(r, S),
         refused' \in HookErrs, refused' # "nil" => op \in {"Save", "SaveColumns"},
         op \in {"Insert", "Save"} => S = IF HasPK(r) THEN Column ELSE Data,
         op \notin {"InsertMulti", "UpdateView", "DeleteFrom", "Update"}
  PROVE  CommandsInv'
<1>1. TypeOK /\ wrote = {} /\ op \in Ops
  BY DEF CommandsInv, Control
<1>2. ASSUME NEW i \in Id, Settles("nil", Filled(r, i), {<<i, Inserted(r, S)>>}),
             "id" \in S => i = r.id
      PROVE  CommandsInv'
  <2>1. Filled(r, i) \in Record /\ {<<i, Inserted(r, S)>>} \in SUBSET Change
    BY <1>1, RowTypes, FilledType DEF Change
  <2>2. ASSUME op \in {"Insert", "Save"}
        PROVE  <<i, Inserted(r, S)>> = <<Filled(r, i).id, [a |-> Filled(r, i).a, b |-> Filled(r, i).b]>>
    <3>1. Inserted(r, S) = [a |-> r.a, b |-> r.b] /\ (~HasPK(r) \/ r.id = i)
      BY <1>2, <2>2, WholeRow DEF Column
    <3> QED  BY <3>1, FilledType
  <2> HIDE DEF Inserted, Filled
  <2> DEFINE w == {<<i, Inserted(r, S)>>}
  <2>3. AtMostOne(w)
    BY DEF AtMostOne
  <2>4. op \in {"Insert", "Update", "Save"} =>
          w = {<<Filled(r, i).id, [a |-> Filled(r, i).a, b |-> Filled(r, i).b]>>}
    BY <2>2
  <2> HIDE DEF w
  <2>5. Settles("nil", Filled(r, i), w) /\ w \in SUBSET Change
    BY <1>2, <2>1 DEF w
  <2> QED
    BY <1>1, <2>1, <2>3, <2>4, <2>5, SettledInv DEF Errs
<1>3. ASSUME NEW w \in SUBSET Change, AtMostOne(w), Settles("driverErr", r, w)
      PROVE  CommandsInv'
  BY <1>1, <1>3, SettledInv DEF Errs
<1>4. CASE Settles("duplicate", r, {})
  <2> DEFINE w == {}
             e == "duplicate"
  <2>1. w \in SUBSET Change /\ AtMostOne(w) /\ e \in Errs \ {"nil"} /\ Settles(e, r, w)
    BY <1>4 DEF AtMostOne, Errs
  <2>2. w = {} /\ e \notin {"noRows", "noPK", "mixedPK"}
    OBVIOUS
  <2> HIDE DEF w, e
  <2> QED  BY <1>1, <2>1, <2>2, SettledInv
<1>5. InsertOutcome(r, S)
  BY <1>1, InsertSettles
<1> QED  BY <1>2, <1>3, <1>4, <1>5 DEF InsertOutcome

\* BeforeInsert, and Insert if it agrees: in Insert, in Save and SaveColumns of
\* a record without a key, and in the second half of the latter two.
LEMMA InsertWithHookInv ==
  ASSUME CommandsInv, pc # "idle", insertWithHook,
         op \in {"Insert", "Save", "SaveColumns"},
         refused = "nil" \/ op \in {"Save", "SaveColumns"}
  PROVE  CommandsInv'
<1>1. PICK r \in BeforeInsert(rec), e \in HookErrs :
         /\ refused' = IF refused = "nil" THEN e ELSE refused
         /\ IF e # "nil" THEN Abort(r, e) ELSE insertAll(r)
  BY DEF insertWithHook, Refuses
<1>2. r \in Record /\ refused' \in HookErrs
  BY <1>1, HookTypes DEF CommandsInv, TypeOK
<1>3. CASE e # "nil"
  <2>1. e \in Errs \ {"nil"} /\ Abort(r, e)
    BY <1>1, <1>3 DEF HookErrs, Errs
  <2>2. refused' # "nil" /\ (op = "Insert" => e = refused')
    BY <1>1, <1>3
  <2> QED  BY <1>2, <2>1, <2>2, AbortInv
<1>4. CASE e = "nil"
  <2>1. insert(r, IF HasPK(r) THEN Column ELSE Data)
    BY <1>1, <1>4 DEF insertAll
  <2>2. "id" \notin Data
    BY DEF Data
  <2>3. refused' # "nil" => op \in {"Save", "SaveColumns"}
    BY <1>1, <1>4
  <2> DEFINE S == IF HasPK(r) THEN Column ELSE Data
  <2>4. "id" \in S => HasPK(r)
    BY <2>2
  <2>5. insert(r, S) /\ S = IF HasPK(r) THEN Column ELSE Data
    BY <2>1
  <2> HIDE DEF S
  <2> QED  BY <1>2, <2>3, <2>4, <2>5, InsertInv
<1> QED  BY <1>3, <1>4

LEMMA FilterErrs ==
  ASSUME NEW S, NEW b \in BOOLEAN
  PROVE  FilterErr(S, b) \in {"nil", "pkColumn", "badColumns", "nothing"}
  BY DEF FilterErr

\* A statement that may change many rows.
LEMMA ManyInv ==
  ASSUME CommandsInv, pc # "idle", op \in {"InsertMulti", "UpdateView", "DeleteFrom"},
         refused' = "nil", NEW r \in Record, NEW new \in SUBSET Change,
         \/ Stores(new) /\ rec' = r /\ Return("nil")
         \/ Breaks(r, new)
  PROVE  CommandsInv'
<1>1. TypeOK /\ wrote = {} /\ op \in Ops /\ "nil" \in HookErrs
  BY DEF CommandsInv, Control, HookErrs
<1>2. PICK e \in {"nil", "driverErr"}, w \in {{}, new} : Settles(e, r, w)
  BY <1>1, StoresSettles, BreaksSettles
<1>3. e \in Errs /\ w \in SUBSET Change
  BY <1>2 DEF Errs
<1> QED  BY <1>1, <1>2, <1>3, SettledInv

\* UPDATE of one record, after its hook has agreed.
LEMMA UpdateInv ==
  ASSUME CommandsInv, pc # "idle", NEW r \in Record, NEW S, r.id \in Id, update(r, S),
         refused' = "nil", op \in {"Update", "UpdateColumns", "Save", "SaveColumns"},
         op \in {"Update", "Save"} => S = Data
  PROVE  CommandsInv'
<1>1. TypeOK /\ wrote = {} /\ op \in Ops /\ "nil" \in HookErrs
  BY DEF CommandsInv, Control, HookErrs
<1>2. CASE Settles("nil", r, {<<r.id, Updated(r, S, r.id)>>}) /\ Updated(r, S, r.id) \in Row
  <2> DEFINE w == {<<r.id, Updated(r, S, r.id)>>}
  <2>1. w \in SUBSET Change /\ AtMostOne(w)
    BY <1>2 DEF Change, AtMostOne
  <2>2. op \in {"Insert", "Update", "Save"} => w = {<<r.id, [a |-> r.a, b |-> r.b]>>}
    BY WholeRow
  <2>3. Settles("nil", r, w)
    BY <1>2
  <2> HIDE DEF w
  <2> QED  BY <1>1, <2>1, <2>2, <2>3, SettledInv DEF Errs
<1>3. ASSUME NEW w \in SUBSET Change, AtMostOne(w), Settles("driverErr", r, w)
      PROVE  CommandsInv'
  BY <1>1, <1>3, SettledInv DEF Errs
<1>4. UpdateOutcome(r, S)
  BY <1>1, UpdateSettles
<1> QED  BY <1>2, <1>3, <1>4 DEF UpdateOutcome

LEMMA InsertColumnsInv == ASSUME CommandsInv, InsertColumns PROVE CommandsInv'
<1>1. pc = "called" /\ op = "InsertColumns" /\ refused = "nil"
  BY DEF InsertColumns, Called, CommandsInv, Control
<1>2. PICK r \in BeforeInsert(rec), e \in HookErrs, S \in Columns :
         /\ "id" \in S => HasPK(r)
         /\ Refuses(e)
         /\ CASE e # "nil" -> Abort(r, e)
              [] e = "nil" /\ FilterErr(S, FALSE) # "nil" -> Abort(r, FilterErr(S, FALSE))
              [] OTHER -> insert(r, S)
  BY DEF InsertColumns
<1>3. r \in Record /\ refused' = e
  BY <1>1, <1>2, HookTypes DEF CommandsInv, TypeOK, Refuses
<1>4. FilterErr(S, FALSE) \in {"nil", "badColumns"}
  BY DEF FilterErr
<1>5. CASE e # "nil"
  <2>1. e \in Errs \ {"nil"} /\ Abort(r, e)
    BY <1>2, <1>5 DEF HookErrs, Errs
  <2> QED  BY <1>1, <1>3, <1>5, <2>1, AbortInv
<1>6. CASE e = "nil" /\ FilterErr(S, FALSE) # "nil"
  <2>1. Abort(r, "badColumns") /\ "badColumns" \in Errs \ {"nil"} /\ "nil" \in HookErrs
    BY <1>2, <1>4, <1>6 DEF HookErrs, Errs
  <2> QED  BY <1>1, <1>3, <1>6, <2>1, AbortInv
<1>7. CASE e = "nil" /\ FilterErr(S, FALSE) = "nil"
  <2>1. insert(r, S)
    BY <1>2, <1>7
  <2> QED  BY <1>1, <1>2, <1>3, <1>7, <2>1, InsertInv
<1> QED  BY <1>5, <1>6, <1>7

LEMMA InsertRecordsInv ==
  ASSUME CommandsInv, pc = "called", op = "InsertMulti", insertRecords
  PROVE  CommandsInv'
<1>1. pc = "called" /\ op = "InsertMulti" /\ refused = "nil" /\ wrote = {} /\ TypeOK
  BY DEF CommandsInv, Control
<1>2. PICK r \in BeforeInsert(rec), other \in Record, e1 \in HookErrs, e2 \in HookErrs :
        /\ refused' = IF e1 # "nil" THEN e1 ELSE e2
        /\ CASE FirstErr(e1, e2) # "nil" -> Abort(r, FirstErr(e1, e2))
             [] FirstErr(e1, e2) = "nil" /\ HasPK(r) # HasPK(other) -> Abort(r, "mixedPK")
             [] OTHER ->
                  \/ \E i, j \in Id \ Present :
                        /\ i # j /\ (HasPK(r) => i = r.id /\ j = other.id)
                        /\ LET new == {<<i, Inserted(r, Data)>>, <<j, Inserted(other, Data)>>} IN
                           \/ Stores(new) /\ rec' = r /\ Return("nil")
                           \/ Breaks(r, new)
                  \/ /\ HasPK(r) /\ (r.id = other.id \/ {r.id, other.id} \cap Present # {})
                     /\ Abort(r, "duplicate")
                  \/ Abort(r, "driverErr")
  BY DEF insertRecords
<1>3. r \in Record /\ refused' = FirstErr(e1, e2) /\ refused' \in HookErrs
  BY <1>2, HookTypes DEF CommandsInv, TypeOK, FirstErr
<1>4. ASSUME NEW e \in {"mixedPK", "duplicate", "driverErr"}, refused' = "nil", Abort(r, e)
      PROVE  CommandsInv'
  <2>1. e \in Errs \ {"nil"}
    BY DEF Errs
  <2> QED  BY <1>1, <1>3, <1>4, <2>1, AbortInv
<1>5. CASE FirstErr(e1, e2) # "nil"
  <2>1. refused' \in Errs \ {"nil"} /\ Abort(r, refused')
    BY <1>2, <1>3, <1>5 DEF HookErrs, Errs
  <2> DEFINE e == FirstErr(e1, e2)
  <2>2. e \in Errs \ {"nil"} /\ Abort(r, e) /\ e = refused'
    BY <1>3, <2>1
  <2> HIDE DEF e
  <2> QED  BY <1>1, <1>3, <2>2, AbortInv
<1>6. CASE FirstErr(e1, e2) = "nil" /\ HasPK(r) # HasPK(other)
  BY <1>2, <1>3, <1>4, <1>6
<1>7. CASE FirstErr(e1, e2) = "nil" /\ HasPK(r) = HasPK(other)
  <2>1. ASSUME NEW i \in Id, NEW j \in Id,
               LET new == {<<i, Inserted(r, Data)>>, <<j, Inserted(other, Data)>>} IN
               \/ Stores(new) /\ rec' = r /\ Return("nil")
               \/ Breaks(r, new)
        PROVE  CommandsInv'
    <3> DEFINE new == {<<i, Inserted(r, Data)>>, <<j, Inserted(other, Data)>>}
    <3>1. new \in SUBSET Change
      BY <1>1, <1>3, RowTypes DEF Change
    <3>2. (Stores(new) /\ rec' = r /\ Return("nil")) \/ Breaks(r, new)
      BY <2>1
    <3> HIDE DEF new
    <3> QED  BY <1>1, <1>3, <1>7, <3>1, <3>2, ManyInv
  <2>2. CASE Abort(r, "duplicate") \/ Abort(r, "driverErr")
    BY <1>3, <1>4, <1>7, <2>2
  <2>3. \/ \E i \in Id, j \in Id :
               LET new == {<<i, Inserted(r, Data)>>, <<j, Inserted(other, Data)>>} IN
               \/ Stores(new) /\ rec' = r /\ Return("nil")
               \/ Breaks(r, new)
        \/ Abort(r, "duplicate") \/ Abort(r, "driverErr")
    BY <1>2, <1>7
  <2> QED  BY <2>1, <2>2, <2>3
<1> QED  BY <1>5, <1>6, <1>7

LEMMA InsertMultiInv == ASSUME CommandsInv, InsertMulti PROVE CommandsInv'
<1>1. pc = "called" /\ op = "InsertMulti" /\ (insertNone \/ insertRecords)
  BY DEF InsertMulti, Called
<1>2. CASE insertNone
  <2>1. PICK e \in {"nil", "mixedTables"} : Abort(rec, e)
    BY <1>2 DEF insertNone
  <2>2. TypeOK /\ wrote = {} /\ refused' = "nil" /\ rec \in Record /\ "nil" \in HookErrs
    BY <1>1, <1>2 DEF insertNone, CommandsInv, Control, TypeOK, HookErrs
  <2>3. Settles(e, rec, {}) /\ e \in Errs
    BY <2>1, <2>2, AbortSettles DEF Errs
  <2> DEFINE w == {}
  <2>4. Settles(e, rec, w) /\ w \in SUBSET Change /\ w = {} /\ AtMostOne(w)
    BY <2>3 DEF AtMostOne
  <2> HIDE DEF w
  <2> QED  BY <1>1, <2>2, <2>3, <2>4, SettledInv DEF Ops
<1> QED  BY <1>1, <1>2, InsertRecordsInv

LEMMA UpdateCommandInv == ASSUME CommandsInv, Update PROVE CommandsInv'
<1>1. pc = "called" /\ op = "Update" /\ refused = "nil"
  BY DEF Update, Called, CommandsInv, Control
<1>2. PICK r \in BeforeUpdate(rec), e \in HookErrs :
         /\ Refuses(e)
         /\ CASE e # "nil" -> Abort(r, e)
              [] e = "nil" /\ ~HasPK(r) -> Abort(r, "noPK")
              [] OTHER -> update(r, Data) \/ (NoRow(r) /\ Abort(r, "noRows"))
  BY DEF Update
<1>3. r \in Record /\ refused' = e /\ op # "Save" /\ op # "SaveColumns"
  BY <1>1, <1>2, HookTypes DEF CommandsInv, TypeOK, Refuses
<1>4. ASSUME NEW x \in {"hookErr", "noRows", "noPK"}, Abort(r, x), e = "nil" \/ e = x
      PROVE  CommandsInv'
  <2>1. x \in Errs \ {"nil"}
    BY DEF Errs
  <2> QED  BY <1>1, <1>3, <1>4, <2>1, AbortInv
<1>5. CASE e = "nil" /\ HasPK(r) /\ update(r, Data)
  <2>1. r.id \in Id
    BY <1>3, <1>5 DEF HasPK, Record
  <2> QED  BY <1>1, <1>3, <1>5, <2>1, UpdateInv
<1>6. \/ e # "nil" /\ Abort(r, e)
      \/ e = "nil" /\ (Abort(r, "noPK") \/ Abort(r, "noRows"))
      \/ e = "nil" /\ HasPK(r) /\ update(r, Data)
  BY <1>2
<1>7. e # "nil" => e \in {"hookErr", "noRows"}
  BY DEF HookErrs
<1> QED  BY <1>4, <1>5, <1>6, <1>7

LEMMA UpdateColumnsInv == ASSUME CommandsInv, UpdateColumns PROVE CommandsInv'
<1>1. pc = "called" /\ op = "UpdateColumns" /\ refused = "nil"
  BY DEF UpdateColumns, Called, CommandsInv, Control
<1>2. PICK r \in BeforeUpdate(rec), e \in HookErrs, S \in Columns :
         /\ Refuses(e)
         /\ CASE e # "nil" -> Abort(r, e)
              [] e = "nil" /\ ~HasPK(r) -> Abort(r, "noPK")
              [] e = "nil" /\ HasPK(r) /\ FilterErr(S, TRUE) # "nil" -> Abort(r, FilterErr(S, TRUE))
              [] OTHER -> update(r, S) \/ (NoRow(r) /\ Abort(r, "noRows"))
  BY DEF UpdateColumns
<1>3. r \in Record /\ refused' = e
  BY <1>1, <1>2, HookTypes DEF CommandsInv, TypeOK, Refuses
<1>4. ASSUME NEW x \in {"hookErr", "noRows", "noPK", "pkColumn", "badColumns", "nothing"},
             Abort(r, x), e = "nil" \/ e = x
      PROVE  CommandsInv'
  <2>1. x \in Errs \ {"nil"}
    BY DEF Errs
  <2> QED  BY <1>1, <1>3, <1>4, <2>1, AbortInv
<1>5. CASE e = "nil" /\ HasPK(r) /\ update(r, S)
  <2>1. r.id \in Id
    BY <1>3, <1>5 DEF HasPK, Record
  <2> QED  BY <1>1, <1>3, <1>5, <2>1, UpdateInv
<1>6. \/ e # "nil" /\ Abort(r, e)
      \/ e = "nil" /\ (Abort(r, "noPK") \/ Abort(r, "noRows"))
      \/ e = "nil" /\ FilterErr(S, TRUE) # "nil" /\ Abort(r, FilterErr(S, TRUE))
      \/ e = "nil" /\ HasPK(r) /\ update(r, S)
  BY <1>2
<1>7. e # "nil" => e \in {"hookErr", "noRows"}
  BY DEF HookErrs
<1> QED  BY <1>4, <1>5, <1>6, <1>7, FilterErrs

LEMMA UpdateViewInv == ASSUME CommandsInv, UpdateView PROVE CommandsInv'
<1>1. pc = "called" /\ op = "UpdateView" /\ refused = "nil" /\ TypeOK
  BY DEF UpdateView, Called, CommandsInv, Control
<1>2. PICK r \in BeforeUpdate(rec), e \in HookErrs, S \in Columns, A \in SUBSET Present :
         /\ Refuses(e)
         /\ CASE e # "nil" -> Abort(r, e)
              [] e = "nil" /\ FilterErr(S, TRUE) # "nil" -> Abort(r, FilterErr(S, TRUE))
              [] OTHER -> LET new == {<<i, Updated(r, S, i)>> : i \in A} IN
                          \/ Stores(new) /\ rec' = r /\ Return("nil")
                          \/ Breaks(r, new)
  BY DEF UpdateView
<1>3. r \in Record /\ refused' = e
  BY <1>1, <1>2, HookTypes DEF TypeOK, Refuses
<1>4. ASSUME NEW x \in {"hookErr", "noRows", "pkColumn", "badColumns", "nothing"},
             Abort(r, x), e = "nil" \/ e = x
      PROVE  CommandsInv'
  <2>1. x \in Errs \ {"nil"}
    BY DEF Errs
  <2> QED  BY <1>1, <1>3, <1>4, <2>1, AbortInv
<1> DEFINE new == {<<i, Updated(r, S, i)>> : i \in A}
<1>5. new \in SUBSET Change
  BY <1>1, <1>3, RowTypes DEF Change, Present
<1>6. \/ e # "nil" /\ Abort(r, e)
      \/ e = "nil" /\ FilterErr(S, TRUE) # "nil" /\ Abort(r, FilterErr(S, TRUE))
      \/ e = "nil" /\ ((Stores(new) /\ rec' = r /\ Return("nil")) \/ Breaks(r, new))
  BY <1>2
<1> HIDE DEF new
<1>7. CASE e = "nil" /\ ((Stores(new) /\ rec' = r /\ Return("nil")) \/ Breaks(r, new))
  BY <1>1, <1>3, <1>5, <1>7, ManyInv
<1>8. e # "nil" => e \in {"hookErr", "noRows"}
  BY DEF HookErrs
<1> QED  BY <1>4, <1>6, <1>7, <1>8, FilterErrs

-----------------------------------------------------------------------------
\* Save

LEMMA GoOnInv ==
  ASSUME CommandsInv, pc = "called", op \in {"Save", "SaveColumns"},
         NEW r \in Record, HasPK(r), refused' \in {"nil", "noRows"}, GoOnToInsert(r)
  PROVE  CommandsInv'
<1>1. TypeOK'
  BY DEF CommandsInv, TypeOK, GoOnToInsert, HookErrs
<1>2. Control'
  BY DEF CommandsInv, Control, GoOnToInsert, HasPK
<1>3. ~Answered'
  BY DEF Answered, GoOnToInsert
<1>4. ErrorsChangeNothing'
  BY <1>3 DEF ErrorsChangeNothing, CommandsInv, Control, GoOnToInsert
<1> QED
  BY <1>1, <1>2, <1>3, <1>4 DEF CommandsInv, Promises, NilMeansStored, HookAborts, SaveDecides

LEMMA SaveUpdateInv ==
  ASSUME CommandsInv, pc = "called", op \in {"Save", "SaveColumns"}, HasPK(rec),
         NEW S, op = "Save" => S = Data, SaveUpdate(S)
  PROVE  CommandsInv'
<1>1. PICK r \in BeforeUpdate(rec), e \in HookErrs :
        /\ Refuses(e)
        /\ CASE e = "noRows" -> GoOnToInsert(r)
             [] e = "hookErr" -> Abort(r, e)
             [] e = "nil" /\ FilterErr(S, TRUE) # "nil" -> Abort(r, FilterErr(S, TRUE))
             [] OTHER -> update(r, S) \/ (NoRow(r) /\ GoOnToInsert(r))
  BY DEF SaveUpdate
<1>2. r \in Record /\ HasPK(r) /\ refused' = e
  BY <1>1, HookTypes DEF CommandsInv, TypeOK, Control, Refuses, HasPK
<1>3. ASSUME NEW x \in {"hookErr", "pkColumn", "badColumns", "nothing"}, Abort(r, x)
      PROVE  CommandsInv'
  <2>1. x \in Errs \ {"nil"}
    BY DEF Errs
  <2> QED  BY <1>2, <1>3, <2>1, AbortInv
<1>4. CASE e \in {"nil", "noRows"} /\ GoOnToInsert(r)
  BY <1>2, <1>4, GoOnInv
<1>5. CASE e = "nil" /\ update(r, S)
  <2>1. r.id \in Id
    BY <1>2 DEF HasPK, Record
  <2> QED  BY <1>2, <1>5, <2>1, UpdateInv
<1>6. \/ e \in {"nil", "noRows"} /\ GoOnToInsert(r)
      \/ Abort(r, "hookErr")
      \/ FilterErr(S, TRUE) # "nil" /\ Abort(r, FilterErr(S, TRUE))
      \/ e = "nil" /\ update(r, S)
  BY <1>1 DEF HookErrs
<1> QED  BY <1>3, <1>4, <1>5, <1>6, FilterErrs

LEMMA SaveInv ==
  ASSUME CommandsInv, Save \/ SaveColumns \/ SaveInsert
  PROVE  CommandsInv'
<1>1. CASE Save
  <2>1. pc = "called" /\ op = "Save"
    BY <1>1 DEF Save, Called
  <2>2. CASE HasPK(rec) /\ SaveUpdate(Data)
    BY <2>1, <2>2, SaveUpdateInv
  <2>3. CASE insertWithHook
    BY <2>1, <2>3, InsertWithHookInv
  <2> QED  BY <1>1, <2>2, <2>3 DEF Save
<1>2. CASE SaveColumns
  <2>1. pc = "called" /\ op = "SaveColumns"
    BY <1>2 DEF SaveColumns, Called
  <2>2. ASSUME HasPK(rec), NEW S \in Columns, SaveUpdate(S) PROVE CommandsInv'
    BY <2>1, <2>2, SaveUpdateInv
  <2>3. CASE insertWithHook
    BY <2>1, <2>3, InsertWithHookInv
  <2> QED  BY <1>2, <2>2, <2>3 DEF SaveColumns
<1>3. CASE SaveInsert
  BY <1>3, InsertWithHookInv DEF SaveInsert, CommandsInv, Control
<1> QED  BY <1>1, <1>2, <1>3

-----------------------------------------------------------------------------
\* DELETE

LEMMA DeleteInv == ASSUME CommandsInv, Delete PROVE CommandsInv'
<1>1. /\ pc = "called" /\ op = "Delete" /\ refused' = "nil" /\ wrote = {}
      /\ TypeOK /\ rec \in Record /\ "nil" \in HookErrs
  BY DEF Delete, Called, CommandsInv, Control, TypeOK, HookErrs
<1>2. ASSUME NEW x \in {"noPK", "noRows", "driverErr"}, Abort(rec, x)
      PROVE  CommandsInv'
  <2>1. x \in Errs \ {"nil"}
    BY DEF Errs
  <2> QED  BY <1>1, <1>2, <2>1, AbortInv
<1>3. CASE /\ rec.id \in Present
           /\ \/ Stores({<<rec.id, Absent>>}) /\ rec' = rec /\ Return("nil")
              \/ Breaks(rec, {<<rec.id, Absent>>})
  <2> DEFINE new == {<<rec.id, Absent>>}
  <2>1. new \in SUBSET Change /\ AtMostOne(new) /\ AtMostOne({})
    BY <1>3 DEF Change, Present, AtMostOne
  <2>2. (Stores(new) /\ rec' = rec /\ Return("nil")) \/ Breaks(rec, new)
    BY <1>3
  <2> HIDE DEF new
  <2>3. PICK e \in {"nil", "driverErr"}, w \in {{}, new} : Settles(e, rec, w)
    BY <1>1, <2>1, <2>2, StoresSettles, BreaksSettles
  <2>4. e \in Errs /\ w \in SUBSET Change /\ AtMostOne(w)
    BY <2>1, <2>3 DEF Errs
  <2> QED  BY <1>1, <2>3, <2>4, SettledInv DEF Ops
<1> QED  BY <1>2, <1>3 DEF Delete

LEMMA DeleteFromInv == ASSUME CommandsInv, DeleteFrom PROVE CommandsInv'
<1>1. /\ pc = "called" /\ op = "DeleteFrom" /\ refused' = "nil" /\ TypeOK
      /\ rec \in Record
  BY DEF DeleteFrom, Called, CommandsInv, Control, TypeOK
<1>2. PICK A \in SUBSET Present :
        LET new == {<<i, Absent>> : i \in A} IN
        \/ Stores(new) /\ rec' = rec /\ Return("nil")
        \/ Breaks(rec, new)
  BY DEF DeleteFrom
<1> DEFINE new == {<<i, Absent>> : i \in A}
<1>3. new \in SUBSET Change
  BY DEF Change, Present
<1>4. (Stores(new) /\ rec' = rec /\ Return("nil")) \/ Breaks(rec, new)
  BY <1>2
<1> HIDE DEF new
<1> QED  BY <1>1, <1>3, <1>4, ManyInv

-----------------------------------------------------------------------------
\* The invariant, and what it promises.

LEMMA CommandsInit == Init => CommandsInv
<1> SUFFICES ASSUME Init PROVE CommandsInv
  OBVIOUS
<1>1. TypeOK
  BY DEF Init, TypeOK, HookErrs
<1>2. Control /\ ~Answered /\ wrote = {}
  BY DEF Init, Control, Answered
<1> QED
  BY <1>1, <1>2 DEF CommandsInv, Promises, NilMeansStored, ErrorsChangeNothing, HookAborts, SaveDecides

LEMMA CommandsNext == ASSUME CommandsInv, [Next]_vars PROVE CommandsInv'
<1>1. CASE Others
  <2>1. TypeOK'
    BY <1>1 DEF Others, CommandsInv, TypeOK
  <2>2. Control' /\ Promises'
    BY <1>1 DEF Others, CommandsInv, Control, Promises, Answered,
                NilMeansStored, ErrorsChangeNothing, HookAborts, SaveDecides, HasPK
  <2> QED  BY <2>1, <2>2 DEF CommandsInv
<1>2. ASSUME NEW o \in Ops, NEW r \in Record, Call(o, r) PROVE CommandsInv'
  <2>1. TypeOK'
    BY <1>2 DEF Call, CommandsInv, TypeOK, HookErrs
  <2>2. Control' /\ ~Answered'
    BY <1>2 DEF Call, Control, Answered
  <2>3. ErrorsChangeNothing'
    BY <1>2, <2>2 DEF Call, ErrorsChangeNothing
  <2> QED
    BY <2>1, <2>2, <2>3 DEF CommandsInv, Promises, NilMeansStored, HookAborts, SaveDecides
<1>3. CASE Insert
  <2>1. pc = "called" /\ op = "Insert" /\ refused = "nil" /\ insertWithHook
    BY <1>3 DEF Insert, Called, CommandsInv, Control
  <2> QED  BY <2>1, InsertWithHookInv
<1>4. CASE UNCHANGED vars
  BY <1>4 DEF vars, CommandsInv, TypeOK, Control, Promises, Answered,
              NilMeansStored, ErrorsChangeNothing, HookAborts, SaveDecides, HasPK
<1> QED
  BY <1>1, <1>2, <1>3, <1>4, InsertColumnsInv, InsertMultiInv, UpdateCommandInv,
     UpdateColumnsInv, UpdateViewInv, SaveInv, DeleteInv, DeleteFromInv DEF Next

\* CommandsInv holds in every reachable state.
THEOREM Invariant == Spec => []CommandsInv
  BY CommandsInit, CommandsNext, PTL DEF Spec

\* Every variable keeps its type, for any table and any dialect.
THEOREM TypesCorrect == Spec => []TypeOK
  BY Invariant, PTL DEF CommandsInv

\* A nil from Insert, Update or Save means one row stored, and as it should be.
THEOREM NilMeansStoredCorrect == Spec => []NilMeansStored
  BY Invariant, PTL DEF CommandsInv, Promises

\* An error that is not the driver's means that nothing was changed.
THEOREM ErrorsChangeNothingCorrect == Spec => []ErrorsChangeNothing
  BY Invariant, PTL DEF CommandsInv, Promises

\* The error of a hook is returned, and nothing changed.
THEOREM HookAbortsCorrect == Spec => []HookAborts
  BY Invariant, PTL DEF CommandsInv, Promises

\* Save never returns ErrNoRows or ErrNoPK on its own account.
THEOREM SaveDecidesCorrect == Spec => []SaveDecides
  BY Invariant, PTL DEF CommandsInv, Promises

-----------------------------------------------------------------------------
\* Each command is one change of the table: Commands implements AtomicCommands.

\* What a command does to the record in memory, whatever it answers.
Keeps(r) == r \in Record /\ r.a = rec.a /\ (op # "InsertColumns" => (HasPK(rec) => r.id = rec.id))

\* A command under way that answers is a step of the abstract specification,
\* when it acts as its answer says.
LEMMA AnswerStep ==
  ASSUME CommandsInv, pc # "idle", Keeps(rec'), pc' = "idle", err' # "none",
         rows' \in [Id -> Row \cup {Absent}],
         wrote' = {} => UNCHANGED rows,
         err' \notin {"nil", "driverErr"} => wrote' = {},
         op = "Insert" => AC!Inserts,
         op = "Update" => AC!Updates,
         op = "Save"   => AC!Upserts,
         op = "Delete" => AC!Deletes,
         op \in {"Insert", "InsertColumns", "InsertMulti"} => AC!OnlyMakesRows,
         op \in {"Update", "UpdateColumns", "UpdateView"}  => AC!KeepsRows,
         op \in {"Save", "SaveColumns"}                    => AC!NeverRemoves,
         op \in {"Delete", "DeleteFrom"}                   => AC!OnlyRemovesRows,
         op \in {"UpdateColumns", "SaveColumns", "Delete"} =>
             UNCHANGED rows \/ \E i \in Id : AC!OnlyRow(i) /\ rec'.id \in {i, NoId},
         op = "InsertColumns" => UNCHANGED rows \/ \E i \in Id : AC!OnlyRow(i)
  PROVE  AC!AtomicNext
<1>1. op \in Ops /\ op # "none"
  BY DEF CommandsInv, Control, Ops
<1>2. AC!Meaning
  BY DEF AC!Meaning, AC!KeepsKey, Keeps, HasPK
<1>3. AC!Hooked
  BY DEF AC!Hooked, AC!AtomicRecord, Keeps, Record
<1>4. AC!Answer
  BY <1>1, <1>2, <1>3 DEF AC!Answer, AC!AtomicRow, Row
<1> QED  BY <1>4 DEF AC!AtomicNext

\* Nothing is changed, and the answer is an error.
LEMMA AbortStep ==
  ASSUME CommandsInv, pc # "idle", NEW r, Keeps(r), NEW e \in Errs \ {"nil"}, Abort(r, e),
         e = "duplicate" => r.id \in Present,
         e = "noRows" /\ op = "Delete" => HasPK(r) /\ NoRow(r)
  PROVE  AC!AtomicNext
<1>1. /\ rec' = r /\ err' = e /\ UNCHANGED rows /\ pc' = "idle" /\ e # "none" /\ e # "nil"
      /\ wrote' = {}
  BY DEF Abort, Return, Errs, CommandsInv, Control
<1>2. TypeOK /\ r \in Record
  BY DEF CommandsInv, Keeps
<1>3. AC!OnlyMakesRows /\ AC!KeepsRows /\ AC!NeverRemoves /\ AC!OnlyRemovesRows
  BY <1>1 DEF AC!OnlyMakesRows, AC!KeepsRows, AC!NeverRemoves, AC!OnlyRemovesRows
<1>4. e = "duplicate" => AC!Taken
  BY <1>1, NamesAssumption DEF AC!Taken, Present
<1>5. AC!MayPutRecord
  BY <1>1 DEF AC!MayPutRecord
<1>6. e = "noRows" /\ op = "Delete" => AC!Missing
  BY <1>1, <1>2 DEF AC!Missing, HasPK, NoRow, Present, Record
<1>7. /\ op = "Insert" => AC!Inserts
      /\ op = "Update" => AC!Updates
      /\ op = "Save"   => AC!Upserts
      /\ op = "Delete" => AC!Deletes
  BY <1>1, <1>4, <1>5, <1>6 DEF AC!Inserts, AC!Updates, AC!Upserts, AC!Deletes
<1> QED  BY <1>1, <1>2, <1>3, <1>7, AnswerStep DEF TypeOK

LEMMA OneStored ==
  ASSUME TypeOK, NEW i \in Id, NEW row, Stores({<<i, row>>})
  PROVE  rows' = [rows EXCEPT ![i] = row] /\ wrote' # {}
<1> DEFINE new == {<<i, row>>}
<1>1. /\ \E n \in new : n[1] = i
      /\ (CHOOSE n \in new : n[1] = i) = <<i, row>>
      /\ \A j \in Id : j # i => ~ \E n \in new : n[1] = j
  OBVIOUS
<1>2. /\ rows' = [j \in Id |-> IF \E n \in new : n[1] = j
                              THEN (CHOOSE n \in new : n[1] = j)[2] ELSE rows[j]]
      /\ wrote' # {}
  BY DEF Stores
<1> HIDE DEF new
<1>3. \A j \in Id : rows'[j] = IF j = i THEN row ELSE rows[j]
  BY <1>1, <1>2
<1>4. rows \in [Id -> Row \cup {Absent}] /\ rows' = [j \in Id |-> rows'[j]]
  BY <1>2 DEF TypeOK
<1>5. rows' = [rows EXCEPT ![i] = row]
  BY <1>3, <1>4
<1>6. wrote' # {}
  BY <1>2
<1> QED  BY <1>5, <1>6

\* One row put into the table, new or old.
LEMMA PutStep ==
  ASSUME TypeOK, NEW i \in Id, NEW row \in Row, rows' = [rows EXCEPT ![i] = row]
  PROVE  /\ rows' \in [Id -> Row \cup {Absent}]
         /\ AC!NeverRemoves /\ AC!OnlyRow(i)
         /\ i \notin Present => AC!OnlyMakesRows
         /\ i \in Present => AC!KeepsRows
<1>1. row # Absent /\ rows \in [Id -> Row \cup {Absent}]
  BY AbsentAssumption DEF Row, TypeOK
<1>2. \A j \in Id : rows'[j] = IF j = i THEN row ELSE rows[j]
  BY <1>1
<1> QED
  BY <1>1, <1>2 DEF AC!NeverRemoves, AC!OnlyRow, AC!OnlyMakesRows, AC!KeepsRows, Present

\* Nothing changed, because the driver failed.
LEMMA NothingStep ==
  ASSUME CommandsInv, pc # "idle", Keeps(rec'), pc' = "idle", err' = "driverErr",
         UNCHANGED <<rows, wrote>>
  PROVE  AC!AtomicNext
<1>1. TypeOK
  BY DEF CommandsInv
<1>2. AC!OnlyMakesRows /\ AC!KeepsRows /\ AC!NeverRemoves /\ AC!OnlyRemovesRows
  BY DEF AC!OnlyMakesRows, AC!KeepsRows, AC!NeverRemoves, AC!OnlyRemovesRows
<1>3. AC!Inserts /\ AC!Updates /\ AC!Upserts /\ AC!Deletes
  BY DEF AC!Inserts, AC!Updates, AC!Upserts, AC!Deletes, AC!MayPutRecord
<1> QED  BY <1>1, <1>2, <1>3, AnswerStep DEF TypeOK

LEMMA InsertStep ==
  ASSUME CommandsInv, pc # "idle", NEW r, Keeps(r), NEW S, insert(r, S),
         op \in {"Insert", "InsertColumns", "Save", "SaveColumns"}, "id" \in S => HasPK(r),
         op # "InsertColumns" => S = IF HasPK(r) THEN Column ELSE Data
  PROVE  AC!AtomicNext
<1>1. TypeOK /\ r \in Record
  BY DEF CommandsInv, Keeps
<1>2. ASSUME NEW i \in Id \ Present, "id" \in S => i = r.id,
             \/ Stores({<<i, Inserted(r, S)>>}) /\ rec' = Filled(r, i) /\ Return("nil")
             \/ Breaks(r, {<<i, Inserted(r, S)>>})
      PROVE  AC!AtomicNext
  <2> DEFINE row == Inserted(r, S)
  <2>1. row \in Row /\ rows[i] = Absent /\ i # NoId
    BY <1>1, <1>2, RowTypes, NamesAssumption DEF Present
  <2>2. op # "InsertColumns" => row = [a |-> r.a, b |-> r.b] /\ (~HasPK(r) \/ r.id = i)
    BY <1>2, WholeRow DEF Column
  <2> HIDE DEF row
  <2>3. ASSUME rows' = [rows EXCEPT ![i] = row]
        PROVE  /\ rows' \in [Id -> Row \cup {Absent}]
               /\ AC!NeverRemoves /\ AC!OnlyMakesRows /\ AC!OnlyRow(i)
    BY <1>1, <1>2, <2>1, <2>3, PutStep
  <2>4. CASE Stores({<<i, row>>}) /\ rec' = Filled(r, i) /\ Return("nil")
    <3>1. rows' = [rows EXCEPT ![i] = row] /\ wrote' # {}
      BY <1>1, <2>4, OneStored
    <3>2. /\ rec' \in Record /\ rec'.a = r.a /\ rec'.b = r.b
          /\ op # "InsertColumns" => rec'.id = i
      BY <1>1, <2>2, <2>4, FilledType
    <3>3. Keeps(rec')
      BY <2>2, <3>2 DEF Keeps, HasPK
    <3>4. op # "InsertColumns" => AC!Missing /\ AC!PutsRecord
      BY <2>1, <2>2, <3>1, <3>2 DEF AC!Missing, AC!PutsRecord, AC!Puts
    <3>5. err' = "nil" /\ pc' = "idle"
      BY <2>4 DEF Return
    <3>6. op # "InsertColumns" => AC!Inserts /\ AC!Upserts
      BY <3>4, <3>5 DEF AC!Inserts, AC!Upserts
    <3> QED  BY <2>3, <3>1, <3>2, <3>3, <3>5, <3>6, AnswerStep
  <2>5. CASE Breaks(r, {<<i, row>>})
    <3>1. err' = "driverErr" /\ pc' = "idle" /\ rec' = r
      BY <2>5 DEF Breaks, Return
    <3>2. CASE UNCHANGED <<rows, wrote>>
      BY <3>1, <3>2, NothingStep
    <3>3. CASE Stores({<<i, row>>})
      <4>1. rows' = [rows EXCEPT ![i] = row] /\ wrote' # {}
        BY <1>1, <3>3, OneStored
      <4>2. op # "InsertColumns" => r.id \in {i, NoId}
        BY <2>2 DEF HasPK
      <4>3. op # "InsertColumns" => AC!MayPutRecord
        BY <2>2, <3>1, <4>1, <4>2 DEF AC!MayPutRecord, AC!Puts
      <4>4. op # "InsertColumns" => AC!Inserts /\ AC!Upserts
        BY <3>1, <4>3 DEF AC!Inserts, AC!Upserts
      <4> QED  BY <2>3, <3>1, <4>1, <4>2, <4>4, AnswerStep
    <3> QED  BY <2>5, <3>2, <3>3 DEF Breaks
  <2> QED  BY <1>2, <2>4, <2>5 DEF row
<1>3. CASE r.id \in Present /\ Abort(r, "duplicate")
  BY <1>3, AbortStep DEF Errs
<1>4. CASE Abort(r, "driverErr")
  BY <1>4, AbortStep DEF Errs
<1> QED  BY <1>2, <1>3, <1>4 DEF insert

LEMMA UpdateStep ==
  ASSUME CommandsInv, pc # "idle", NEW r, Keeps(r), NEW S, update(r, S), HasPK(rec), r.id = rec.id,
         op \in {"Update", "UpdateColumns", "Save", "SaveColumns"},
         op \in {"Update", "Save"} => S = Data
  PROVE  AC!AtomicNext
<1>1. TypeOK /\ r \in Record /\ r.id \in Id /\ r.id # NoId
  BY DEF CommandsInv, Keeps, HasPK, Record
<1>2. ASSUME r.id \in Present,
             \/ Stores({<<r.id, Updated(r, S, r.id)>>}) /\ rec' = r /\ Return("nil")
             \/ Breaks(r, {<<r.id, Updated(r, S, r.id)>>})
      PROVE  AC!AtomicNext
  <2> DEFINE row == Updated(r, S, r.id)
  <2>1. row \in Row /\ rows[r.id] # Absent
    BY <1>1, <1>2, RowTypes, NamesAssumption DEF Present
  <2>2. op \in {"Update", "Save"} => row = [a |-> r.a, b |-> r.b]
    BY WholeRow
  <2>3. rec' = r /\ pc' = "idle" /\ err' \in {"nil", "driverErr"}
    BY <1>2 DEF Breaks, Return
  <2>4. \/ Stores({<<r.id, row>>})
        \/ UNCHANGED <<rows, wrote>> /\ err' = "driverErr"
    BY <1>2 DEF Breaks, Return
  <2> HIDE DEF row
  <2>5. CASE UNCHANGED <<rows, wrote>> /\ err' = "driverErr"
    BY <2>3, <2>5, NothingStep
  <2>6. CASE Stores({<<r.id, row>>})
    <3>1. rows' = [rows EXCEPT ![r.id] = row] /\ wrote' # {}
      BY <1>1, <2>6, OneStored
    <3>2. /\ rows' \in [Id -> Row \cup {Absent}]
          /\ AC!NeverRemoves /\ AC!KeepsRows /\ AC!OnlyRow(r.id)
      BY <1>1, <1>2, <2>1, <3>1, PutStep
    <3>3. op \in {"Update", "Save"} => AC!Taken /\ AC!PutsRecord /\ AC!MayPutRecord
      BY <1>1, <2>1, <2>2, <2>3, <3>1 DEF AC!Taken, AC!PutsRecord, AC!MayPutRecord, AC!Puts
    <3>4. op \in {"Update", "Save"} => AC!Updates /\ AC!Upserts
      BY <2>3, <3>3 DEF AC!Updates, AC!Upserts, HasPK
    <3> QED  BY <1>1, <2>3, <3>1, <3>2, <3>4, AnswerStep
  <2> QED  BY <2>4, <2>5, <2>6
<1>3. CASE Abort(r, "driverErr")
  BY <1>3, AbortStep DEF Errs
<1> QED  BY <1>2, <1>3 DEF update

\* A statement that changes several rows, each as one of the pairs of new says.
LEMMA ManyStored ==
  ASSUME TypeOK, NEW new \in SUBSET Change, Stores(new)
  PROVE  /\ rows' \in [Id -> Row \cup {Absent}]
         /\ \A i \in Id : \/ rows'[i] = rows[i]
                          \/ \E n \in new : n[1] = i /\ rows'[i] = n[2]
         /\ wrote' = {} => UNCHANGED rows
<1>1. rows' \in [Id -> Row \cup {Absent}]
  BY StoresTypes
<1>2. ASSUME NEW i \in Id
      PROVE  rows'[i] = rows[i] \/ \E n \in new : n[1] = i /\ rows'[i] = n[2]
  <2>1. rows'[i] = IF \E n \in new : n[1] = i
                   THEN (CHOOSE n \in new : n[1] = i)[2] ELSE rows[i]
    BY <1>2 DEF Stores
  <2>2. CASE \E n \in new : n[1] = i
    <3>1. /\ (CHOOSE n \in new : n[1] = i) \in new
          /\ (CHOOSE n \in new : n[1] = i)[1] = i
      BY <2>2
    <3> QED  BY <2>1, <2>2, <3>1
  <2> QED  BY <2>1, <2>2
<1>3. ASSUME wrote' = {} PROVE UNCHANGED rows
  <2>1. new = {}
    BY <1>3 DEF Stores
  <2>2. \A i \in Id : rows'[i] = rows[i]
    BY <1>2, <2>1
  <2> QED  BY <1>1, <2>2 DEF TypeOK
<1> QED  BY <1>1, <1>2, <1>3

\* InsertMulti, UpdateView and DeleteFrom answer, and what they stored, or
\* what the driver left, is of their kind.
LEMMA ManyStep ==
  ASSUME CommandsInv, pc # "idle", NEW r, Keeps(r), NEW new \in SUBSET Change,
         (Stores(new) /\ rec' = r /\ Return("nil")) \/ Breaks(r, new),
         op \in {"InsertMulti", "UpdateView", "DeleteFrom"},
         op = "InsertMulti" => \A n \in new : rows[n[1]] = Absent,
         op = "UpdateView" => \A n \in new : rows[n[1]] # Absent /\ n[2] # Absent,
         op = "DeleteFrom" => \A n \in new : n[2] = Absent
  PROVE  AC!AtomicNext
<1>1. TypeOK
  BY DEF CommandsInv
<1>2. rec' = r /\ pc' = "idle" /\ err' \in {"nil", "driverErr"}
  BY DEF Breaks, Return
<1>3. CASE UNCHANGED <<rows, wrote>> /\ err' = "driverErr"
  BY <1>2, <1>3, NothingStep
<1>4. CASE Stores(new)
  <2>1. /\ rows' \in [Id -> Row \cup {Absent}]
        /\ \A i \in Id : rows'[i] = rows[i] \/ \E n \in new : n[1] = i /\ rows'[i] = n[2]
        /\ wrote' = {} => UNCHANGED rows
    BY <1>1, <1>4, ManyStored
  <2>2. /\ op = "InsertMulti" => AC!OnlyMakesRows
        /\ op = "UpdateView" => AC!KeepsRows
        /\ op = "DeleteFrom" => AC!OnlyRemovesRows
    BY <2>1 DEF AC!OnlyMakesRows, AC!KeepsRows, AC!OnlyRemovesRows
  <2> QED  BY <1>2, <2>1, <2>2, AnswerStep
<1> QED  BY <1>3, <1>4 DEF Breaks, Return

LEMMA HookKeeps ==
  ASSUME TypeOK
  PROVE  /\ \A h \in BeforeUpdate(rec) : Keeps(h) /\ h.id = rec.id
         /\ \A h \in BeforeInsert(rec) : Keeps(h)
<1>1. rec \in Record
  BY DEF TypeOK
<1>2. /\ \A h \in BeforeUpdate(rec) : h \in Record /\ h.id = rec.id
      /\ \A h \in BeforeInsert(rec) : h \in Record /\ (HasPK(rec) => h.id = rec.id)
  BY <1>1, HookTypes
<1>3. \A h \in BeforeInsert(rec) : h.a = rec.a
  BY <1>1 DEF BeforeInsert, BeforeUpdate, Record
<1>4. \A h \in BeforeUpdate(rec) : h.a = rec.a
  BY <1>3 DEF BeforeInsert
<1> QED  BY <1>2, <1>3, <1>4 DEF Keeps

LEMMA InsertWithHookStep ==
  ASSUME CommandsInv, pc # "idle", insertWithHook, op \in {"Insert", "Save", "SaveColumns"}
  PROVE  AC!AtomicNext
<1>1. PICK r \in BeforeInsert(rec), e \in HookErrs : IF e # "nil" THEN Abort(r, e) ELSE insertAll(r)
  BY DEF insertWithHook
<1>2. Keeps(r)
  BY <1>1, HookKeeps DEF CommandsInv
<1>3. CASE e # "nil"
  <2>1. e \in Errs \ {"nil"} /\ Abort(r, e) /\ e # "duplicate"
    BY <1>1, <1>3 DEF HookErrs, Errs
  <2> QED  BY <1>2, <2>1, AbortStep
<1>4. CASE e = "nil"
  <2> DEFINE S == IF HasPK(r) THEN Column ELSE Data
  <2>1. insert(r, S) /\ ("id" \in S => HasPK(r)) /\ S = IF HasPK(r) THEN Column ELSE Data
    BY <1>1, <1>4 DEF insertAll, Data
  <2> HIDE DEF S
  <2> QED  BY <1>2, <2>1, InsertStep
<1> QED  BY <1>3, <1>4

LEMMA InsertColumnsStep == ASSUME CommandsInv, InsertColumns PROVE AC!AtomicNext
<1>1. pc # "idle" /\ op = "InsertColumns" /\ TypeOK
  BY DEF InsertColumns, Called, CommandsInv
<1>2. PICK r \in BeforeInsert(rec), e \in HookErrs, S \in Columns :
         /\ "id" \in S => HasPK(r)
         /\ CASE e # "nil" -> Abort(r, e)
              [] e = "nil" /\ FilterErr(S, FALSE) # "nil" -> Abort(r, FilterErr(S, FALSE))
              [] OTHER -> insert(r, S)
  BY DEF InsertColumns
<1>3. Keeps(r)
  BY <1>1, <1>2, HookKeeps
<1>4. ASSUME NEW x \in {"hookErr", "noRows", "pkColumn", "badColumns", "nothing"}, Abort(r, x)
      PROVE  AC!AtomicNext
  <2>1. x \in Errs \ {"nil"} /\ x # "duplicate"
    BY DEF Errs
  <2> QED  BY <1>1, <1>3, <1>4, <2>1, AbortStep
<1>5. CASE insert(r, S)
  BY <1>1, <1>2, <1>3, <1>5, InsertStep
<1>6. \/ e # "nil" /\ Abort(r, e)
      \/ FilterErr(S, FALSE) # "nil" /\ Abort(r, FilterErr(S, FALSE))
      \/ insert(r, S)
  BY <1>2
<1>7. e # "nil" => e \in {"hookErr", "noRows"}
  BY DEF HookErrs
<1> QED  BY <1>4, <1>5, <1>6, <1>7, FilterErrs

LEMMA InsertMultiStep == ASSUME CommandsInv, InsertMulti PROVE AC!AtomicNext
<1>1. pc # "idle" /\ op = "InsertMulti" /\ TypeOK /\ (insertNone \/ insertRecords)
  BY DEF InsertMulti, Called, CommandsInv
<1>2. CASE insertNone
  <2>1. PICK e \in {"nil", "mixedTables"} : Abort(rec, e)
    BY <1>2 DEF insertNone
  <2>2. /\ rec' = rec /\ err' = e /\ pc' = "idle" /\ UNCHANGED rows /\ Keeps(rec)
        /\ wrote' = {}
    BY <1>1, <2>1 DEF Abort, Return, Keeps, TypeOK, CommandsInv, Control
  <2>3. AC!OnlyMakesRows
    BY <2>2 DEF AC!OnlyMakesRows
  <2> QED  BY <1>1, <2>2, <2>3, AnswerStep DEF TypeOK
<1>3. CASE insertRecords
  <2>1. PICK r \in BeforeInsert(rec), other \in Record, e1 \in HookErrs, e2 \in HookErrs :
          /\ refused' = IF e1 # "nil" THEN e1 ELSE e2
          /\ CASE FirstErr(e1, e2) # "nil" -> Abort(r, FirstErr(e1, e2))
               [] FirstErr(e1, e2) = "nil" /\ HasPK(r) # HasPK(other) -> Abort(r, "mixedPK")
               [] OTHER ->
                    \/ \E i, j \in Id \ Present :
                          /\ i # j /\ (HasPK(r) => i = r.id /\ j = other.id)
                          /\ LET new == {<<i, Inserted(r, Data)>>, <<j, Inserted(other, Data)>>} IN
                             \/ Stores(new) /\ rec' = r /\ Return("nil")
                             \/ Breaks(r, new)
                    \/ /\ HasPK(r) /\ (r.id = other.id \/ {r.id, other.id} \cap Present # {})
                       /\ Abort(r, "duplicate")
                    \/ Abort(r, "driverErr")
    BY <1>3 DEF insertRecords
  <2>2. Keeps(r) /\ r \in Record
    BY <1>1, <2>1, HookKeeps DEF Keeps
  <2>3. ASSUME NEW x \in {"hookErr", "noRows", "mixedPK", "driverErr"}, Abort(r, x)
        PROVE  AC!AtomicNext
    <3>1. x \in Errs \ {"nil"} /\ x # "duplicate"
      BY DEF Errs
    <3> QED  BY <1>1, <2>2, <2>3, <3>1, AbortStep
  <2>4. CASE Abort(r, "duplicate")
    <3>1. /\ rec' = r /\ err' = "duplicate" /\ pc' = "idle" /\ UNCHANGED rows
          /\ wrote' = {}
      BY <1>1, <2>4 DEF Abort, Return, CommandsInv, Control
    <3>2. AC!OnlyMakesRows
      BY <3>1 DEF AC!OnlyMakesRows
    <3> QED  BY <1>1, <2>2, <3>1, <3>2, AnswerStep DEF TypeOK
  <2>5. ASSUME NEW i \in Id \ Present, NEW j \in Id \ Present,
               LET new == {<<i, Inserted(r, Data)>>, <<j, Inserted(other, Data)>>} IN
               \/ Stores(new) /\ rec' = r /\ Return("nil")
               \/ Breaks(r, new)
        PROVE  AC!AtomicNext
    <3> DEFINE new == {<<i, Inserted(r, Data)>>, <<j, Inserted(other, Data)>>}
    <3>1. new \in SUBSET Change
      BY <1>1, <2>2, RowTypes DEF Change
    <3>2. \A n \in new : rows[n[1]] = Absent
      BY DEF Present
    <3>3. (Stores(new) /\ rec' = r /\ Return("nil")) \/ Breaks(r, new)
      BY <2>5
    <3> HIDE DEF new
    <3> QED  BY <1>1, <2>2, <3>1, <3>2, <3>3, ManyStep
  <2>6. \/ FirstErr(e1, e2) # "nil" /\ Abort(r, FirstErr(e1, e2))
        \/ \E i, j \in Id \ Present :
              LET new == {<<i, Inserted(r, Data)>>, <<j, Inserted(other, Data)>>} IN
              \/ Stores(new) /\ rec' = r /\ Return("nil")
              \/ Breaks(r, new)
        \/ Abort(r, "mixedPK") \/ Abort(r, "duplicate") \/ Abort(r, "driverErr")
    BY <2>1
  <2>7. FirstErr(e1, e2) # "nil" => FirstErr(e1, e2) \in {"hookErr", "noRows"}
    BY DEF FirstErr, HookErrs
  <2> QED  BY <2>3, <2>4, <2>5, <2>6, <2>7
<1> QED  BY <1>1, <1>2, <1>3

\* Update and UpdateColumns.
LEMMA UpdateRecordStep == ASSUME CommandsInv, Update \/ UpdateColumns PROVE AC!AtomicNext
<1>1. pc # "idle" /\ op \in {"Update", "UpdateColumns"} /\ TypeOK
  BY DEF Update, UpdateColumns, Called, CommandsInv
<1>2. PICK r \in BeforeUpdate(rec), e \in HookErrs, S \in Columns :
         /\ op = "Update" => S = Data
         /\ \/ e # "nil" /\ Abort(r, e)
            \/ Abort(r, "noPK") \/ Abort(r, "noRows")
            \/ FilterErr(S, TRUE) # "nil" /\ Abort(r, FilterErr(S, TRUE))
            \/ HasPK(r) /\ update(r, S)
  <2>1. CASE Update
    <3>1. op = "Update" /\ Data \in Columns
      BY <2>1 DEF Update, Called, Columns, Column
    <3>2. PICK r \in BeforeUpdate(rec), e \in HookErrs :
            \/ e # "nil" /\ Abort(r, e)
            \/ Abort(r, "noPK") \/ Abort(r, "noRows")
            \/ HasPK(r) /\ update(r, Data)
      BY <2>1 DEF Update
    <3> QED  BY <3>1, <3>2
  <2>2. CASE UpdateColumns
    <3>1. op = "UpdateColumns"
      BY <2>2 DEF UpdateColumns, Called
    <3>2. PICK r \in BeforeUpdate(rec), e \in HookErrs, S \in Columns :
            \/ e # "nil" /\ Abort(r, e)
            \/ Abort(r, "noPK") \/ Abort(r, "noRows")
            \/ FilterErr(S, TRUE) # "nil" /\ Abort(r, FilterErr(S, TRUE))
            \/ HasPK(r) /\ update(r, S)
      BY <2>2 DEF UpdateColumns
    <3> QED  BY <3>1, <3>2
  <2> QED  BY <2>1, <2>2
<1>3. Keeps(r) /\ r.id = rec.id
  BY <1>1, <1>2, HookKeeps
<1>4. ASSUME NEW x \in {"hookErr", "noRows", "noPK", "pkColumn", "badColumns", "nothing"}, Abort(r, x)
      PROVE  AC!AtomicNext
  <2>1. x \in Errs \ {"nil"} /\ x # "duplicate"
    BY DEF Errs
  <2> QED  BY <1>1, <1>3, <1>4, <2>1, AbortStep
<1>5. CASE HasPK(r) /\ update(r, S)
  BY <1>1, <1>2, <1>3, <1>5, UpdateStep DEF HasPK
<1>6. e # "nil" => e \in {"hookErr", "noRows"}
  BY DEF HookErrs
<1> QED  BY <1>2, <1>4, <1>5, <1>6, FilterErrs

LEMMA UpdateViewStep == ASSUME CommandsInv, UpdateView PROVE AC!AtomicNext
<1>1. pc # "idle" /\ op = "UpdateView" /\ TypeOK
  BY DEF UpdateView, Called, CommandsInv
<1>2. PICK r \in BeforeUpdate(rec), e \in HookErrs, S \in Columns, P \in SUBSET Present :
         CASE e # "nil" -> Abort(r, e)
           [] e = "nil" /\ FilterErr(S, TRUE) # "nil" -> Abort(r, FilterErr(S, TRUE))
           [] OTHER -> LET new == {<<i, Updated(r, S, i)>> : i \in P} IN
                       \/ Stores(new) /\ rec' = r /\ Return("nil")
                       \/ Breaks(r, new)
  BY DEF UpdateView
<1>3. Keeps(r) /\ r \in Record
  BY <1>1, <1>2, HookKeeps DEF Keeps
<1>4. ASSUME NEW x \in {"hookErr", "noRows", "pkColumn", "badColumns", "nothing"}, Abort(r, x)
      PROVE  AC!AtomicNext
  <2>1. x \in Errs \ {"nil"} /\ x # "duplicate"
    BY DEF Errs
  <2> QED  BY <1>1, <1>3, <1>4, <2>1, AbortStep
<1> DEFINE new == {<<i, Updated(r, S, i)>> : i \in P}
<1>5. new \in SUBSET Change
  BY <1>1, <1>3, RowTypes DEF Change, Present
<1>6. \A n \in new : rows[n[1]] # Absent /\ n[2] # Absent
  <2>1. \A i \in P : rows[i] # Absent /\ Updated(r, S, i) # Absent
    BY <1>1, <1>3, RowTypes, AbsentAssumption DEF Present, Row
  <2> QED  BY <2>1
<1>7. \/ e # "nil" /\ Abort(r, e)
      \/ FilterErr(S, TRUE) # "nil" /\ Abort(r, FilterErr(S, TRUE))
      \/ (Stores(new) /\ rec' = r /\ Return("nil")) \/ Breaks(r, new)
  BY <1>2
<1> HIDE DEF new
<1>8. CASE (Stores(new) /\ rec' = r /\ Return("nil")) \/ Breaks(r, new)
  BY <1>1, <1>3, <1>5, <1>6, <1>8, ManyStep
<1>9. e # "nil" => e \in {"hookErr", "noRows"}
  BY DEF HookErrs
<1> QED  BY <1>4, <1>7, <1>8, <1>9, FilterErrs

\* The UPDATE of Save answers, or found no row; then only the record has changed.
LEMMA SaveUpdateStep ==
  ASSUME CommandsInv, pc = "called", op \in {"Save", "SaveColumns"}, HasPK(rec),
         NEW S, op = "Save" => S = Data, SaveUpdate(S)
  PROVE  AC!AtomicNext
<1>1. PICK r \in BeforeUpdate(rec), e \in HookErrs :
        \/ GoOnToInsert(r)
        \/ Abort(r, "hookErr")
        \/ FilterErr(S, TRUE) # "nil" /\ Abort(r, FilterErr(S, TRUE))
        \/ update(r, S)
  BY DEF SaveUpdate
<1>2. Keeps(r) /\ r.id = rec.id /\ pc # "idle"
  BY <1>1, HookKeeps DEF CommandsInv
<1>3. ASSUME NEW x \in {"hookErr", "pkColumn", "badColumns", "nothing"}, Abort(r, x)
      PROVE  AC!AtomicNext
  <2>1. x \in Errs \ {"nil"} /\ x # "duplicate" /\ x # "noRows"
    BY DEF Errs
  <2> QED  BY <1>2, <1>3, <2>1, AbortStep
<1>4. CASE GoOnToInsert(r)
  <2>1. /\ pc' = "insert" /\ rec' = r /\ UNCHANGED <<rows, op, err, wrote>>
        /\ op # "none"
    BY <1>4 DEF GoOnToInsert
  <2>2. AC!Stamp
    BY <1>2, <2>1 DEF AC!Stamp, AC!Hooked, AC!KeepsKey, AC!AtomicRecord, Keeps, Record, HasPK
  <2> QED  BY <2>2 DEF AC!AtomicNext
<1>5. CASE update(r, S)
  BY <1>2, <1>5, UpdateStep
<1> QED  BY <1>1, <1>3, <1>4, <1>5, FilterErrs

LEMMA SaveStep ==
  ASSUME CommandsInv, Save \/ SaveColumns \/ SaveInsert
  PROVE  AC!AtomicNext
<1>1. CASE Save
  <2>1. pc = "called" /\ op = "Save"
    BY <1>1 DEF Save, Called
  <2>2. CASE HasPK(rec) /\ SaveUpdate(Data)
    BY <2>1, <2>2, SaveUpdateStep
  <2>3. CASE insertWithHook
    BY <2>1, <2>3, InsertWithHookStep
  <2> QED  BY <1>1, <2>2, <2>3 DEF Save
<1>2. CASE SaveColumns
  <2>1. pc = "called" /\ op = "SaveColumns"
    BY <1>2 DEF SaveColumns, Called
  <2>2. ASSUME HasPK(rec), NEW S \in Columns, SaveUpdate(S) PROVE AC!AtomicNext
    BY <2>1, <2>2, SaveUpdateStep
  <2>3. CASE insertWithHook
    BY <2>1, <2>3, InsertWithHookStep
  <2> QED  BY <1>2, <2>2, <2>3 DEF SaveColumns
<1>3. CASE SaveInsert
  <2>1. pc # "idle" /\ insertWithHook /\ op \in {"Save", "SaveColumns"}
    BY <1>3 DEF SaveInsert, CommandsInv, Control
  <2> QED  BY <2>1, InsertWithHookStep
<1> QED  BY <1>1, <1>2, <1>3

LEMMA DeleteStep == ASSUME CommandsInv, Delete PROVE AC!AtomicNext
<1>1. pc # "idle" /\ op = "Delete" /\ TypeOK /\ Keeps(rec)
  BY DEF Delete, Called, CommandsInv, TypeOK, Keeps
<1>2. ASSUME NEW x \in {"noPK", "noRows", "driverErr"}, Abort(rec, x),
             x = "noRows" => HasPK(rec) /\ NoRow(rec)
      PROVE  AC!AtomicNext
  <2>1. x \in Errs \ {"nil"} /\ x # "duplicate"
    BY DEF Errs
  <2> QED  BY <1>1, <1>2, <2>1, AbortStep
<1>3. CASE /\ rec.id \in Present
           /\ \/ Stores({<<rec.id, Absent>>}) /\ rec' = rec /\ Return("nil")
              \/ Breaks(rec, {<<rec.id, Absent>>})
  <2>1. rec' = rec /\ pc' = "idle" /\ err' \in {"nil", "driverErr"}
    BY <1>3 DEF Breaks, Return
  <2>2. CASE UNCHANGED <<rows, wrote>> /\ err' = "driverErr"
    BY <1>1, <2>1, <2>2, NothingStep
  <2>3. CASE Stores({<<rec.id, Absent>>})
    <3>1. rec.id \in Id /\ rec.id # NoId /\ rows[rec.id] # Absent
      BY <1>3, NamesAssumption DEF Present
    <3>2. rows' = [rows EXCEPT ![rec.id] = Absent] /\ wrote' # {}
      BY <1>1, <2>3, <3>1, OneStored
    <3>3. /\ rows' \in [Id -> Row \cup {Absent}]
          /\ \A j \in Id : rows'[j] = IF j = rec.id THEN Absent ELSE rows[j]
      BY <1>1, <3>1, <3>2 DEF TypeOK
    <3>4. AC!OnlyRemovesRows /\ AC!OnlyRow(rec.id)
      BY <3>3 DEF AC!OnlyRemovesRows, AC!OnlyRow
    <3>5. AC!Deletes
      BY <2>1, <3>1, <3>2 DEF AC!Deletes, AC!Taken, AC!Puts
    <3> QED  BY <1>1, <2>1, <3>1, <3>2, <3>3, <3>4, <3>5, AnswerStep
  <2> QED  BY <1>3, <2>2, <2>3 DEF Breaks, Return
<1> QED  BY <1>2, <1>3 DEF Delete

LEMMA DeleteFromStep == ASSUME CommandsInv, DeleteFrom PROVE AC!AtomicNext
<1>1. pc # "idle" /\ op = "DeleteFrom" /\ Keeps(rec)
  BY DEF DeleteFrom, Called, CommandsInv, TypeOK, Keeps
<1>2. PICK P \in SUBSET Present :
        LET new == {<<i, Absent>> : i \in P} IN
        \/ Stores(new) /\ rec' = rec /\ Return("nil")
        \/ Breaks(rec, new)
  BY DEF DeleteFrom
<1> DEFINE new == {<<i, Absent>> : i \in P}
<1>3. new \in SUBSET Change /\ \A n \in new : n[2] = Absent
  BY DEF Change, Present
<1>4. (Stores(new) /\ rec' = rec /\ Return("nil")) \/ Breaks(rec, new)
  BY <1>2
<1> HIDE DEF new
<1> QED  BY <1>1, <1>3, <1>4, ManyStep

\* Every command, Save with its two statements among them, is to all clients
\* one change of the table, made as the command returns and as its answer says.
THEOREM AtomicRefinement == Spec => ImplementsAtomicCommands
<1>1. Init => AC!AtomicInit
  BY DEF Init, AC!AtomicInit, AC!AtomicRow, AC!AtomicRecord, Row, Record
<1>2. CommandsInv /\ [Next]_vars => [AC!AtomicNext]_(AC!shown)
  <2> SUFFICES ASSUME CommandsInv, [Next]_vars
               PROVE  AC!AtomicNext \/ UNCHANGED AC!shown
    OBVIOUS
  <2>1. CASE Others
    <3>1. AC!OtherClient
      BY <2>1 DEF Others, AC!OtherClient, AC!AtomicRow, Row
    <3> QED  BY <3>1 DEF AC!AtomicNext
  <2>2. ASSUME NEW o \in Ops, NEW r \in Record, Call(o, r) PROVE AC!AtomicNext
    <3>1. AC!Begin
      BY <2>2 DEF Call, AC!Begin, AC!AtomicRecord, Record, Ops
    <3> QED  BY <3>1 DEF AC!AtomicNext
  <2>3. CASE Insert
    <3>1. pc # "idle" /\ op = "Insert" /\ insertWithHook
      BY <2>3 DEF Insert, Called
    <3> QED  BY <3>1, InsertWithHookStep
  <2>4. CASE UNCHANGED vars
    BY <2>4 DEF vars, AC!shown
  <2> QED
    BY <2>1, <2>2, <2>3, <2>4, InsertColumnsStep, InsertMultiStep, UpdateRecordStep,
       UpdateViewStep, SaveStep, DeleteStep, DeleteFromStep DEF Next
<1> QED
  BY <1>1, <1>2, Invariant, PTL DEF Spec, ImplementsAtomicCommands, AC!Atomic
=============================================================================
