------------------------------ MODULE MCReformDB ------------------------------
(***************************************************************************)
(* ReformDB for TLC: inputs of up to two files, and schemas in which two   *)
(* tables have one name but for its case.                                  *)
(***************************************************************************)
EXTENDS ReformDB, TLC

CONSTANTS user, User, orders, id, data

MCTable  == {user, User, orders}
MCColumn == {id, data}
MCLower  == user :> "user" @@ User :> "user" @@ orders :> "orders"

MCInputs == UNION {[1 .. n -> [readable : BOOLEAN, statements : 0 .. 2]] : n \in 0 .. 2}

Def(columns, null, k) == [columns |-> columns, null |-> null, key |-> k]

\* No such table, no key, a key, one that may be NULL, one of bytes, and one of
\* two columns.
MCDefs == {Def({}, {}, {}), Def({id, data}, {id}, {}), Def({id}, {}, {id}),
           Def({id, data}, {id, data}, {id}), Def({data}, {}, {data}),
           Def({id, data}, {}, {id, data})}

MCSchemas ==
    {s \in [Table -> MCDefs] :
        /\ s[User] \in {Def({}, {}, {}), Def({id, data}, {id}, {})}
        /\ s[orders] \in {Def({}, {}, {}), Def({id}, {}, {id})}}
=============================================================================
