---------------------------- MODULE MCStatements ----------------------------
(***************************************************************************)
(* Statements for TLC: tables with the key first, in the middle and alone, *)
(* and a view without one.                                                 *)
(***************************************************************************)
EXTENDS Statements

MCViews == {[columns |-> <<"id", "a", "b">>, pk |-> 1], [columns |-> <<"a", "id", "b">>, pk |-> 2],
            [columns |-> <<"id">>, pk |-> 1], [columns |-> <<"a", "b">>, pk |-> 0]}
=============================================================================
