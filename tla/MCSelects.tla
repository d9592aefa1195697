------------------------------ MODULE MCSelects ------------------------------
(***************************************************************************)
(* Selects for TLC; without symmetry, for the sake of liveness.            *)
(***************************************************************************)
EXTENDS Selects

=============================================================================
