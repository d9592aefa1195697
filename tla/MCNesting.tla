------------------------------ MODULE MCNesting ------------------------------
(***************************************************************************)
(* Nesting for TLC; without symmetry, for the sake of liveness.            *)
(***************************************************************************)
EXTENDS Nesting

=============================================================================
