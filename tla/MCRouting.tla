------------------------------ MODULE MCRouting ------------------------------
(***************************************************************************)
(* Routing for TLC: replicas are alike, and so are Queriers but the DB's.  *)
(***************************************************************************)
EXTENDS Routing, TLC

Symmetry == Permutations(Replica) \cup Permutations(Querier \ {DB})
=============================================================================
