--------------------------- MODULE MCTransaction ---------------------------
(***************************************************************************)
(* Transaction for TLC: few transactions and copies, all alike.            *)
(***************************************************************************)
EXTENDS TransactionInv, TLC

Symmetry == Permutations(Tx) \cup Permutations(Copy)
=============================================================================
