----------------------------- MODULE MCGenerator -----------------------------
(***************************************************************************)
(* Generator for TLC: files and structs are interchangeable.               *)
(***************************************************************************)
EXTENDS Generator, TLC

Symmetry == Permutations(File) \cup Permutations(Struct)
=============================================================================
