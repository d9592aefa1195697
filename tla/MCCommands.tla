----------------------------- MODULE MCCommands -----------------------------
(***************************************************************************)
(* Commands for TLC.                                                       *)
(***************************************************************************)
EXTENDS CommandsProperties

=============================================================================
